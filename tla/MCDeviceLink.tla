---------------------------- MODULE MCDeviceLink ----------------------------
(* An instance of DeviceLink for TLC. *)
EXTENDS DeviceLink

CONSTANTS q1, q2

\* The two requests are alike: the first to be dispatched is called q1.
InOrder == call'[q1] = "idle" => call'[q2] = "idle"
InOrderSpec == Init /\ [][Next /\ InOrder]_vars /\ Fairness
=============================================================================
