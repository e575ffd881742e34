------------------------------- MODULE MCParts -------------------------------
(***************************************************************************)
(* Instances for TLC of four parts that share no state: the replay guard,  *)
(* the model catalog, the process of the core, and the recorder of a       *)
(* dashboard.  A behaviour is one of a single part; the others stay as     *)
(* they were at first.                                                     *)
(***************************************************************************)
EXTENDS ReplayGuard, CoreProcess, ModelCatalog, Recorder

VARIABLE part

Stamps == 0..(MaxTime + Skew)

\* A part that stays as it is needs one initial state only.
GuardRests   == end = "core" /\ ts = [k \in Key |-> 0]
ProcessRests == setting = CHOOSE x \in Setting : TRUE

PartInit ==
  /\ part \in {"guard", "catalog", "process", "recorder"}
  /\ Init /\ CatalogInit /\ ProcessInit /\ RecorderInit
  /\ part # "guard" => GuardRests
  /\ part # "process" => ProcessRests

OnlyGuard    == part = "guard" /\ UNCHANGED <<part, catalogVars, processVars, recorderVars>>
OnlyCatalog  == part = "catalog" /\ UNCHANGED <<part, vars, processVars, recorderVars>>
OnlyProcess  == part = "process" /\ UNCHANGED <<part, vars, catalogVars, recorderVars>>
OnlyRecorder == part = "recorder" /\ UNCHANGED <<part, vars, catalogVars, processVars>>

PartNext ==
  \/ OnlyGuard /\ Next
  \/ OnlyCatalog /\ CatalogNext
  \/ OnlyProcess /\ ProcessNext
  \/ OnlyRecorder /\ RecorderNext

\* A part that has begun to start comes up; a capture is opened or fails, and
\* the sound of the room goes on coming in.
PartSpec ==
  /\ PartInit
  /\ [][PartNext]_<<part, vars, catalogVars, processVars, recorderVars>>
  /\ WF_processVars(OnlyProcess /\ ComeUp)
  /\ WF_recorderVars(OnlyRecorder /\ Chunk(FALSE))
  /\ \A t \in Starts : WF_recorderVars(OnlyRecorder /\ Opens(t))

\* A core that is started comes up (CoreProcess).
CoreComesUp == part = "process" => ComesUp
=============================================================================
