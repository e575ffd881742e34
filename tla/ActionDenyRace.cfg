SPECIFICATION Spec
CONSTANTS
  Call = {c1, c2, c3}
  Req = {r1, r2, r3}
  Device = {d1}
  r1 = r1
  r2 = r2
  r3 = r3
  d1 = d1
  User = {u1}
  Hermes = {h1}
  RiskOf <- EachRisk
  DeviceOf <- OneDevice
  TTL = 1
  Answers = {"completed"}
  CriticalEnabled = FALSE
  PageLimit = 2
  MaxReq = 1
  MaxTime = 0
  MaxCrash = 0
  None = None
  Sweeper = Sweeper
CHECK_DEADLOCK FALSE
INVARIANT DeniedNeverDispatched
