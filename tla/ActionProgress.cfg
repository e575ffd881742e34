SPECIFICATION FairSpec
CONSTANTS
  Call = {c1, c2}
  Req = {r1}
  Device = {d1}
  r1 = r1
  r2 = r2
  r3 = r3
  d1 = d1
  User = {u1}
  Hermes = {h1}
  RiskOf <- EachRisk
  DeviceOf <- OneDevice
  TTL = 1
  Answers <- Status
  CriticalEnabled = FALSE
  PageLimit = 2
  MaxReq = 1
  MaxTime = 3
  MaxCrash = 1
  None = None
  Sweeper = Sweeper
CHECK_DEADLOCK FALSE
PROPERTIES ApprovalsLapse RequestsSettle
