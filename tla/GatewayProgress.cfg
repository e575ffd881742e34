SPECIFICATION FairSceneSpec
CONSTANTS
  Sid = {s1, s2}
  Device = {d1}
  d1 = d1
  Key = {k1}
  Code = {c1}
  Call = {call1}
  Req = {q1}
  ReqOf <- Distinct
  DeviceOf <- OneDevice
  HeartbeatTimeout = 1
  CodeTTL = 1
  MaxTime = 2
  MaxRestart = 1
  Scenes <- ProgressScenes
  None = None
  Reaper = Reaper
CHECK_DEADLOCK FALSE
PROPERTIES DeadGoOffline DispatchEnds
