SPECIFICATION SceneSpec
CONSTANTS
  Sid = {s1, s2, s3}
  Device = {d1}
  d1 = d1
  Key = {k1, k2}
  Code = {c1, c2}
  Call = {call1, call2}
  Req = {q1, q2}
  ReqOf <- Distinct
  DeviceOf <- OneDevice
  HeartbeatTimeout = 0
  CodeTTL = 1
  MaxTime = 1
  MaxRestart = 0
  Scenes <- SafetyScenes
  None = None
  Reaper = Reaper
CHECK_DEADLOCK FALSE
SYMMETRY Sids
INVARIANTS TypeOK SoleSession StatusAgrees FeedAgrees PairingIsExclusive PendingIsExact
PROPERTIES OfflineOnlyWhenGone
