SPECIFICATION PartSpec
CONSTANTS
  Key = {k1, k2, k3}
  Stamp <- Stamps
  Window = 2
  Skew = 1
  MaxTime = 6
  None = None
  Absent = Absent
  Agent = {a1, a2}
  MaxPairs = 4
  MaxLosses = 1
  MaxCrashes = 2
  Torn = Torn
  Own = Own
  Thread = {t1, t2}
  Provider = {p1}
  Ttl = 2
  Longest = 2
  MaxClock = 7
  Never = Never
  MaxStarts = 3
  MaxTalk = 3
  HoldTime = 2
  MinSpeech = 2
  MaxWait = 3
CHECK_DEADLOCK FALSE
INVARIANTS AcceptedOnce PinsLast
PROPERTIES RemembersTheWindow CatalogIsFresh CoreComesUp MicCloses
