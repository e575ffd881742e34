SPECIFICATION FairSpec
CONSTANTS
  MaxRun = 2
  MaxSentence = 2
  MaxInterrupt = 2
  MaxDrop = 1
  MaxClips = 2
  None = None
CHECK_DEADLOCK FALSE
INVARIANT TypeOK
PROPERTIES PlaysInOrder StopIsFinal FallsSilent
