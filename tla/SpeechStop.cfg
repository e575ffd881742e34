SPECIFICATION Spec
CONSTANTS
  MaxRun = 1
  MaxSentence = 1
  MaxInterrupt = 1
  MaxDrop = 0
  MaxClips = 2
  None = None
CHECK_DEADLOCK FALSE
PROPERTY StopCutsTheClip
