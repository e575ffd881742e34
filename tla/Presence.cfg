SPECIFICATION Spec
CONSTANTS
  Callers = {"a", "b"}
  Token <- Words
  Space = " "
  Stop = "."
  Abbreviations = {"dr"}
  MaxTools = 2
  DayLength = 12
  SleepStart = 10
  DeepSleepStart = 11
  WakeTime = 4
  DebtClear = 6
  SleepAfterIdle = 3
  DeepSleepAfterIdle = 2
  WakingDuration = 1
  ListenTimeout = 1
  ReactionDuration = 1
  MaxStep = 2
  MaxEnergy = 12
  LowEnergy = 4
  NightCost = 1
  DebtThreshold = 2
  SleepRecovery = 2
  IdleRecovery = 1
  None = None
  Scenarios <- MCScenarios
  MaxLag = 2
INVARIANTS
  TypeOK
  SpeaksAsWritten
  PendingIsCounted
  NeverBusyForNothing
  CatchesUp
PROPERTY
  AsksReturn
CHECK_DEADLOCK FALSE
