SPECIFICATION InOrderSpec
CONSTANTS
  Conn = {n1, n2}
  Req = {q1, q2}
  q1 = q1
  q2 = q2
  ReconnectMin = 2
  ReconnectMax = 3
  MaxRestart = 1
  None = None
CHECK_DEADLOCK FALSE
INVARIANTS TypeOK GivesUpForAReason CodeOutlivesLostHellos
PROPERTIES ImplementsRemoteCall ComesBack
