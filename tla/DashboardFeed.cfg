SPECIFICATION FewSpec
CONSTANTS
  Devices = {d1}
  Approvals = {r1}
  Hermes = hermes
  d1 = d1
  r1 = r1
  hermes = hermes
  MaxChanges = 4
  Dashboards = {b1}
  QueueSize = 2
  MaxWrites = 3
  MaxPolls = 1
  MaxLosses = 1
  None = None
INVARIANT
  ShowsTheTruth
PROPERTY
  DashboardsCatchUp
CHECK_DEADLOCK FALSE
