SPECIFICATION Spec
CONSTANTS
  Client = {c1}
  Sampler = sampler
  Link = link
  Operator = operator
  None = none
  g1 = g1
  g2 = g2
  Goal = {g1}
  GoalMode <- OneGoal
  StreamKind <- ImpStream
  Scenarios = {{"goal", "stream"}}
  MaxSession = 1
  MaxTrip = 0
  MaxDrop = 0
  MaxHalt = 0
INVARIANTS
  OneWriter
CHECK_DEADLOCK FALSE
