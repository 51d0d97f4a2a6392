SPECIFICATION Spec
CONSTANTS
  Client = {c1}
  Sampler = sampler
  Link = link
  Operator = operator
  None = none
  g1 = g1
  g2 = g2
  Goal = {g1}
  GoalMode <- OneGoal
  StreamKind <- CompliantStreams
  Scenarios = {{"stream", "contact", "retrip"}}
  MaxSession = 2
  MaxTrip = 2
  MaxDrop = 0
  MaxHalt = 0
INVARIANTS
  RetripIsAnEdge
CHECK_DEADLOCK FALSE
