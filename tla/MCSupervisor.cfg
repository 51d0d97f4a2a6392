SPECIFICATION FairSpec
CONSTANTS
  Client = {c1}
  Sampler = sampler
  Link = link
  Operator = operator
  None = none
  g1 = g1
  g2 = g2
  Goal = {g1, g2}
  GoalMode <- MixedGoals
  StreamKind <- PosStream
  Scenarios = {{"goal", "cancel", "halt", "link"}}
  MaxSession = 0
  MaxTrip = 0
  MaxDrop = 1
  MaxHalt = 1
INVARIANTS
  SettledOnce
PROPERTIES
  AnswersEveryGoal
CHECK_DEADLOCK FALSE
