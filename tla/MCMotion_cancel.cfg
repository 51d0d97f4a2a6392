SPECIFICATION Spec
CONSTANTS
  Half = 6
  Lower <- Bottom
  Upper = 5
  MaxLead = 3
  VelLead = 1
  MaxSpring = 3
  Band = 1
  MaxStep = 2
  VMax = 2
  Full = 2
  MinScale = 1
  NaN = 99
  NoGoal = NoGoal
  NoStream = NoStream
  Shapes <- AllShapes
  Tolerances = {4}
  GoalScales = {0, 1, 2}
  Overrides = {0, 1, 2}
  Rates <- BothWays
  Starts <- Ends
  Branches = {0, 1}
  MaxLag = 2
  MaxWork = 2
  MaxDisturb = 0
INVARIANT CancelHolds
CHECK_DEADLOCK FALSE
