SPECIFICATION FairSpec
CONSTANTS
  Operator = {o1, o2}
  MaxDrop = 1
  MaxClear = 2
  MaxHealth = 2
INVARIANTS
  ResumeNeedsClear
  StartsInPosition
PROPERTIES
  ClearIsAnswered
  StopReturns
CHECK_DEADLOCK FALSE
