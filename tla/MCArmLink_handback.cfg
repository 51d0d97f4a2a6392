SPECIFICATION Spec
CONSTANTS
  Operator = {o1}
  MaxDrop = 1
  MaxClear = 1
  MaxHealth = 2
INVARIANT HandedBack
CHECK_DEADLOCK FALSE
