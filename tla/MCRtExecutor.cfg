SPECIFICATION FairSpec
CONSTANTS
  Joint = {j1, j2}
  Debounce = 2
  SettleTime = 3
  MaxStep = 2
  Enforce = TRUE
  Mode <- Modes
  OnContact = "float"
  Actuator = {"TORQUE", "POSITION"}
  Required <- Needs
  NoMode = NoMode
  MaxConsecutive = 2
  MaxWindow = 2
  MissWindow = 3
  FaultConfirm = 2
  LowConfirm = 3
  ExitOnFault = TRUE
  Scenarios = {{"miss", "contact", "garbled"}, {"miss", "fault", "error"}}
INVARIANTS
  LatchedRunsOnlyContact
PROPERTIES
  TripsExactly
  LossExactly
  FaultExactly
  RequestTaken
CHECK_DEADLOCK FALSE
