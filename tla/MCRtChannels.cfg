CONSTANTS
    Readers = {pump}
    Parts = {1, 2}
    MaxTries = 2
    RingRequest = 2
    Fields = {1, 2}
    MaxTargets = 3
    CommNs <- Ns
    MaxFrames = 3
    MaxLooks = 3
    MaxStale = 3
    Modes = {"position", "impedance", "velocity", "torque"}
    Default <- DefaultTimeout
    Timeouts = {1}
    IkFault = 2
    MaxCommands = 4
SPECIFICATION PartSpec
VIEW View
INVARIANTS PublishesFresh ReportsWhatWasKept FollowsLatest StaleStaysHeld
PROPERTIES SnapshotIsAtomic WireMovesForward
ACTION_CONSTRAINT OneAwake
CHECK_DEADLOCK FALSE
