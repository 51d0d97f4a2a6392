CONSTANTS
    ProgramNames <- AllPrograms
    MaxSamples = 2
    MaxControls = 2
    Thread = {c1, c2}
    Admin = {a1, a2}
    Revoker = {a1}
    Stopper = {s1, s2}
    Token = {t1, t2}
    NoCaller = none
    ZeroToken = zero
    MaxGrant = 2
SPECIFICATION PartSpec
INVARIANTS
    TypeOK TeardownInOrder ReportIsComplete AckedIsDone
    StopIsFinal
PROPERTIES
    KeepsSession EndsInTime ControlAcked
    SwapIsARace StopNeverWaits ImplementsEmergencyStop
