CONSTANTS
    NumEPs = 2
    MaxRuns = 2
    MaxQuits = 2
    MaxCancels = 1
    c1 = c1
    c2 = c2
    Commanders = {c1}
    Patient = TRUE
SPECIFICATION FairSpec
INVARIANTS
    OneThread
    QuitHasReader
    ConnectedHasThread
PROPERTIES
    StopLeavesNothing StopReturns DisabledStops
CHECK_DEADLOCK FALSE
