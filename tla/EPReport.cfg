\* Report intervals with and without a fraction of a second.
CONSTANTS
    TicksPerSecond = 2
    UpdateInterval = 1
    Intervals <- AllIntervals
    CacheSize = 2
    MaxSamples = 3
    MaxResets = 2
    MaxQueue = 1
    MaxTime = 8
SPECIFICATION Spec
INVARIANTS AtMostOnce NothingMissed
CHECK_DEADLOCK FALSE
