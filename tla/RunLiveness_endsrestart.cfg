SPECIFICATION FairSpec
CONSTANTS
    MaxRuns = 1
    MaxAttempts = 2
    MaxLosses = 1
    MaxStalls = 1
    MaxCrashes = 1
INVARIANT UndisturbedFiberHoldsLease
PROPERTIES
    EveryRunEnds
    AttemptNeverGoesBack
    JanitorSparesUndisturbedRuns
CHECK_DEADLOCK FALSE
