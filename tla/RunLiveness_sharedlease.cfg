SPECIFICATION Spec
CONSTANTS
    MaxRuns = 1
    MaxAttempts = 2
    MaxLosses = 0
    MaxStalls = 0
    MaxCrashes = 0
INVARIANT LiveFiberHoldsLease
CHECK_DEADLOCK FALSE
