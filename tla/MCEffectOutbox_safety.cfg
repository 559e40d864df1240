SPECIFICATION FairSpec
CONSTANTS
    capture = capture
    start = start
    interrupt = interrupt
    t1 = t1
    t2 = t2
    Effect <- TwoEffects
    Thread = {t1, t2}
    Worker = {w1, w2}
    TypeOf <- MCTypeOf
    ThreadOf <- MCThreadOf
    None = None
    MaxAttempts = 2
    Slow <- TwoEffects
    Hanging = {start}
    MaxFaults = 1
INVARIANTS
    TypeOK
    SucceededByLatestClaim
    ProcessBoundRunsOnce
    CancellationReachesExecution
PROPERTIES
    SettledIsFinal
    KeepsLedger
    EventuallySettled
CHECK_DEADLOCK FALSE
