SPECIFICATION FairSpec
CONSTANTS
    MaxRuns = 2
    MaxAttempts = 1
    MaxLosses = 1
    MaxStalls = 0
    MaxCrashes = 1
INVARIANTS
    TypeOK
    OneBlockingRun
    RestartReplaysNothing
    QueueIsServed
PROPERTIES
    EndedRunsStayEnded
    EveryRunEnds
CHECK_DEADLOCK FALSE
