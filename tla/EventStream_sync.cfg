SPECIFICATION FairSpec
CONSTANTS
    Writers = {w1, w2}
    MaxEvents = 4
    MaxBatch = 2
    MaxDrops = 1
    ReplayLimit = 4
INVARIANTS
    NothingSkipped
    CacheIsResumable
    LiveMeansCaughtUp
PROPERTY CatchesUp
CHECK_DEADLOCK FALSE
