SPECIFICATION Spec
CONSTANTS
    Writers = {w1, w2}
    MaxEvents = 4
    MaxBatch = 2
    MaxDrops = 1
    ReplayLimit = 1
INVARIANT NothingSkipped
CHECK_DEADLOCK FALSE
