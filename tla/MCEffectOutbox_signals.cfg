SPECIFICATION Spec
CONSTANTS
    capture = capture
    start = start
    interrupt = interrupt
    t1 = t1
    t2 = t2
    Effect <- ThreeEffects
    Thread = {t1, t2}
    Worker = {w1, w2}
    TypeOf <- MCTypeOf
    ThreadOf <- MCThreadOf
    None = None
    MaxAttempts = 2
    Slow <- OneStart
    Hanging <- NoEffects
    MaxFaults = 2
SYMMETRY Slots
INVARIANTS
    SignalStaysArmed
    OneRunningPerThread
CHECK_DEADLOCK FALSE
