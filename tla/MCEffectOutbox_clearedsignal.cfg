SPECIFICATION Spec
CONSTANTS
    capture = capture
    start = start
    interrupt = interrupt
    t1 = t1
    t2 = t2
    Effect <- TwoEffects
    Thread = {t1, t2}
    Worker = {w1, w2}
    TypeOf <- MCTypeOf
    ThreadOf <- MCThreadOf
    None = None
    MaxAttempts = 3
    Slow <- TwoEffects
    Hanging <- NoEffects
    MaxFaults = 0
SYMMETRY Slots
INVARIANT SignalStaysArmed
CHECK_DEADLOCK FALSE
CONSTRAINT PromptlyArmed
