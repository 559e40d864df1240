SPECIFICATION Spec
CONSTANTS
    Client = {c1, c2}
    MaxTimers = 3
    MaxRuntimes = 2
    MaxPins = 1
    MaxDisturbances = 1
    LateEvents = TRUE
SYMMETRY Clients
INVARIANTS
    LiveRuntimesAreOwned
    BusyCountIsTurns
    IdleSessionIsTimed
    TurnWillBeAnswered
    PersistedWhileLive
PROPERTIES
    ActiveSessionsAreKept
    FullIdleWindow
CHECK_DEADLOCK FALSE
