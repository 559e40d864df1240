SPECIFICATION Spec
CONSTANTS
    Session = {a, b}
    Shared = {a}
    Opener = {p1, p2}
    MaxCredentials = 2
    MaxDisturbances = 1
INVARIANTS ReusedCredentialsWork NoStrayCredential ReservationsAreHeld AttachedAreConfigured
SYMMETRY Openers
CHECK_DEADLOCK FALSE
