SPECIFICATION Spec
CONSTANTS
    Requests = {r1, r2, r3, r4}
    IPs = {i1, i2}
    NoWindow = NoWindow
    MaxHits = 2
    Window = 2
    Lag = 1
    MaxTime = 4
SYMMETRY Interchangeable
INVARIANTS
    TypeOK
    RateBounded
PROPERTIES
    DenialJustified
    UsedWindowKept
CHECK_DEADLOCK FALSE
