SPECIFICATION Spec
CONSTANTS
    Requests = {r1, r2}
    IPs = {i1}
    NoWindow = NoWindow
    MaxHits = 1
    Window = 2
    Lag = 0
    MaxTime = 5
SYMMETRY Interchangeable
PROPERTIES
    StaleRemoved
CHECK_DEADLOCK FALSE
