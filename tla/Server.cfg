SPECIFICATION FairSpec
CONSTANTS
    a = a
    b = b
    Servers = {a, b}
    MaxRetries = 2
    Tables = 2
    MaxLoad = 1
    Environments <- Days
INVARIANTS
    TypeOK
    ServingHasAdmin
PROPERTIES
    EventuallyServing
    StopTerminates
    TokensPurged
