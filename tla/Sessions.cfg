SPECIFICATION Spec
CONSTANTS
    Users = {u1}
    Tokens = {t1, t2, t3}
    Requests = {r1, r2}
    NoUser = NoUser
    NoToken = NoToken
    Environments <- Everyday
SYMMETRY Interchangeable
INVARIANTS
    TypeOK
    RotationOneAtATime
    LogoutAllFinal
PROPERTIES
    RevocationPermanent
    LifecycleImplemented
    ActivationDeliberate
    LockoutHolds
    SessionsKept
