SPECIFICATION Spec
CONSTANTS
    Products = {p1, p2}
    Keys = {k1, k2, k3}
    Requests = {r1, r2}
    NoProduct = NoProduct
    NoKey = NoKey
    Environments <- Everyday
SYMMETRY Interchangeable
INVARIANTS
    TypeOK
    KeyOwnership
    PendingUploadSafe
    GalleryIntact
    GalleryAppends
    NoOrphan
    NoDangling
PROPERTIES
    RemovalsContained
    ImageDeletionFinal
    DeletedStaysDeleted
