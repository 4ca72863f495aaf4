SPECIFICATION Spec
CONSTANTS
    Users = {u1, u2}
    Admin = u1
    Requests = {r1, r2}
    Nobody = Nobody
    Products = {1, 2, 3}
    Categories = {c1, c2}
    Skus = {s1}
    Attempts = 2
    Dates = {1, 2}
    Values = {v1, v2}
    NoCategory = NoCategory
    NoSku = NoSku
    NoValue = NoValue
    NoDate = 0
    PageSize = 1
    Environments <- Everyday
SYMMETRY Interchangeable
INVARIANTS
    TypeOK
    SkuUnique
    UpsertsKept
    WalkMissesNothing
    CalmWalkExact
    FiguresAgree
PROPERTIES
    ReferencesChecked
    UpdateFollowsBody
    CategoryReturnsByUpdate
    ContactReturnsByUpsert
    DeletesAuthorised
    DemotionHolds
    RoleDeliberate
