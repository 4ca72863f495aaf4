SPECIFICATION Spec
CONSTANTS
    Users = {u1, u2}
    Admin = u1
    Requests = {r1}
    Nobody = Nobody
    Products = {1}
    Categories = {c1}
    Skus = {s1}
    Attempts = 2
    Dates = {1}
    Values = {v1, v2}
    NoCategory = NoCategory
    NoSku = NoSku
    NoValue = NoValue
    NoDate = 0
    PageSize = 1
    Environments <- ManagersDelete
PROPERTIES
    DeletionNeedsAdmin
