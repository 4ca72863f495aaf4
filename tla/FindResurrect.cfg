SPECIFICATION Spec
CONSTANTS
    Products = {p1}
    Keys = {k1}
    Requests = {r1, r2}
    NoProduct = NoProduct
    NoKey = NoKey
    Environments <- UpdateAndDelete
SYMMETRY Interchangeable
PROPERTIES
    ProductDeleted
