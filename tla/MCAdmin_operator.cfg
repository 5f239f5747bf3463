SPECIFICATION Spec
CONSTANTS
    ModelIds = {m1, m2}
    Addresses = {a1}
    ApiKeys = {k1}
    NoKey = NoKey
    Limits = {1}
    NoLimit = NoLimit
    VNames = {v1}
    NoRow = NoRow
    Editors = {e1}
    Testers = {t1}
    MaxMembers = 1
    MaxRoutes = 1
SYMMETRY Symmetric
INVARIANTS NoOrphanPrice RoutesExist
PROPERTY HandPriceKept
