SPECIFICATION Spec
CONSTANTS
    ModelIds = {m1}
    Addresses = {a1}
    ApiKeys = {k1}
    NoKey = NoKey
    Limits = {}
    NoLimit = NoLimit
    VNames = {v1}
    NoRow = NoRow
    Editors = {e1, e2}
    Testers = {}
    MaxMembers = 1
    MaxRoutes = 0
SYMMETRY Symmetric
INVARIANT NoOrphanPrice
