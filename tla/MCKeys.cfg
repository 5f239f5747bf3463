\* Two editors of one model and one virtual model, one key id for two secrets, one caller.
SPECIFICATION KeySpec
CONSTANTS
    ModelIds = {m1}
    Addresses = {a1}
    ApiKeys = {}
    NoKey = NoKey
    Limits = {}
    NoLimit = NoLimit
    VNames = {v1}
    NoRow = NoRow
    Editors = {e1, e2}
    Testers = {}
    MaxMembers = 1
    MaxRoutes = 0
    Secrets = {s1, s2}
    MaxKeyId = 1
    Callers = {c1}
SYMMETRY Symmetric
INVARIANTS KeyTypeOK ListsRefer AnsweredForCause MembersExist
PROPERTY CallersKept
CHECK_DEADLOCK FALSE
