SPECIFICATION Spec
CONSTANTS
    s1 = s1
    s2 = s2
    founder = founder
    clerk = clerk
    Users = {founder, clerk}
    Founder = founder
    Names = {"ADMIN", "STAFF", "VIEWER", "TELLER", "CASHIER"}
    Builds = {1, 2}
    Sessions = {s1, s2}
    MaxRequests = 4
SYMMETRY SessionSymmetry
INVARIANTS
    RolesInUseAreKnown
    RepairedSchemaIsCurrent
    AdminRemains
CHECK_DEADLOCK FALSE
