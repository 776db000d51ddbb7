CONSTANTS
    s1 = s1
    s2 = s2
    k1 = k1
    f1 = f1
    f2 = f2
    None = None
    Sessions = {s1, s2}
    Postings <- MCPostings
    Keys = {k1}
    Allocations <- MCAllocations
    Principals = {3, 4}
    MaxRequests = 4
    LastDay = 2
SYMMETRY SessionSymmetry
SPECIFICATION Spec
INVARIANTS
    ReversalsTakeEffect
    CleanSnapshotIsTrue
    FundAvailableAgrees
    AllocationsAreWhole
PROPERTIES
    KeepsContract
CHECK_DEADLOCK FALSE
