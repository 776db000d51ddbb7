CONSTANTS
    t1 = t1
    t2 = t2
    k1 = k1
    k2 = k2
    None = None
    NumRows = 2
    Total = 2
    Tries = {t1, t2}
    Keys = {k1, k2}
    Asks <- MCAsks
    MaxAmount = 3
    MaxOffice = 4
SPECIFICATION Spec
INVARIANTS
    PaidIsLivePayments
    LedgerFollowsPayments
PROPERTIES
    CollectNeverOverpays
    OldestDebtFirst
    WholeAmountUnlessStale
    KeepsContract
CHECK_DEADLOCK FALSE
