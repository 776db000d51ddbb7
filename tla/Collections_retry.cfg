CONSTANTS
    t1 = t1
    t2 = t2
    k1 = k1
    k2 = k2
    None = None
    NumRows = 2
    Total = 2
    Tries = {t1, t2}
    Keys = {k1, k2}
    Asks <- OneRetried
    MaxAmount = 3
    MaxOffice = 0
SPECIFICATION RetrySpec
INVARIANT
    RetryNotDoubleCredited
CHECK_DEADLOCK FALSE
