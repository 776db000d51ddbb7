CONSTANTS
    s1 = s1
    s2 = s2
    Sessions = {s1, s2}
    Term = 1
    MaxExtra = 2
    Total = 4
    Dust = 1
    Amounts = {2, 5}
    MaxPayments = 3
    MaxOvertaken = 1
    LastDay = 2
SYMMETRY SessionSymmetry
SPECIFICATION Spec
INVARIANTS
    PaidIsLivePayments
    ScheduleHasNoGaps
    LedgerExceedsByDeleted
PROPERTIES
    ArrearsFirst
    
CHECK_DEADLOCK FALSE
