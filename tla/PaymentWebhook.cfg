SPECIFICATION Spec
CONSTANTS
    e1 = e1
    e2 = e2
    None = None
    Events <- MCEvents
    Amount <- MCAmount
    Installments = {i1}
    Total = 2
    Deliveries = {d1, d2}
    Officers = {o1, o2}
    MaxFaults = 1
INVARIANTS
    LedgerHasEventOnce
    RejectedHasNoMoney
    PaidTwiceOnlyByOverlap
PROPERTIES
    EveryReportIsKept
CHECK_DEADLOCK FALSE
