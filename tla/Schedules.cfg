SPECIFICATION Spec
CONSTANTS
    Rupee = 10
    Loans <- MCLoans
    Receipts <- MCReceipts
INVARIANTS
    OnTimeNeverExtends
    ExtendEmiKeepsItsPromise
    NpaIsLongestStreak
    ContractsAddUp
CHECK_DEADLOCK FALSE
