CONSTANTS
    s1 = s1
    s2 = s2
    None = None
    Sessions = {s1, s2}
    Plans <- OnePlanPerCycle
    PrincipalOf <- MCPrincipalOf
    TermOf <- MCTermOf
    CycleOf <- MCCycleOf
    Total = 2
    MaxPayments = 1
SYMMETRY SessionSymmetry
SPECIFICATION Spec
INVARIANTS
    DisbursedIffLent
    ScheduleFollowsTerms
    RowsFollowStatus
    PaidIsThePayments
PROPERTY
    ImplementsContract
CHECK_DEADLOCK FALSE
