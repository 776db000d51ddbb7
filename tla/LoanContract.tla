---------------------------- MODULE LoanContract ----------------------------
(***************************************************************************)
(* What one loan promises, whatever requests race on it: it is applied for *)
(* once, a manager's decision is taken once, the principal leaves the till *)
(* exactly when the loan is approved and never again, and a loan that was  *)
(* turned down, or never decided, has moved no money.                      *)
(***************************************************************************)
CONSTANTS Amounts,      \* the principals a loan may be granted for
          None          \* "no disbursement on the ledger"

VARIABLES status,       \* loans.status
          disbursed     \* amount of the DISBURSEMENT ledger row, or None

vars == <<status, disbursed>>

\* loan-status.ts LENT_LOAN_STATUSES: the statuses of a loan that lent money.
Lent == {"APPROVED", "DISBURSED", "CLOSED"}

Init == status = "none" /\ disbursed = None

Apply == status = "none" /\ status' = "PENDING" /\ UNCHANGED disbursed

Approve(amount) ==
    /\ status = "PENDING"
    /\ status' = "APPROVED"
    /\ disbursed' = amount

Reject == status = "PENDING" /\ status' = "REJECTED" /\ UNCHANGED disbursed

Close == status \in Lent /\ status' = "CLOSED" /\ UNCHANGED disbursed

Reopen == status \in Lent /\ status' = "DISBURSED" /\ UNCHANGED disbursed

Next == Apply \/ Reject \/ Close \/ Reopen \/ \E amount \in Amounts : Approve(amount)

Spec == Init /\ [][Next]_vars
=============================================================================
