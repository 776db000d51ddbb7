---------------------------- MODULE LoanLifecycle ----------------------------
(***************************************************************************)
(* One loan and its installment schedule, as the loan handlers of          *)
(* TenantLoansService and the office payment of TenantCollectionsService   *)
(* change them.  Every handler first reads and checks, then writes; only   *)
(* approveLoan and recordPayment write inside a transaction, every other   *)
(* write is a statement of its own.  A session is one request at a time,   *)
(* and its steps interleave with those of the other sessions: a request is *)
(* "read" until its first write, and a request whose handler writes more   *)
(* than once is in one of the Tails after the first.                       *)
(***************************************************************************)
EXTENDS Integers, Sequences, FiniteSetsExt

CONSTANTS
    Sessions,       \* requests in flight at the same time, each of any user
    Plans,          \* the loan forms that may be submitted
    PrincipalOf,    \* principal of a form
    TermOf,         \* number of installments the form's schedule has
    CycleOf,        \* WEEKLY, DAILY, MONTHLY or AGENT_RISK
    Total,          \* amount due on one installment
    MaxPayments,    \* bound: payments ever recorded
    None            \* NULL

Cycles == {"WEEKLY", "DAILY", "MONTHLY", "AGENT_RISK"}

ASSUME ConstantsAssumption ==
    /\ None \notin Plans
    /\ PrincipalOf \in [Plans -> Nat \ {0}]
    /\ TermOf \in [Plans -> Nat \ {0}]
    /\ CycleOf \in [Plans -> Cycles]
    /\ Total \in Nat \ {0}
    /\ MaxPayments \in Nat
    /\ None \notin Nat

VARIABLES
    loan,       \* the loans row
    rows,       \* installments by installment_number; status "none": no such row
    payments,   \* payments in insertion order; row 0: installment_id IS NULL
    disbursed,  \* amount of the ledger row keyed disbursement:<loanId>, or None
    req,        \* per session: the step its request has reached and what it read
    crashed,    \* history: a request died after its first write, before its last
    raced       \* history: a later write of a request found the loan moved on by another

vars == <<loan, rows, payments, disbursed, req, crashed, raced>>

Lent == {"APPROVED", "DISBURSED", "CLOSED"}
ActiveStatuses == {"APPROVED", "DISBURSED"}
Unpaid == {"PENDING", "PARTIALLY_PAID"}     \* OVERDUE is a PENDING row past its date

RowNumbers == UNION {1..TermOf[p] : p \in Plans}
NoRow == [status |-> "none", paid |-> 0, plan |-> None]
Present(r) == rows[r].status # "none"

Reads == {"approving", "rejecting", "closing", "requesting", "accepting",
          "reopening", "deleting", "editing", "paying"}
Tails == {"waiving", "restoring", "clearing", "building"}
Idle == [at |-> "idle", plan |-> None, row |-> 0, cash |-> 0]

Loans == [status : Lent \cup {"none", "PENDING", "REJECTED"}, plan : Plans \cup {None},
          pendingClosure : BOOLEAN, deleted : BOOLEAN]
Rows == [status : Unpaid \cup {"none", "PAID", "WAIVED"}, paid : Nat, plan : Plans \cup {None}]
Requests == [at : Reads \cup Tails \cup {"idle"}, plan : Plans \cup {None},
             row : RowNumbers \cup {0}, cash : Nat]
Payments == [row : RowNumbers \cup {0}, amount : Nat \ {0}]

(***************************************************************************)
(* Type correctness.                                                       *)
(***************************************************************************)
TypeOK ==
    /\ loan \in Loans
    /\ rows \in [RowNumbers -> Rows]
    /\ payments \in Seq(Payments)
    /\ disbursed \in Nat \cup {None}
    /\ req \in [Sessions -> Requests]
    /\ crashed \in BOOLEAN
    /\ raced \in BOOLEAN

Init ==
    /\ loan = [status |-> "none", plan |-> None, pendingClosure |-> FALSE, deleted |-> FALSE]
    /\ rows = [r \in RowNumbers |-> NoRow]
    /\ payments = <<>>
    /\ disbursed = None
    /\ req = [s \in Sessions |-> Idle]
    /\ crashed = FALSE
    /\ raced = FALSE

-----------------------------------------------------------------------------
(* Steps every handler is built from. *)

At(s, step) == req[s].at = step
Continue(s, step) == req' = [req EXCEPT ![s].at = step]
Finish(s) == req' = [req EXCEPT ![s] = Idle]

\* The handler's SELECT: the session was idle and goes on with what it read.
Begin(s, step, plan, row, cash) ==
    /\ At(s, "idle")
    /\ req' = [req EXCEPT ![s] = [at |-> step, plan |-> plan, row |-> row, cash |-> cash]]
    /\ UNCHANGED <<loan, rows, payments, disbursed, crashed, raced>>

\* A one-statement UPDATE of the loans row; the request goes on at "next".
UpdateLoan(s, new, next) ==
    /\ loan' = new
    /\ IF next = "idle" THEN Finish(s) ELSE Continue(s, next)
    /\ UNCHANGED <<rows, payments, disbursed, crashed, raced>>

\* The request answers an error before any write.
Refuse(s) == Finish(s) /\ UNCHANGED <<loan, rows, payments, disbursed, crashed, raced>>

\* A later statement of a request, and whether the loan is still as its first left it.
TailOf(undisturbed) ==
    /\ raced' = (raced \/ ~undisturbed)
    /\ UNCHANGED <<loan, disbursed, crashed>>

-----------------------------------------------------------------------------
(* Applying for a loan: INSERT INTO loans, then one INSERT per installment. *)

InsertLoan(s, p) ==
    /\ At(s, "idle")
    /\ loan.status = "none"
    /\ loan' = [status |-> "PENDING", plan |-> p, pendingClosure |-> FALSE, deleted |-> FALSE]
    /\ req' = [req EXCEPT ![s] = [at |-> "building", plan |-> p, row |-> 1, cash |-> 0]]
    /\ UNCHANGED <<rows, payments, disbursed, crashed, raced>>

CreateWeeklyLoan(s, p) == CycleOf[p] = "WEEKLY" /\ InsertLoan(s, p)
CreateDailyLoan(s, p) == CycleOf[p] = "DAILY" /\ InsertLoan(s, p)
CreateMonthlyLoan(s, p) == CycleOf[p] = "MONTHLY" /\ InsertLoan(s, p)
CreateAgentRiskLoan(s, p) == CycleOf[p] = "AGENT_RISK" /\ InsertLoan(s, p)

\* Mutant: the schedule loop stops one installment short.
LastRowShort(p) == IF TermOf[p] = 1 THEN 1 ELSE TermOf[p] - 1
LastRow(p) == TermOf[p]

\* The next INSERT INTO installments of a create or an edit.
InsertRow(s) ==
    LET r == req[s].row
        p == req[s].plan
    IN  /\ At(s, "building")
        /\ ~Present(r)
        /\ rows' = [rows EXCEPT ![r] = [status |-> "PENDING", paid |-> 0, plan |-> p]]
        /\ IF r = LastRow(p) THEN Finish(s) ELSE req' = [req EXCEPT ![s].row = r + 1]
        /\ TailOf(loan.plan = p /\ loan.status # "CLOSED")
        /\ UNCHANGED payments

\* UNIQUE (loan_id, installment_number): the INSERT, and with it the request, fails.
InsertRowConflict(s) ==
    /\ At(s, "building")
    /\ Present(req[s].row)
    /\ Finish(s)
    /\ UNCHANGED <<loan, rows, payments, disbursed, crashed, raced>>

-----------------------------------------------------------------------------
(* Deciding on an application. *)

ReadForApproval(s) ==
    /\ loan.status = "PENDING" /\ ~loan.deleted
    /\ Begin(s, "approving", loan.plan, 0, 0)

\* Mutant: the claim without its status guard.
ClaimUnguarded == loan.status # "none"
\* WHERE status = 'PENDING': the guard that serialises two decisions.
StillPending == loan.status = "PENDING"

\* BEGIN; claim the loan; post the disbursement; COMMIT.
CommitApproval(s) ==
    /\ At(s, "approving")
    /\ StillPending /\ ~loan.deleted
    /\ loan' = [loan EXCEPT !.status = "APPROVED"]
    /\ disbursed' = IF disbursed = None THEN PrincipalOf[req[s].plan] ELSE disbursed
    /\ Finish(s)
    /\ UNCHANGED <<rows, payments, crashed, raced>>

LoseApproval(s) ==
    /\ At(s, "approving")
    /\ ~(StillPending /\ ~loan.deleted)
    /\ Refuse(s)

ReadForReject(s) ==
    /\ loan.status = "PENDING" /\ ~loan.deleted
    /\ Begin(s, "rejecting", None, 0, 0)

CommitReject(s) ==
    /\ At(s, "rejecting")
    /\ StillPending
    /\ UpdateLoan(s, [loan EXCEPT !.status = "REJECTED"], "idle")

LoseReject(s) == At(s, "rejecting") /\ ~StillPending /\ Refuse(s)

-----------------------------------------------------------------------------
(* Closing and reopening: the loans row first, then its installments. *)

ReadForClose(s, isFieldRequest) ==
    /\ loan.status \in ActiveStatuses /\ ~loan.deleted
    /\ Begin(s, IF isFieldRequest THEN "requesting" ELSE "closing", None, 0, 0)

CommitClose(s) ==
    /\ At(s, "closing")
    /\ UpdateLoan(s, [loan EXCEPT !.status = "CLOSED"], "waiving")

\* An agent or staff member only asks; pending_closure is set whatever the loan is by now.
RequestClosure(s) ==
    /\ At(s, "requesting")
    /\ UpdateLoan(s, [loan EXCEPT !.pendingClosure = TRUE], "idle")

ReadForApproveClose(s) ==
    /\ loan.pendingClosure /\ ~loan.deleted
    /\ Begin(s, "accepting", None, 0, 0)

CommitApproveClose(s) ==
    /\ At(s, "accepting")
    /\ UpdateLoan(s, [loan EXCEPT !.status = "CLOSED", !.pendingClosure = FALSE], "waiving")

\* Mutant: a closed loan keeps its part-paid installments open.
WaivedUnpaid(row) == IF row.status = "PENDING" THEN [row EXCEPT !.status = "WAIVED"] ELSE row
Waived(row) == IF row.status \in Unpaid THEN [row EXCEPT !.status = "WAIVED"] ELSE row

WaiveRows(s) ==
    /\ At(s, "waiving")
    /\ rows' = [r \in RowNumbers |-> Waived(rows[r])]
    /\ Finish(s)
    /\ TailOf(loan.status = "CLOSED")
    /\ UNCHANGED payments

\* Mutant: a rejected application can be reopened.
ReopenableAlsoRejected == loan.status \in {"CLOSED", "REJECTED"}
Reopenable == loan.status = "CLOSED"

ReadForReopen(s) ==
    /\ Reopenable /\ ~loan.deleted
    /\ Begin(s, "reopening", None, 0, 0)

CommitReopen(s) ==
    /\ At(s, "reopening")
    /\ UpdateLoan(s, [loan EXCEPT !.status = "DISBURSED"], "restoring")

\* The status an installment's own balance implies.
StatusOfBalance(paid) ==
    IF paid >= Total THEN "PAID" ELSE IF paid > 0 THEN "PARTIALLY_PAID" ELSE "PENDING"

Restored(row) ==
    IF row.status = "WAIVED" THEN [row EXCEPT !.status = StatusOfBalance(row.paid)] ELSE row

RestoreRows(s) ==
    /\ At(s, "restoring")
    /\ rows' = [r \in RowNumbers |-> Restored(rows[r])]
    /\ Finish(s)
    /\ TailOf(loan.status = "DISBURSED")
    /\ UNCHANGED payments

-----------------------------------------------------------------------------
(* Deleting a loan, and editing one that has no payments yet. *)

ReadForDelete(s) ==
    /\ loan.status \notin ActiveStatuses \cup {"none"} /\ ~loan.deleted
    /\ Begin(s, "deleting", None, 0, 0)

CommitDelete(s) ==
    /\ At(s, "deleting")
    /\ UpdateLoan(s, [loan EXCEPT !.deleted = TRUE], "idle")

\* assertLoanEditable
LoanEditable ==
    /\ loan.status \in ActiveStatuses /\ ~loan.deleted
    /\ ~loan.pendingClosure
    /\ payments = <<>>

ReadForEdit(s, p) ==
    /\ LoanEditable
    /\ CycleOf[loan.plan] = CycleOf[p]
    /\ Begin(s, "editing", p, 0, 0)

UpdateWeeklyLoan(s, p) == CycleOf[p] = "WEEKLY" /\ ReadForEdit(s, p)
UpdateDailyLoan(s, p) == CycleOf[p] = "DAILY" /\ ReadForEdit(s, p)
UpdateMonthlyLoan(s, p) == CycleOf[p] = "MONTHLY" /\ ReadForEdit(s, p)
UpdateAgentRiskLoan(s, p) == CycleOf[p] = "AGENT_RISK" /\ ReadForEdit(s, p)

\* UPDATE loans SET principal, term, ...: the status and the ledger stay as they are.
CommitEdit(s) ==
    /\ At(s, "editing")
    /\ UpdateLoan(s, [loan EXCEPT !.plan = req[s].plan], "clearing")

\* DELETE FROM installments: payments keep their row with installment_id set to NULL, and
\* a payment still to be written no longer finds the installment id it read.
ClearRows(s) ==
    /\ At(s, "clearing")
    /\ rows' = [r \in RowNumbers |-> NoRow]
    /\ payments' = [i \in DOMAIN payments |-> [payments[i] EXCEPT !.row = 0]]
    /\ req' = [x \in Sessions |->
                  IF x = s THEN [req[s] EXCEPT !.at = "building", !.row = 1]
                  ELSE IF At(x, "paying") THEN [req[x] EXCEPT !.row = 0]
                  ELSE req[x]]
    /\ TailOf(loan.plan = req[s].plan /\ loan.status # "CLOSED")

-----------------------------------------------------------------------------
(* Recording an office payment on one installment. *)

ReadForPayment(s, r, amount) ==
    /\ Len(payments) < MaxPayments
    /\ Present(r)
    /\ loan.status \in ActiveStatuses
    /\ amount <= Total - rows[r].paid
    /\ Begin(s, "paying", None, r, amount)

\* Mutant: the balance read before BEGIN is written back, in place of paid_amount + $1.
OverwrittenPaid(row, amount) == [row EXCEPT !.paid = amount, !.status = StatusOfBalance(amount)]
Credited(row, amount) ==
    [row EXCEPT !.paid = row.paid + amount, !.status = StatusOfBalance(row.paid + amount)]

CommitPayment(s) ==
    LET r == req[s].row
        amount == req[s].cash
    IN  /\ At(s, "paying")
        /\ r # 0
        /\ rows' = [rows EXCEPT ![r] = Credited(rows[r], amount)]
        /\ payments' = Append(payments, [row |-> r, amount |-> amount])
        /\ Finish(s)
        /\ TailOf(loan.status # "CLOSED")

\* The payments.installment_id foreign key fails and the transaction rolls back.
PaymentRolledBack(s) == At(s, "paying") /\ req[s].row = 0 /\ Refuse(s)

-----------------------------------------------------------------------------
\* The server stops, or the connection is lost, between two statements of a request.
Crash(s) ==
    /\ ~At(s, "idle")
    /\ crashed' = (crashed \/ req[s].at \in Tails)
    /\ Finish(s)
    /\ UNCHANGED <<loan, rows, payments, disbursed, raced>>

Submit(s, p) ==
    \/ CreateWeeklyLoan(s, p) \/ CreateDailyLoan(s, p)
    \/ CreateMonthlyLoan(s, p) \/ CreateAgentRiskLoan(s, p)
    \/ UpdateWeeklyLoan(s, p) \/ UpdateDailyLoan(s, p)
    \/ UpdateMonthlyLoan(s, p) \/ UpdateAgentRiskLoan(s, p)

FirstRead(s) ==
    \/ ReadForApproval(s) \/ ReadForReject(s)
    \/ \E isFieldRequest \in BOOLEAN : ReadForClose(s, isFieldRequest)
    \/ ReadForApproveClose(s) \/ ReadForReopen(s) \/ ReadForDelete(s)

FirstWrite(s) ==
    \/ CommitApproval(s) \/ LoseApproval(s)
    \/ CommitReject(s) \/ LoseReject(s)
    \/ CommitClose(s) \/ RequestClosure(s) \/ CommitApproveClose(s)
    \/ CommitReopen(s) \/ CommitDelete(s) \/ CommitEdit(s)
    \/ CommitPayment(s) \/ PaymentRolledBack(s)

LaterWrite(s) ==
    \/ InsertRow(s) \/ InsertRowConflict(s)
    \/ WaiveRows(s) \/ RestoreRows(s) \/ ClearRows(s)

Next ==
    \E s \in Sessions :
        \/ \E p \in Plans : Submit(s, p)
        \/ FirstRead(s)
        \/ \E r \in RowNumbers, amount \in 1..Total : ReadForPayment(s, r, amount)
        \/ FirstWrite(s)
        \/ LaterWrite(s)
        \/ Crash(s)

Spec == Init /\ [][Next]_vars

-----------------------------------------------------------------------------
(* Properties. *)

\* No request is between two of its writes, and none ever died there.
Settled == ~crashed /\ \A s \in Sessions : req[s].at \notin Tails

(***************************************************************************)
(* Money left the till for exactly the loans that lent it: the DISBURSEMENT *)
(* row is on the ledger when, and only when, the loan is approved,         *)
(* disbursed or closed.  approveLoan posts it in the transaction that      *)
(* claims the loan; a reject, close, reopen or edit whose status check is  *)
(* stale by the time it writes must not break the equivalence.             *)
(***************************************************************************)
DisbursedIffLent == (loan.status \in Lent) <=> (disbursed # None)

(***************************************************************************)
(* A closure request is only ever pending on a loan that lent money, so a  *)
(* manager accepting it (approveCloseLoan checks nothing else) cannot      *)
(* close an application that was never granted.                            *)
(***************************************************************************)
ClosureAskedOnlyOfLentLoans == loan.pendingClosure => loan.status \in Lent

(***************************************************************************)
(* Once the requests are done the schedule is the one of the loan's        *)
(* current terms: every installment, none more, all computed from the same *)
(* form.  Two overlapping edits to the same form end up there too, although *)
(* each loses its place to the other on UNIQUE (loan_id,                   *)
(* installment_number); with different forms they leave a mixture, even a  *)
(* gap in the numbers, which "raced" excludes here.                        *)
(***************************************************************************)
ScheduleFollowsTerms ==
    Settled /\ ~raced /\ loan.status # "none" =>
        \A r \in RowNumbers :
            IF r <= TermOf[loan.plan] THEN rows[r].plan = loan.plan ELSE ~Present(r)

(***************************************************************************)
(* The loan's status and its installments tell the same story (closed:     *)
(* nothing left open; active: nothing left waived) unless a later write of *)
(* one request landed on a loan that another had moved on meanwhile.       *)
(***************************************************************************)
RowsFollowStatus ==
    Settled /\ ~raced =>
        /\ loan.status = "CLOSED" => \A r \in RowNumbers : rows[r].status \notin Unpaid
        /\ loan.status \in ActiveStatuses => \A r \in RowNumbers : rows[r].status # "WAIVED"

\* Money the payments table ties to installment r.
PaidOn(r) ==
    SumFunctionOnSet([i \in DOMAIN payments |-> payments[i].amount],
                     {i \in DOMAIN payments : payments[i].row = r})

(***************************************************************************)
(* An installment has been paid what the payments tied to it add up to:    *)
(* neither concurrent payments, nor a payment racing an edit that replaces *)
(* the installment, nor a close and reopen, loses or invents money on a    *)
(* row.                                                                    *)
(***************************************************************************)
PaidIsThePayments == \A r \in RowNumbers : rows[r].paid = PaidOn(r)

(***************************************************************************)
(* The implementation of the contract.                                     *)
(***************************************************************************)
Contract == INSTANCE LoanContract WITH
                status <- loan.status, Amounts <- {PrincipalOf[p] : p \in Plans}

\* Every step of every handler, in any interleaving, is a step the contract allows.
ImplementsContract == Contract!Spec

(***************************************************************************)
(* What the comment in deleteLoan asks for: an approved or disbursed loan  *)
(* "must be closed rather than deleted".                                   *)
(***************************************************************************)
ActiveLoanNotDeleted == loan.status \in ActiveStatuses => ~loan.deleted
=============================================================================
