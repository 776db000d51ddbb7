----------------------------- MODULE LoanPayments -----------------------------
(***************************************************************************)
(* The loan page's own way with money, in TenantLoansService: a payment    *)
(* that starts at the installment clicked, clears the arrears before it    *)
(* and carries the rest forward; the undo that deletes the last payment;   *)
(* the make-up installments added past the contracted term and removed     *)
(* again; and beside them undoCollection, the Collection Calendar's undo   *)
(* of the same payments.  The loan is an active one throughout.            *)
(*                                                                         *)
(* Each handler but undoCollection reads with no lock, decides, and then   *)
(* writes what it decided: "read" is one step and the write another.       *)
(* Amounts are in the smallest unit of money; installment n falls due on   *)
(* day n.                                                                  *)
(***************************************************************************)
EXTENDS Integers, Sequences, FiniteSetsExt, SequencesExt

CONSTANTS
    Sessions,       \* requests in flight at the same time
    Term,           \* term_months: installments the contract has
    MaxExtra,       \* bound: installments added past it
    Total,          \* total_amount of every installment
    Amounts,        \* amounts a payment may be asked for
    Dust,           \* 0.01: what is left over a payment's allocation and ignored
    MaxPayments,    \* bound: no payment is begun once so many are recorded
    MaxOvertaken,   \* bound: no request is begun once so many writes were overtaken
    LastDay         \* bound: days that pass

Numbers == 1..Term + MaxExtra

ASSUME LoanPaymentsAssumption ==
    /\ Term \in Nat \ {0} /\ MaxExtra \in Nat
    /\ Total \in Nat \ {0} /\ Dust \in Nat /\ Dust < Total
    /\ Amounts \subseteq Nat \ {0}
    /\ MaxPayments \in Nat /\ MaxOvertaken \in Nat /\ LastDay \in Nat \ {0}

VARIABLES
    rows,       \* installments by installment_number
    payments,   \* payments in insertion order
    req,        \* per session: its request and what that has read
    today,      \* CURRENT_DATE
    overtaken   \* history: writes of what was decided on state that has changed since

vars == <<rows, payments, req, today, overtaken>>

Unpaid == {"PENDING", "PARTIALLY_PAID"}     \* OVERDUE is a PENDING row past its date
NoRow == [status |-> "none", paid |-> 0]
Rows == [status : Unpaid \cup {"none", "PAID"}, paid : Nat]

\* "row" is installment_id (0: NULL), "to" the installment it was recorded on;
\* "deleted": the row was deleted, "erased": deleted after it had been cancelled.
\* "book" is the status of its COLLECTION row on the ledger.
Payments == [row : Numbers \cup {0}, to : Numbers \cup {0}, amount : Nat \ {0},
             state : {"live", "cancelled", "deleted", "erased"},
             book : {"POSTED", "REVERSED"}]

Steps == {"idle", "paying", "undoing", "adding", "deleting"}
\* "give" is the payment's allocation, "cash" its amount, "pay" and "left" the payment
\* undone and the paid_amount to be left, "remove" whether the installment goes with it;
\* "stale": another request has written since, "gone": installments deleted since.
\* History: "known" is how many payments there were when a removal looked at them,
\* "misled" whether a write had been overtaken by then.
Requests == [at : Steps, row : Numbers \cup {0}, give : [Numbers -> Nat], cash : Nat,
             pay : Nat, left : Nat, status : Unpaid \cup {"PAID"}, remove : BOOLEAN,
             stale : BOOLEAN, gone : SUBSET Numbers, known : Nat, misled : BOOLEAN]
Idle == [at |-> "idle", row |-> 0, give |-> [n \in Numbers |-> 0], cash |-> 0,
         pay |-> 0, left |-> 0, status |-> "PENDING", remove |-> FALSE,
         stale |-> FALSE, gone |-> {}, known |-> 0, misled |-> FALSE]

(***************************************************************************)
(* Type correctness.                                                       *)
(***************************************************************************)
TypeOK ==
    /\ rows \in [Numbers -> Rows]
    /\ payments \in Seq(Payments)
    /\ req \in [Sessions -> Requests]
    /\ today \in 1..LastDay
    /\ overtaken \in Nat

Init ==
    /\ rows = [n \in Numbers |->
                  IF n <= Term THEN [status |-> "PENDING", paid |-> 0] ELSE NoRow]
    /\ payments = <<>>
    /\ req = [s \in Sessions |-> Idle]
    /\ today = 1
    /\ overtaken = 0

-----------------------------------------------------------------------------
(* Helpers. *)

Present(n) == rows[n].status # "none"
LastNumber == Max({n \in Numbers : Present(n)})
Owed(n) == Total - rows[n].paid
\* is_missed
Missed(n) == rows[n].status = "PENDING" /\ n < today
PaymentsOn(n) == {p \in DOMAIN payments :
                     payments[p].row = n /\ payments[p].state \in {"live", "cancelled"}}

\* Mutant: the originally contracted installments are removable too.
LastInSchedule(n) == n = LastNumber
\* isRemovableExtraInstallment
RemovableExtra(n) == n > Term /\ n = LastNumber

StatusOf(paid) ==
    IF paid >= Total THEN "PAID" ELSE IF paid > 0 THEN "PARTIALLY_PAID" ELSE "PENDING"

\* UPDATE installments SET paid_amount = paid_amount + amount, status = CASE ...
Credited(row, amount) ==
    [status |-> StatusOf(row.paid + amount), paid |-> row.paid + amount]

\* The handler's reads; the session goes on with what they say.
Read(s, r) ==
    /\ req[s].at = "idle" /\ overtaken < MaxOvertaken
    /\ req' = [req EXCEPT ![s] = r]
    /\ UNCHANGED <<rows, payments, today, overtaken>>

\* A write by s: whoever else is under way has read what is no longer so.
Written(s, deleted) ==
    /\ req' = [t \in Sessions |->
                  CASE t = s -> Idle
                    [] t # s /\ req[t].at = "idle" -> req[t]
                    [] OTHER -> [req[t] EXCEPT !.stale = TRUE, !.gone = @ \cup deleted]]
    /\ overtaken' = overtaken + (IF req[s].stale THEN 1 ELSE 0)

\* The request answers an error and leaves nothing behind.
Refused(s) ==
    /\ req' = [req EXCEPT ![s] = Idle]
    /\ UNCHANGED <<rows, payments, today, overtaken>>

-----------------------------------------------------------------------------
(* recordPayment *)

\* Mutant: the oldest installment is passed over when a later one is clicked.
TakesAllButOldest(n, clicked) ==
    n = clicked \/ (rows[n].status \in Unpaid /\ (n < clicked => n <= today /\ n > 1))
\* The installments money may go to: arrears already due before the one clicked,
\* that one, and the unpaid ones after it.
Takes(n, clicked) ==
    n = clicked \/ (rows[n].status \in Unpaid /\ (n < clicked => n <= today))

OwedBefore(n, clicked) ==
    SumFunctionOnSet([m \in Numbers |-> Owed(m)],
                     {m \in 1..n - 1 : Takes(m, clicked) /\ Owed(m) > 0})

\* The units of money that go to installment n: what the ones before it leave, up to what
\* is owed on it, and nothing once no more than Dust remains.
Allocated(n, clicked, amount) ==
    Cardinality({unit \in 1..Owed(n) : /\ Takes(n, clicked)
                                       /\ OwedBefore(n, clicked) + Dust < amount
                                       /\ OwedBefore(n, clicked) + unit <= amount})

\* "Amount exceeds total outstanding on this loan"
Fits(clicked, amount) == amount <= OwedBefore(Term + MaxExtra + 1, clicked) + Dust

ReadPayment(s, n, amount) ==
    /\ Len(payments) < MaxPayments
    /\ Present(n) /\ rows[n].status # "PAID"
    /\ Fits(n, amount)
    /\ Read(s, [Idle EXCEPT !.at = "paying", !.row = n, !.cash = amount,
                !.give = [m \in Numbers |-> Allocated(m, n, amount)]])

\* A payment tied to no installment.
ReadUnallocated(s, amount) ==
    /\ Len(payments) < MaxPayments
    /\ Read(s, [Idle EXCEPT !.at = "paying", !.cash = amount])

Given(s) == {n \in Numbers : req[s].give[n] > 0}
InOrder(settled) == \A i, j \in DOMAIN settled : i < j => settled[i] < settled[j]

NewPayment(n, amount) ==
    [row |-> n, to |-> n, amount |-> amount, state |-> "live", book |-> "POSTED"]

\* BEGIN; per allocation the payment, the installment and the ledger row; COMMIT.
CommitPayment(s) ==
    /\ req[s].at = "paying"
    /\ Given(s) \cap req[s].gone = {}
    /\ IF Given(s) = {}
       THEN payments' = Append(payments, NewPayment(0, req[s].cash))
       ELSE \E settled \in [1..Cardinality(Given(s)) -> Given(s)] :
               /\ InOrder(settled)
               /\ payments' = payments \o [i \in DOMAIN settled |->
                                 NewPayment(settled[i], req[s].give[settled[i]])]
    /\ rows' = [n \in Numbers |->
                   IF n \in Given(s) THEN Credited(rows[n], req[s].give[n]) ELSE rows[n]]
    /\ Written(s, {})
    /\ UNCHANGED today

\* The payment's installment_id references a deleted row: ROLLBACK.
PaymentRefused(s) ==
    /\ req[s].at = "paying"
    /\ Given(s) \cap req[s].gone # {}
    /\ Refused(s)

-----------------------------------------------------------------------------
(* undoInstallmentPayment *)

\* The latest payment by created_at, cancelled or not.
LastPayment(n) == Max(PaymentsOn(n))

\* Mutant: it leaves nothing, however many payments there were.
LeftAfterUndoNone(n, p) == 0
\* Math.max(0, paid_amount - amount)
LeftAfterUndo(n, p) ==
    IF rows[n].paid > payments[p].amount THEN rows[n].paid - payments[p].amount ELSE 0

ReadUndo(s, n) ==
    /\ Present(n)
    /\ PaymentsOn(n) # {}
    /\ LET p == LastPayment(n)
           left == LeftAfterUndo(n, p)
       IN  Read(s, [Idle EXCEPT !.at = "undoing", !.row = n, !.pay = p, !.left = left,
                    !.status = StatusOf(left),
                    !.remove = (left = 0 /\ RemovableExtra(n)),
                    !.known = Len(payments), !.misled = overtaken > 0])

\* DELETE FROM payments WHERE id = p: the ledger row stays, its payment_id set to NULL.
Deleted(p) ==
    [payments[p] EXCEPT !.state = CASE @ = "live" -> "deleted"
                                    [] @ = "cancelled" -> "erased"
                                    [] OTHER -> @]
\* ON DELETE SET NULL on payments.installment_id.
Orphaned(pay, n) == [pay EXCEPT !.row = IF @ = n THEN 0 ELSE @]

\* BEGIN; the payment deleted; the installment deleted or overwritten; COMMIT.
CommitUndo(s) ==
    LET n == req[s].row
        there == n \notin req[s].gone
        removed == IF req[s].remove /\ there THEN {n} ELSE {}
    IN  /\ req[s].at = "undoing"
        /\ payments' = [p \in DOMAIN payments |->
                           LET pay == IF p = req[s].pay THEN Deleted(p) ELSE payments[p]
                           IN  IF n \in removed THEN Orphaned(pay, n) ELSE pay]
        /\ rows' = [rows EXCEPT ![n] =
                       IF ~there THEN @
                       ELSE IF req[s].remove THEN NoRow
                       ELSE [status |-> req[s].status, paid |-> req[s].left]]
        /\ Written(s, removed)
        /\ UNCHANGED today

-----------------------------------------------------------------------------
(* undoCollection: under FOR UPDATE from its first read, one step. *)

LivePaymentsOn(n) == {p \in DOMAIN payments : payments[p].row = n /\ payments[p].state = "live"}

\* Mutant: the ledger row of the cancelled payment is left POSTED.
BookKept(pay) == pay.book
BookAfterCancel(pay) == "REVERSED"

UndoCollection(s, n) ==
    /\ req[s].at = "idle" /\ overtaken < MaxOvertaken
    /\ LivePaymentsOn(n) # {}
    /\ LET p == Max(LivePaymentsOn(n))
           left == LeftAfterUndo(n, p)
       IN  /\ payments' = [payments EXCEPT ![p].state = "cancelled",
                                           ![p].book = BookAfterCancel(payments[p])]
           /\ rows' = [rows EXCEPT ![n] =
                          [status |-> StatusOf(left), paid |-> left]]
    /\ Written(s, {})
    /\ UNCHANGED today

-----------------------------------------------------------------------------
(* addInstallment and deleteInstallment *)

NextNumber == LastNumber + 1

ReadAdd(s) ==
    /\ \E n \in Numbers : Present(n) /\ Missed(n)
    /\ NextNumber \in Numbers
    /\ Read(s, [Idle EXCEPT !.at = "adding", !.row = NextNumber])

\* INSERT; UNIQUE (loan_id, installment_number) refuses a second one.
AddInstallment(s) ==
    /\ req[s].at = "adding"
    /\ ~Present(req[s].row)
    /\ rows' = [rows EXCEPT ![req[s].row] = [status |-> "PENDING", paid |-> 0]]
    /\ Written(s, {})
    /\ UNCHANGED <<payments, today>>

AddConflict(s) ==
    /\ req[s].at = "adding"
    /\ Present(req[s].row)
    /\ Refused(s)

\* Mutant: an installment with payments can be removed.
RemovableWhatever(n) == RemovableExtra(n)
Removable(n) == rows[n].paid = 0 /\ PaymentsOn(n) = {} /\ RemovableExtra(n)

ReadDelete(s, n) ==
    /\ Present(n) /\ Removable(n)
    /\ Read(s, [Idle EXCEPT !.at = "deleting", !.row = n, !.known = Len(payments)])

\* DELETE FROM installments WHERE id = ...: what was checked is not looked at again.
DeleteInstallment(s) ==
    LET n == req[s].row
        removed == IF n \in req[s].gone THEN {} ELSE {n}
    IN  /\ req[s].at = "deleting"
        /\ rows' = [m \in Numbers |-> IF m \in removed THEN NoRow ELSE rows[m]]
        /\ payments' = [p \in DOMAIN payments |->
                           IF n \in removed THEN Orphaned(payments[p], n) ELSE payments[p]]
        /\ Written(s, removed)
        /\ UNCHANGED today

\* Midnight: a request under way has judged the due dates of the day before.
NextDay ==
    /\ today < LastDay
    /\ today' = today + 1
    /\ req' = [s \in Sessions |->
                  IF req[s].at = "idle" THEN req[s] ELSE [req[s] EXCEPT !.stale = TRUE]]
    /\ UNCHANGED <<rows, payments, overtaken>>

Next ==
    \/ \E s \in Sessions :
         \/ \E n \in Numbers :
              \/ \E a \in Amounts : ReadPayment(s, n, a)
              \/ ReadUndo(s, n) \/ UndoCollection(s, n) \/ ReadDelete(s, n)
         \/ \E a \in Amounts : ReadUnallocated(s, a)
         \/ CommitPayment(s) \/ PaymentRefused(s) \/ CommitUndo(s)
         \/ ReadAdd(s) \/ AddInstallment(s) \/ AddConflict(s) \/ DeleteInstallment(s)
    \/ NextDay

Spec == Init /\ [][Next]_vars

-----------------------------------------------------------------------------
(* Properties. *)

SumOver(S) == SumFunctionOnSet([p \in DOMAIN payments |-> payments[p].amount], S)
Erased(n) == {p \in DOMAIN payments : payments[p].row = n /\ payments[p].state = "erased"}

(***************************************************************************)
(* As long as no request wrote over another's write, an installment's      *)
(* paid_amount is what its live payments add up to, through any sequence   *)
(* of payments and of the two undos.  The exception is a payment that      *)
(* undoCollection cancelled and the loan page's undo then took for the     *)
(* latest one: it is subtracted a second time, and the installment shows   *)
(* less than was paid.                                                     *)
(***************************************************************************)
PaidIsLivePayments ==
    overtaken = 0 => \A n \in Numbers :
        /\ rows[n].paid <= SumOver(LivePaymentsOn(n))
        /\ Erased(n) = {} => rows[n].paid = SumOver(LivePaymentsOn(n))

(***************************************************************************)
(* Whatever interleaves, an installment has the status its paid_amount     *)
(* implies: an undo that overwrites both writes a pair that belongs        *)
(* together.                                                               *)
(***************************************************************************)
StatusTellsBalance ==
    \A n \in Numbers : Present(n) => rows[n].status = StatusOf(rows[n].paid)

(***************************************************************************)
(* No undo and no removal ever takes an installment of the contract out of *)
(* the schedule, and none leaves a gap in the numbers unless it acted on a *)
(* schedule that another request had meanwhile extended or shortened.      *)
(***************************************************************************)
ScheduleHasNoGaps ==
    /\ \A n \in 1..Term : Present(n)
    /\ overtaken = 0 => \A n \in Numbers : Present(n) => \A m \in 1..n : Present(m)

\* A payment that was cancelled and then deleted was recorded on installment n.
Retaken(n) == \E p \in DOMAIN payments : payments[p].to = n /\ payments[p].state = "erased"

\* A live payment that loses its installment in this step.
Detached == {p \in DOMAIN payments :
                /\ payments[p].state = "live" /\ payments'[p].state = "live"
                /\ payments[p].row # 0 /\ payments'[p].row = 0}

(***************************************************************************)
(* Whatever interleaves, a removal takes an installment only from under    *)
(* payments recorded after it looked: no payment there was by then loses   *)
(* its installment.  The exceptions are undos of the loan page that read a *)
(* paid_amount too low already: one of an installment on which a cancelled *)
(* payment has been subtracted a second time, and one that read after some *)
(* write had been overtaken.                                               *)
(***************************************************************************)
RemovalSparesWhatItSaw ==
    [][\A p \in Detached : \E s \in Sessions :
          /\ req[s].at \in {"deleting", "undoing"} /\ req'[s].at = "idle"
          /\ \/ p > req[s].known
             \/ req[s].at = "undoing" /\ (req[s].misled \/ Retaken(payments[p].to)')]_vars

(***************************************************************************)
(* The ledger counts the live payments and, beyond them, exactly the ones  *)
(* the loan page's undo deleted, whose COLLECTION rows it never reverses.  *)
(***************************************************************************)
LedgerExceedsByDeleted ==
    SumOver({p \in DOMAIN payments : payments[p].book = "POSTED"}) =
        SumOver({p \in DOMAIN payments : payments[p].state \in {"live", "deleted"}})

\* The sessions whose payment is committed in this step, on what they have read.
JustPaid == {s \in Sessions : req[s].at = "paying" /\ Len(payments') > Len(payments)
                              /\ req'[s].at = "idle"}

\* The installments a payment committed in this step put money on.
JustSettled == {payments'[p].to : p \in DOMAIN payments' \ DOMAIN payments} \ {0}

(***************************************************************************)
(* Money clears the oldest debt already due: a payment that nothing        *)
(* overtook leaves no installment due by today open before any it pays.    *)
(***************************************************************************)
ArrearsFirst ==
    [][\A s \in JustPaid : ~req[s].stale =>
          \A n \in JustSettled : \A m \in 1..n - 1 :
              m <= today => rows'[m].status \notin Unpaid]_vars
=============================================================================
