----------------------------- MODULE Collections -----------------------------
(***************************************************************************)
(* The money of one loan: the installments, the payments collected on them *)
(* and the ledger rows posted for the payments, as the collection handlers *)
(* of TenantCollectionsService change them, together with the closing and  *)
(* reopening of the loan and the reconciliation of the ledger.             *)
(*                                                                         *)
(* A try is one HTTP request; a collection that is retried or double-      *)
(* tapped is several tries with the same idempotency key, which may        *)
(* overlap.  A try reads before its transaction and writes inside it; the  *)
(* transaction holds FOR UPDATE locks on every row it changes and is one   *)
(* step.  Due dates do not change here, so installments are in due-date    *)
(* order by number and an OVERDUE installment counts as a PENDING one.     *)
(***************************************************************************)
EXTENDS Integers, Sequences, FiniteSetsExt, SequencesExt

CONSTANTS
    NumRows,        \* installments of the loan
    Total,          \* amount due on each
    Tries,          \* HTTP requests that collect money
    Keys,           \* idempotency keys
    MaxAmount,      \* bound: amount of a request
    MaxOffice,      \* bound: office steps (confirm, undo, reconcile, close, reopen)
    Asks,           \* what the tries may be asked to do, one of which is chosen
    None            \* NULL

RowNumbers == 1..NumRows

\* kind "collect" is collectPayment, "record" is recordPayment, which knows no key.
Requests == [kind : {"collect", "record"}, row : RowNumbers, amount : 1..MaxAmount,
             key : Keys \cup {None}]

ASSUME CollectionsAssumption ==
    /\ NumRows \in Nat /\ Total \in Nat \ {0} /\ MaxAmount \in Nat /\ MaxOffice \in Nat
    /\ None \notin Keys
    /\ Asks \subseteq [Tries -> Requests]
    \* Tries with the same key are tries of one submission.
    /\ \A a \in Asks : \A t, u \in Tries : a[t].key = a[u].key /\ a[t].key # None => a[t] = a[u]

VARIABLES
    loanStatus,     \* loans.status of the loan
    admin,          \* what the manager closing or reopening it has still to write
    rows,           \* installments
    payments,       \* payments in insertion order
    ledger,         \* ledger_transactions in insertion order
    tries,          \* per try: its step and the paid_amount it has read
    ask,            \* per try: what its request asks for
    office          \* office steps taken so far

vars == <<loanStatus, admin, rows, payments, ledger, tries, ask, office>>

Unpaid == {"PENDING", "PARTIALLY_PAID"}
CollectionStatuses == {"COLLECTED", "PARTIALLY_COLLECTED", "CONFIRMED"}

Rows == [status : Unpaid \cup {"PAID", "WAIVED"}, paid : Nat]
\* "key" is idempotency_key; "by" is history: the try that made the payment.
Payments == [row : RowNumbers, amount : Nat \ {0}, status : CollectionStatuses,
             cancelled : BOOLEAN, key : Keys \cup {None}, by : Tries]
\* "pay" is payment_id; "reversal" says reversal_of_id IS NOT NULL.
LedgerRows == [pay : Nat \ {0}, amount : Int, status : {"POSTED", "REVERSED", "RECONCILED"},
               reversal : BOOLEAN]
TrySteps == {"new", "unseen", "read", "done", "duplicate", "refused"}
\* "applied" is history: the money a finished try has put on installments.
TryRecords == [at : TrySteps, seen : Nat, applied : Nat]

(***************************************************************************)
(* Type correctness.                                                       *)
(***************************************************************************)
TypeOK ==
    /\ loanStatus \in {"DISBURSED", "CLOSED"}
    /\ admin \in {"idle", "waiving", "restoring"}
    /\ rows \in [RowNumbers -> Rows]
    /\ payments \in Seq(Payments)
    /\ ledger \in Seq(LedgerRows)
    /\ tries \in [Tries -> TryRecords]
    /\ ask \in Asks
    /\ office \in 0..MaxOffice

Init ==
    /\ loanStatus = "DISBURSED"
    /\ admin = "idle"
    /\ rows = [r \in RowNumbers |-> [status |-> "PENDING", paid |-> 0]]
    /\ payments = <<>>
    /\ ledger = <<>>
    /\ tries = [t \in Tries |-> [at |-> "new", seen |-> 0, applied |-> 0]]
    /\ ask \in Asks
    /\ office = 0

-----------------------------------------------------------------------------
(* Helpers. *)

Requested(t) == ask[t].row
Amount(t) == ask[t].amount
Collects(t) == ask[t].kind = "collect"
Open(r) == rows[r].status \in Unpaid
Balance(r) == Total - rows[r].paid
LoanIsActive == loanStatus = "DISBURSED"

StatusOfBalance(paid) ==
    IF paid >= Total THEN "PAID" ELSE IF paid > 0 THEN "PARTIALLY_PAID" ELSE "PENDING"

\* UPDATE installments SET paid_amount = paid_amount + amount, status = CASE ...
Credited(row, amount) ==
    [status |-> StatusOfBalance(row.paid + amount), paid |-> row.paid + amount]

\* postWithClient: the COLLECTION row of payment p.
Posting(p, amount) == [pay |-> p, amount |-> amount, status |-> "POSTED", reversal |-> FALSE]

Step(t, at) == tries' = [tries EXCEPT ![t].at = at]
OnlyTries == UNCHANGED <<loanStatus, admin, rows, payments, ledger, ask, office>>
OfficeStep == office < MaxOffice /\ office' = office + 1 /\ UNCHANGED <<tries, ask>>

-----------------------------------------------------------------------------
(* collectPayment *)

KeyStored(t) == ask[t].key # None /\ \E p \in DOMAIN payments : payments[p].key = ask[t].key

\* The lookup of the idempotency key, before any lock.
CollectLookup(t) ==
    /\ Collects(t)
    /\ tries[t].at = "new"
    /\ Step(t, IF KeyStored(t) THEN "duplicate" ELSE "unseen")
    /\ OnlyTries

\* The requested installment and its loan, read before BEGIN.
CollectRead(t) ==
    /\ tries[t].at = "unseen"
    /\ IF LoanIsActive
       THEN tries' = [tries EXCEPT ![t].at = "read", ![t].seen = rows[Requested(t)].paid]
       ELSE Step(t, "refused")
    /\ OnlyTries

\* pendingFor: what is still owed on the earlier installments, read under the locks.
PendingBefore(r) ==
    SumFunctionOnSet([q \in RowNumbers |-> Balance(q)], {q \in 1..r - 1 : Open(q)})

\* The requested installment enters with the balance read before the locks.
TotalDue(t) == PendingBefore(Requested(t)) + Total - tries[t].seen

Lesser(a, b) == IF a < b THEN a ELSE b

\* Mutant: only the requested installment is settled.
SettlesRequestedOnly(t, left) ==
    /\ left[0] = Amount(t)
    /\ \A r \in RowNumbers :
          left[r] = IF r = Requested(t) /\ Open(r)
                    THEN left[r - 1] - Lesser(left[r - 1], Balance(r)) ELSE left[r - 1]
\* Mutant: the requested installment's balance is taken as read before the locks.
SettlesStale(t, left) ==
    /\ left[0] = Amount(t)
    /\ \A r \in RowNumbers :
          left[r] = IF r = Requested(t) THEN left[r - 1] - Lesser(left[r - 1], Total - tries[t].seen)
                    ELSE IF r < Requested(t) /\ Open(r)
                    THEN left[r - 1] - Lesser(left[r - 1], Balance(r)) ELSE left[r - 1]
\* Mutant: what is over after the first open installment is not carried on.
SettlesOne(t, left) ==
    /\ left[0] = Amount(t)
    /\ \A r \in RowNumbers :
          left[r] = IF r <= Requested(t) /\ Open(r) /\ left[r - 1] = left[0]
                    THEN left[r - 1] - Lesser(left[r - 1], Balance(r)) ELSE left[r - 1]
\* The loop over the open installments, oldest first: left[r] remains after installment r.
Settles(t, left) ==
    /\ left[0] = Amount(t)
    /\ \A r \in RowNumbers :
          left[r] = IF r <= Requested(t) /\ Open(r)
                    THEN left[r - 1] - Lesser(left[r - 1], Balance(r)) ELSE left[r - 1]

Applied(left, r) == left[r - 1] - left[r]
PaidRows(left) == {r \in RowNumbers : Applied(left, r) > 0}
InOrder(settled) == \A i, j \in DOMAIN settled : i < j => settled[i] < settled[j]

\* Only the payment on the requested installment carries the idempotency key.
NewPayment(t, left, r) ==
    [row |-> r, amount |-> Applied(left, r),
     status |-> IF Applied(left, r) < Balance(r) THEN "PARTIALLY_COLLECTED" ELSE "COLLECTED",
     cancelled |-> FALSE,
     key |-> IF r = Requested(t) THEN ask[t].key ELSE None,
     by |-> t]

\* The payment on the requested installment violates UNIQUE (idempotency_key).
KeyTaken(t, left) == Requested(t) \in PaidRows(left) /\ KeyStored(t)

\* Each settled installment gets its payment, its paid_amount and its ledger row together.
Settle(t, left, settled) ==
    LET new == [i \in DOMAIN settled |-> NewPayment(t, left, settled[i])]
        posted == [i \in DOMAIN settled |-> Posting(Len(payments) + i, Applied(left, settled[i]))]
    IN  /\ rows' = [r \in RowNumbers |->
                       IF r \in PaidRows(left) THEN Credited(rows[r], Applied(left, r)) ELSE rows[r]]
        /\ payments' = payments \o new
        /\ ledger' = ledger \o posted
        /\ tries' = [tries EXCEPT ![t].at = "done", ![t].applied = left[0] - left[NumRows]]
        /\ UNCHANGED <<loanStatus, admin, ask, office>>

\* BEGIN; lock; check the amount; settle; COMMIT.
CollectSettle(t) ==
    /\ tries[t].at = "read"
    /\ Collects(t)
    /\ Amount(t) <= TotalDue(t)
    /\ \E left \in [0..NumRows -> 0..MaxAmount] :
          /\ Settles(t, left)
          /\ ~KeyTaken(t, left)
          /\ \E settled \in [1..Cardinality(PaidRows(left)) -> PaidRows(left)] :
                InOrder(settled) /\ Settle(t, left, settled)

\* The amount is too large, or the UNIQUE violation rolls the transaction back.
CollectRefused(t) ==
    /\ tries[t].at = "read"
    /\ Collects(t)
    /\ \/ Amount(t) > TotalDue(t)
       \/ \E left \in [0..NumRows -> 0..MaxAmount] : Settles(t, left) /\ KeyTaken(t, left)
    /\ Step(t, "refused")
    /\ OnlyTries

-----------------------------------------------------------------------------
(* recordPayment: one installment, its balance checked before BEGIN, no key. *)

RecordRead(t) ==
    /\ ~Collects(t)
    /\ tries[t].at = "new"
    /\ Step(t, IF LoanIsActive /\ Amount(t) <= Balance(Requested(t)) THEN "read" ELSE "refused")
    /\ OnlyTries

RecordCommit(t) ==
    LET r == Requested(t)
    IN  /\ tries[t].at = "read"
        /\ ~Collects(t)
        /\ rows' = [rows EXCEPT ![r] = Credited(rows[r], Amount(t))]
        /\ payments' = Append(payments,
               [row |-> r, amount |-> Amount(t), status |-> "COLLECTED", cancelled |-> FALSE,
                key |-> None, by |-> t])
        /\ ledger' = Append(ledger, Posting(Len(payments) + 1, Amount(t)))
        /\ tries' = [tries EXCEPT ![t].at = "done", ![t].applied = Amount(t)]
        /\ UNCHANGED <<loanStatus, admin, ask, office>>

-----------------------------------------------------------------------------
(* The office: confirming, undoing, reconciling. *)

\* confirmPayment: FOR UPDATE on the payment; whether it was cancelled is not looked at.
ConfirmPayment(p) ==
    /\ payments[p].status \in {"COLLECTED", "PARTIALLY_COLLECTED"}
    /\ payments' = [payments EXCEPT ![p].status = "CONFIRMED"]
    /\ OfficeStep /\ UNCHANGED <<loanStatus, admin, rows, ledger>>

Live(p) == ~payments[p].cancelled
LivePaymentsOn(r) == {p \in DOMAIN payments : payments[p].row = r /\ Live(p)}

\* Mutant: the undo forgets the ledger.
LinkedNone(p) == {i \in {} : i = p}
\* findByPaymentIdWithClient: the still-POSTED original of a payment.
Linked(p) ==
    {i \in DOMAIN ledger :
        ledger[i].pay = p /\ ledger[i].status = "POSTED" /\ ~ledger[i].reversal}

\* reverseWithClient on row i: a negated row, and the original's status flips.
Reversed(i) ==
    Append([ledger EXCEPT ![i].status = "REVERSED"],
           [pay |-> ledger[i].pay, amount |-> -ledger[i].amount, status |-> "POSTED",
            reversal |-> TRUE])

\* Mutant: the undo takes the installment back to zero.
PaidAfterUndoZero(r, p) == 0
\* Math.max(0, paid_amount - amount)
PaidAfterUndo(r, p) ==
    IF rows[r].paid > payments[p].amount THEN rows[r].paid - payments[p].amount ELSE 0

\* undoCollection: the latest live payment on an installment, whatever the loan's status.
UndoCollection(r) ==
    /\ LivePaymentsOn(r) # {}
    /\ LET p == Max(LivePaymentsOn(r))
           paid == PaidAfterUndo(r, p)
       IN  /\ rows' = [rows EXCEPT ![r] = [status |-> StatusOfBalance(paid), paid |-> paid]]
           /\ payments' = [payments EXCEPT ![p].cancelled = TRUE]
           /\ IF Linked(p) = {}
              THEN UNCHANGED ledger
              ELSE \E i \in Linked(p) : ledger' = Reversed(i)
    /\ OfficeStep /\ UNCHANGED <<loanStatus, admin>>

\* Mutant: a row that was reversed is reconciled as well.
ReconcileAny(i) ==
    /\ ledger' = [ledger EXCEPT ![i].status = "RECONCILED"]
    /\ OfficeStep /\ UNCHANGED <<loanStatus, admin, rows, payments>>
\* reconcile: any POSTED row, reversals too.
Reconcile(i) ==
    /\ ledger[i].status = "POSTED"
    /\ ledger' = [ledger EXCEPT ![i].status = "RECONCILED"]
    /\ OfficeStep /\ UNCHANGED <<loanStatus, admin, rows, payments>>

-----------------------------------------------------------------------------
(* closeLoan and reopenLoan: the loans row, then the installments. *)

CloseLoan ==
    /\ admin = "idle" /\ LoanIsActive
    /\ loanStatus' = "CLOSED" /\ admin' = "waiving"
    /\ OfficeStep /\ UNCHANGED <<rows, payments, ledger>>

WaiveRows ==
    /\ admin = "waiving"
    /\ rows' = [r \in RowNumbers |-> IF Open(r) THEN [rows[r] EXCEPT !.status = "WAIVED"] ELSE rows[r]]
    /\ admin' = "idle"
    /\ UNCHANGED <<loanStatus, payments, ledger, tries, ask, office>>

ReopenLoan ==
    /\ admin = "idle" /\ loanStatus = "CLOSED"
    /\ loanStatus' = "DISBURSED" /\ admin' = "restoring"
    /\ OfficeStep /\ UNCHANGED <<rows, payments, ledger>>

RestoredStatus(paid) == StatusOfBalance(paid)

RestoreRows ==
    /\ admin = "restoring"
    /\ rows' = [r \in RowNumbers |->
                   IF rows[r].status = "WAIVED"
                   THEN [rows[r] EXCEPT !.status = RestoredStatus(rows[r].paid)]
                   ELSE rows[r]]
    /\ admin' = "idle"
    /\ UNCHANGED <<loanStatus, payments, ledger, tries, ask, office>>

Next ==
    \/ \E t \in Tries :
         \/ CollectLookup(t) \/ CollectRead(t) \/ CollectSettle(t) \/ CollectRefused(t)
         \/ RecordRead(t) \/ RecordCommit(t)
    \/ \E p \in DOMAIN payments : ConfirmPayment(p)
    \/ \E r \in RowNumbers : UndoCollection(r)
    \/ \E i \in DOMAIN ledger : Reconcile(i)
    \/ CloseLoan \/ WaiveRows \/ ReopenLoan \/ RestoreRows

Spec == Init /\ [][Next]_vars

-----------------------------------------------------------------------------
(* Properties. *)

SumOver(S) == SumFunctionOnSet([p \in DOMAIN payments |-> payments[p].amount], S)

(***************************************************************************)
(* An installment's paid_amount is what its live payments add up to,       *)
(* whatever settlements, office payments, undos and closings interleave on *)
(* it: no increment is lost or counted twice, and an undo takes back       *)
(* exactly the payment it cancels.                                         *)
(***************************************************************************)
PaidIsLivePayments == \A r \in RowNumbers : rows[r].paid = SumOver(LivePaymentsOn(r))

(***************************************************************************)
(* An installment that is not waived has the status its balance implies,   *)
(* and a waived one was not fully paid.                                    *)
(***************************************************************************)
StatusTellsBalance ==
    \A r \in RowNumbers :
        IF rows[r].status = "WAIVED" THEN rows[r].paid < Total
        ELSE rows[r].status = StatusOfBalance(rows[r].paid)

\* ledger-sql.ts liveLedgerSql: the ledger rows every total counts.
Counts(i) == ledger[i].status \in {"POSTED", "RECONCILED"} /\ ~ledger[i].reversal

(***************************************************************************)
(* Every payment has exactly one original row on the ledger, of its        *)
(* amount, and the ledger totals count it as long as the payment is live.  *)
(* Once the payment is cancelled they count it no more, and one negated    *)
(* row stands against it, unless the row had been reconciled before the    *)
(* undo, which then left it alone.                                         *)
(***************************************************************************)
LedgerFollowsPayments ==
    \A p \in DOMAIN payments :
        LET postings == {i \in DOMAIN ledger : ledger[i].pay = p}
            originals == {i \in postings : ~ledger[i].reversal}
            reversals == postings \ originals
        IN  /\ Cardinality(originals) = 1
            /\ \A i \in originals :
                  /\ ledger[i].amount = payments[p].amount
                  /\ Counts(i) <=> Live(p) \/ ledger[i].status = "RECONCILED"
                  /\ Cardinality(reversals) = IF Counts(i) THEN 0 ELSE 1
                  /\ \A j \in reversals : ledger[j].amount = -ledger[i].amount

Posted == {i \in DOMAIN ledger : ~ledger[i].reversal}
Counted == {i \in DOMAIN ledger : Counts(i)}

(***************************************************************************)
(* The handlers keep the ledger's promise: what a settlement posts counts  *)
(* from its commit on, all of it together, until an undo reverses it; and  *)
(* no reconciliation, later undo or closing brings back what was reversed  *)
(* or drops what was not.                                                  *)
(***************************************************************************)
Books == INSTANCE LedgerContract WITH posted <- Posted, counted <- Counted
KeepsContract == Books!Spec

\* The installments on which a collectPayment settlement has just put money.
JustSettled ==
    {r \in RowNumbers : \E p \in DOMAIN payments' \ DOMAIN payments :
        payments'[p].row = r /\ Collects(payments'[p].by)}

(***************************************************************************)
(* However many collections of an installment overlap, a settlement never  *)
(* takes it beyond what was due on it.                                     *)
(***************************************************************************)
CollectNeverOverpays == [][\A r \in JustSettled : rows'[r].paid <= Total]_vars

(***************************************************************************)
(* Money clears the oldest debt first: a settlement that pays an           *)
(* installment leaves no earlier one open behind it.                       *)
(***************************************************************************)
OldestDebtFirst ==
    [][\A r \in JustSettled : \A q \in 1..r - 1 : rows'[q].status \notin Unpaid]_vars

(***************************************************************************)
(* A collection that succeeds has put the whole amount on installments,    *)
(* unless the requested installment changed between the read and the lock. *)
(***************************************************************************)
WholeAmountUnlessStale ==
    [][\A t \in Tries :
          (/\ Collects(t)
           /\ tries[t].at = "read" /\ tries'[t].at = "done"
           /\ Open(Requested(t)) /\ rows[Requested(t)].paid = tries[t].seen)
          => tries'[t].applied = Amount(t)]_vars

(***************************************************************************)
(* What the comment on collectPayment promises: a retried submission       *)
(* returns the original result "instead of double-crediting".              *)
(***************************************************************************)
RetryNotDoubleCredited ==
    \A t \in Tries : ask[t].key # None =>
        SumOver({p \in DOMAIN payments : ask[payments[p].by].key = ask[t].key}) <= Amount(t)
=============================================================================
