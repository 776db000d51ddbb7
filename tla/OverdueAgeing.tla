----------------------------- MODULE OverdueAgeing -----------------------------
(***************************************************************************)
(* OverdueAgeingService and npa.ts over the tenants of TenantLifecycle:    *)
(* the job that lists the ACTIVE tenants and then, one after the other,    *)
(* turns their installments that are past their date and wholly unpaid     *)
(* OVERDUE, started by the daily cron and by hand; and the classification  *)
(* of a loan as NPA.  Every tenant has one loan; whatever the code does to *)
(* it is here, but each operation is one step: LoanLifecycle, Collections  *)
(* and LoanPayments take them apart statement by statement.  Installment n *)
(* falls due n - 1 days after the first.                                   *)
(***************************************************************************)
EXTENDS TenantLifecycle, Npa, Sequences

CONSTANTS
    Term,           \* per tenant: the term its loan is created with; 0: it has none
    Terms,          \* the terms an edit may give a loan
    Thresholds,     \* the values npa_overdue_threshold may be given
    DefaultThreshold,
    Runs,           \* ways a run is started: "cron" and, by hand, "manual"
    Total,          \* total_amount of an installment
    MaxRows,        \* bound: installments of a loan with which no more are added
    LastDay         \* bound: days after which no further installment falls due

ASSUME OverdueAgeingAssumption ==
    /\ "cron" \in Runs
    /\ Term \in [Tenants -> Nat] /\ Terms \subseteq Nat \ {0}
    /\ Thresholds \subseteq Nat \ {0} /\ DefaultThreshold \in Nat \ {0}
    /\ Total \in Nat \ {0} /\ MaxRows \in Nat /\ LastDay \in Nat \ {0}

VARIABLES
    loan,           \* per tenant: the loan's status, "DELETED" once deleted_at is set
    installments,   \* per tenant: its installments by installment_number
    termMonths,     \* per tenant: the loan's contracted term
    firstDue,       \* per tenant: first_due_date of its loan
    marked,         \* tenants whose loan has npa_marked_at set
    threshold,      \* per tenant: npa_overdue_threshold
    today,          \* CURRENT_DATE
    jobs            \* per way to start it: the tenants a run under way has still to age

loanVars == <<loan, installments, termMonths, firstDue, marked, threshold>>
ageingVars == <<loanVars, today, jobs>>
allVars == <<tenantVars, ageingVars>>

LoanStatus == {"PENDING", "APPROVED", "DISBURSED", "REJECTED", "CLOSED", "DELETED"}
Status == {"PENDING", "PARTIALLY_PAID", "OVERDUE", "PAID", "WAIVED"}
\* onFile: the payments table has a row for it, live or cancelled.
Installment == [status : Status, paid : 0..Total, onFile : BOOLEAN]
Due == [status |-> "PENDING", paid |-> 0, onFile |-> FALSE]
Schedule(terms) == [n \in 1..terms |-> Due]
Numbers(t) == 1..Len(installments[t])
NotRunning == [running |-> FALSE, left |-> {}]

(***************************************************************************)
(* Type correctness.                                                       *)
(***************************************************************************)
AgeingTypeOK ==
    /\ TenantTypeOK
    /\ loan \in [Tenants -> LoanStatus]
    /\ installments \in [Tenants -> Seq(Installment)]
    /\ termMonths \in [Tenants -> Nat]
    /\ firstDue \in [Tenants -> 1..LastDay]
    /\ marked \subseteq Tenants
    /\ threshold \in [Tenants -> Nat \ {0}]
    /\ today \in 1..LastDay
    /\ jobs \in [Runs -> [running : BOOLEAN, left : SUBSET Tenants]]

AgeingInit ==
    /\ TenantInit
    /\ loan = [t \in Tenants |-> "PENDING"]
    /\ installments = [t \in Tenants |-> Schedule(Term[t])]
    /\ termMonths = Term
    /\ firstDue = [t \in Tenants |-> 1]
    /\ marked = {}
    /\ threshold = [t \in Tenants |-> DefaultThreshold]
    /\ today = 1
    /\ jobs = [r \in Runs |-> NotRunning]

-----------------------------------------------------------------------------
(* The loan, in one step each. *)

\* l.status IN ('APPROVED','DISBURSED','DEFAULTED'): nothing sets the last.
BeingCollected(t) == loan[t] \in {"APPROVED", "DISBURSED"}

\* A tenant's staff works on its loan only while it is ACTIVE and has its tables.
Works(t) ==
    tenants[t] = "ACTIVE" /\ schema[t] = "complete" /\ Term[t] > 0 /\ loan[t] # "DELETED"

DueOn(t, n) == firstDue[t] + n - 1
NotPast(t, first) == first = firstDue[t] \/ first >= today

\* The status a balance and a due date give an installment.
StatusBy(t, n, paid) ==
    CASE paid >= Total -> "PAID"
      [] paid > 0 /\ paid < Total -> "PARTIALLY_PAID"
      [] paid = 0 -> IF DueOn(t, n) < today THEN "OVERDUE" ELSE "PENDING"

SetLoan(t, to) == loan' = [loan EXCEPT ![t] = to]
SetInstallments(t, insts) == installments' = [installments EXCEPT ![t] = insts]
SameTerms == UNCHANGED <<termMonths, firstDue>>
SameRule == UNCHANGED <<marked, threshold, today, jobs>>

Approve(t, first) ==
    /\ Works(t) /\ loan[t] = "PENDING" /\ NotPast(t, first)
    /\ SetLoan(t, "APPROVED") /\ firstDue' = [firstDue EXCEPT ![t] = first]
    /\ UNCHANGED <<installments, termMonths>> /\ SameRule

Reject(t) ==
    /\ Works(t) /\ loan[t] = "PENDING" /\ SetLoan(t, "REJECTED")
    /\ UNCHANGED installments /\ SameTerms /\ SameRule

DeleteLoan(t) ==
    /\ Works(t) /\ ~BeingCollected(t) /\ SetLoan(t, "DELETED")
    /\ UNCHANGED installments /\ SameTerms /\ SameRule

Close(t) ==
    /\ Works(t) /\ BeingCollected(t) /\ SetLoan(t, "CLOSED")
    /\ SetInstallments(t, [n \in Numbers(t) |->
          [installments[t][n] EXCEPT !.status = IF @ = "PAID" THEN @ ELSE "WAIVED"]])
    /\ SameTerms /\ SameRule

\* What was waived gets the status its balance and its date have by now.
Reopen(t) ==
    /\ Works(t) /\ loan[t] = "CLOSED" /\ SetLoan(t, "DISBURSED")
    /\ SetInstallments(t, [n \in Numbers(t) |->
          [installments[t][n] EXCEPT !.status =
              IF @ = "WAIVED" THEN StatusBy(t, n, installments[t][n].paid) ELSE @]])
    /\ SameTerms /\ SameRule

NothingOnFile(t) == \A n \in Numbers(t) : ~installments[t][n].onFile

\* The schedule is rebuilt: any term, and the same first date or one not past.  That a
\* close asked for by a field user forbids it is left out.
Edit(t, terms, first) ==
    /\ Works(t) /\ BeingCollected(t) /\ NothingOnFile(t) /\ NotPast(t, first)
    /\ SetInstallments(t, Schedule(terms))
    /\ termMonths' = [termMonths EXCEPT ![t] = terms]
    /\ firstDue' = [firstDue EXCEPT ![t] = first]
    /\ UNCHANGED loan /\ SameRule

\* is_missed
Missed(t, n) ==
    \/ installments[t][n].status = "OVERDUE"
    \/ installments[t][n].status = "PENDING" /\ DueOn(t, n) < today

AddInstallment(t) ==
    /\ Works(t) /\ Len(installments[t]) < MaxRows
    /\ \E n \in Numbers(t) : Missed(t, n)
    /\ SetInstallments(t, Append(installments[t], Due))
    /\ UNCHANGED loan /\ SameTerms /\ SameRule

\* isRemovableExtraInstallment: added, and the last.
Removable(t, n) == n > termMonths[t] /\ n = Len(installments[t])
WithoutLast(t) == [n \in 1..Len(installments[t]) - 1 |-> installments[t][n]]

DeleteInstallment(t, n) ==
    /\ Works(t) /\ loan[t] # "CLOSED"
    /\ installments[t][n].paid = 0 /\ ~installments[t][n].onFile
    /\ Removable(t, n)
    /\ SetInstallments(t, WithoutLast(t))
    /\ UNCHANGED loan /\ SameTerms /\ SameRule

SetInstallment(t, n, inst) == SetInstallments(t, [installments[t] EXCEPT ![n] = inst])

Pay(t, n, amount) ==
    LET paid == installments[t][n].paid + amount
    IN  /\ Works(t) /\ BeingCollected(t)
        /\ installments[t][n].status \in {"PENDING", "PARTIALLY_PAID", "OVERDUE"}
        /\ paid <= Total
        /\ SetInstallment(t, n, [status |-> IF paid >= Total THEN "PAID" ELSE "PARTIALLY_PAID",
                                 paid |-> paid, onFile |-> TRUE])
        /\ UNCHANGED loan /\ SameTerms /\ SameRule

\* Math.max(0, paid_amount - amount)
Remaining(t, n, amount) ==
    IF amount <= installments[t][n].paid THEN installments[t][n].paid - amount ELSE 0
TakenBack(t, n, amount, onFile) ==
    LET paid == Remaining(t, n, amount)
    IN  [status |-> StatusBy(t, n, paid), paid |-> paid, onFile |-> onFile]

\* undoCollection: whatever the loan's status; the payment stays on file, cancelled.
UndoCollection(t, n, amount) ==
    /\ Works(t) /\ installments[t][n].onFile
    /\ SetInstallment(t, n, TakenBack(t, n, amount, TRUE))
    /\ UNCHANGED loan /\ SameTerms /\ SameRule

\* undoInstallmentPayment: the payment is deleted, but others, cancelled ones too, may be
\* left on file; an added installment goes once nothing is paid on it.
UndoInstallmentPayment(t, n, amount, onFile) ==
    /\ Works(t) /\ installments[t][n].onFile /\ (Remaining(t, n, amount) > 0 => onFile)
    /\ IF Remaining(t, n, amount) = 0 /\ Removable(t, n)
       THEN SetInstallments(t, WithoutLast(t))
       ELSE SetInstallment(t, n, TakenBack(t, n, amount, onFile))
    /\ UNCHANGED loan /\ SameTerms /\ SameRule

MarkNpa(t) ==
    /\ Works(t) /\ t \notin marked
    /\ marked' = marked \cup {t}
    /\ UNCHANGED <<loan, installments, threshold, today, jobs>> /\ SameTerms

ClearNpa(t) ==
    /\ Works(t) /\ t \in marked
    /\ marked' = marked \ {t}
    /\ UNCHANGED <<loan, installments, threshold, today, jobs>> /\ SameTerms

\* updateNpaConfig
SetThreshold(t, limit) ==
    /\ Works(t)
    /\ threshold' = [threshold EXCEPT ![t] = limit]
    /\ UNCHANGED <<loan, installments, marked, today, jobs>> /\ SameTerms

NextDay ==
    /\ today < LastDay /\ today' = today + 1
    /\ UNCHANGED <<loanVars, jobs>>

-----------------------------------------------------------------------------
(* The ageing job. *)

\* runAll: findMany({ where: { status: 'ACTIVE' } })
StartRun(r) ==
    /\ ~jobs[r].running
    /\ jobs' = [jobs EXCEPT ![r] = [running |-> TRUE,
                                    left |-> {t \in Tenants : tenants[t] = "ACTIVE"}]]
    /\ UNCHANGED <<loanVars, today>>

NothingReceived(inst) == inst.status = "PENDING" /\ inst.paid = 0

Aged(t, n) ==
    LET inst == installments[t][n]
    IN  CASE NothingReceived(inst) /\ DueOn(t, n) < today /\ BeingCollected(t)
                -> [inst EXCEPT !.status = "OVERDUE"]
          [] inst.status = "OVERDUE" /\ inst.paid = 0 /\ DueOn(t, n) >= today /\ loan[t] # "DELETED"
                -> [inst EXCEPT !.status = "PENDING"]
          [] OTHER -> inst

\* runForTenant, of a tenant that is still in the list, whatever it has become since.
AgeTenant(r, t) ==
    /\ t \in jobs[r].left
    /\ schema[t] = "complete"
    /\ SetInstallments(t, [n \in Numbers(t) |-> Aged(t, n)])
    /\ jobs' = [jobs EXCEPT ![r].left = @ \ {t}]
    /\ UNCHANGED <<loan, marked, threshold, today>> /\ SameTerms

\* Mutant: no try around a tenant; the first that fails ends the run.
LeftAfterFailureNone(left, t) == {}
LeftAfterFailure(left, t) == left \ {t}

\* Its tables are missing: caught and logged, the run goes on.
TenantFails(r, t) ==
    /\ t \in jobs[r].left
    /\ schema[t] # "complete"
    /\ jobs' = [jobs EXCEPT ![r].left = LeftAfterFailure(jobs[r].left, t)]
    /\ UNCHANGED <<loanVars, today>>

EndRun(r) ==
    /\ jobs[r].running /\ jobs[r].left = {}
    /\ jobs' = [jobs EXCEPT ![r] = NotRunning]
    /\ UNCHANGED <<loanVars, today>>

\* The server stops: super-admin requests and runs end where they are.
Crash ==
    /\ TenantCrash
    /\ jobs' = [r \in Runs |-> NotRunning]
    /\ UNCHANGED <<loanVars, today>>

-----------------------------------------------------------------------------
(* npa.ts *)

\* Mutant: what the ageing job has marked, not what is past its date.
PastDueMarked(t) == {n \in Numbers(t) : installments[t][n].status = "OVERDUE"}
\* due_date < CURRENT_DATE AND status NOT IN ('PAID','WAIVED') AND paid_amount < total_amount
PastDue(t) ==
    {n \in Numbers(t) : /\ BeingCollected(t) /\ DueOn(t, n) < today
                        /\ installments[t][n].status \notin {"PAID", "WAIVED"}
                        /\ installments[t][n].paid < Total}

IsNpa(t) == Npa(PastDue(t), t \in marked, threshold[t])

-----------------------------------------------------------------------------
RunStep(r) == (\E t \in Tenants : AgeTenant(r, t) \/ TenantFails(r, t)) \/ EndRun(r)

LoanSteps ==
    \/ \E t \in Tenants :
         \/ Reject(t) \/ DeleteLoan(t) \/ Close(t) \/ Reopen(t) \/ AddInstallment(t)
         \/ MarkNpa(t) \/ ClearNpa(t)
         \/ \E limit \in Thresholds : SetThreshold(t, limit)
         \/ \E first \in 1..LastDay : Approve(t, first) \/ \E terms \in Terms : Edit(t, terms, first)
         \/ \E n \in Numbers(t) :
              \/ DeleteInstallment(t, n)
              \/ \E amount \in 1..Total :
                   \/ Pay(t, n, amount) \/ UndoCollection(t, n, amount)
                   \/ \E onFile \in BOOLEAN : UndoInstallmentPayment(t, n, amount, onFile)
    \/ NextDay

AgeingNext ==
    \/ TenantStep /\ UNCHANGED ageingVars
    \/ LoanSteps /\ UNCHANGED tenantVars
    \/ \E r \in Runs : (StartRun(r) \/ RunStep(r)) /\ UNCHANGED tenantVars
    \/ Crash

\* The cron fires every day, and a run that has begun goes on as long as the server does.
Fairness ==
    /\ WF_allVars(StartRun("cron") /\ UNCHANGED tenantVars)
    /\ \A r \in Runs : WF_allVars(RunStep(r) /\ UNCHANGED tenantVars)

AgeingSpec == AgeingInit /\ [][AgeingNext]_allVars /\ Fairness

-----------------------------------------------------------------------------
(* Properties. *)

\* An installment past its date is paid whole, or an added one is taken out again.
Cleared(t) ==
    \E n \in PastDue(t) :
        \/ n \in Numbers(t)' /\ installments'[t][n].paid = Total
        \/ n > termMonths[t] /\ n \notin Numbers(t)'

\* Before any payment, an edit shortens the term or moves the dates on.
Rescheduled(t) ==
    NothingOnFile(t) /\ (termMonths'[t] < termMonths[t] \/ firstDue'[t] > firstDue[t])

(***************************************************************************)
(* A borrower in arrears does not get off the NPA list but by what the     *)
(* staff means to: settling an installment whole or removing an added one, *)
(* an edit, before any money came in, to a shorter term or later dates,    *)
(* clearing the mark, raising the threshold, or ending the loan.  A token  *)
(* payment, one undone, an installment added to the end, an edit that      *)
(* keeps the term and the dates, and the ageing job or its absence do not. *)
(***************************************************************************)
NpaIsNotShakenOff ==
    [][\A t \in Tenants : IsNpa(t) /\ ~IsNpa(t)' =>
          \/ Cleared(t) \/ Rescheduled(t)
          \/ t \in marked \ marked' \/ threshold'[t] > threshold[t]
          \/ ~BeingCollected(t)']_<<loanVars, today>>

ToBeAged(t, n) ==
    /\ Works(t) /\ BeingCollected(t) /\ n \in Numbers(t)
    /\ installments[t][n].status = "PENDING" /\ DueOn(t, n) < today

(***************************************************************************)
(* An unpaid installment past its date does not stay PENDING for ever,     *)
(* whichever other tenants' runs fail, whoever starts a run by hand, and   *)
(* however the server has crashed before.                                  *)
(***************************************************************************)
EventuallyOverdue ==
    \A t \in Tenants, n \in 1..MaxRows : ToBeAged(t, n) ~> ~ToBeAged(t, n)
=============================================================================
