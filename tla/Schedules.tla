------------------------------- MODULE Schedules -------------------------------
(***************************************************************************)
(* What TenantLoansService makes of a loan that pays "X per 1,000 per day" *)
(* as its installments are paid, missed and resolved: the live projection, *)
(* projectPer1000Schedule, with the NPA rule beside it, and the choice of  *)
(* what to do about a missed installment.  Amounts are in paise.  "1..n"   *)
(* in its comments is the contracted term; the loans of other products end *)
(* with it.  PAY_EXTRA_NEXT and DEFER_TO_END change nothing that is        *)
(* computed, and are as good as no resolution here.                        *)
(***************************************************************************)
EXTENDS ProductSchedules, Npa, Sequences

CONSTANTS
    Loans,              \* what may be agreed
    Receipts(_, _)      \* per loan and installment: what may have been paid on it

ASSUME SchedulesAssumption ==
    \A l \in Loans : Agreed(l) /\ \A i \in 1..l.periods + 1 : Receipts(l, i) \subseteq Nat

VARIABLES
    loan,
    collected,      \* per installment: paid_amount; one may have been added to the contract's
    resolution,     \* per contracted installment: miss_resolution
    past,           \* periods due on or before today
    dueToday        \* the last of them is due today

vars == <<loan, collected, resolution, past, dueToday>>

Contracted == 1..loan.periods

\* Only this product is projected.
Projects(l) == l.product = "PER_1000"

Init ==
    /\ loan \in Loans
    /\ collected = [i \in 1..loan.periods + 1 |-> 0]
    /\ resolution = [i \in Contracted |-> "NONE"]
    /\ past = 0 /\ dueToday = FALSE

-----------------------------------------------------------------------------
(* projectPer1000Schedule *)

Cap == loan.periods * 10 + 100
Today(i) == dueToday /\ i = past
Collected(i) == IF i \in DOMAIN collected THEN collected[i] ELSE 0
BaseDue(i) == Per1000Schedule(loan)[i].total

\* Mutant: the last period takes the same share of the shortfall as the others.
LastShareRounded(shortfall, n) == RoundDiv(shortfall, n)
\* lastPeriodAddOn, the remainder
LastShare(shortfall, n) == shortfall - (n - 1) * RoundDiv(shortfall, n)
AddOn(extensions, i) ==
    SumFunctionOnSet([e \in extensions |-> IF i = Max(e.eligible) THEN e.last ELSE e.each],
                     {e \in extensions : i \in e.eligible})

\* Contracted periods ahead that were not paid whole at their original amount.
Eligible(i) == {j \in i + 1..loan.periods : Collected(j) < BaseDue(j)}

StatusOf(i, paid, due) ==
    CASE i > past -> "PROJECTED"
      [] i <= past /\ paid >= due -> "PAID"
      [] i <= past /\ paid < due /\ Today(i) -> "DUE"
      [] i <= past /\ 0 < paid /\ paid < due /\ ~Today(i) -> "PARTIAL"
      [] OTHER -> "MISSED"
IsMissed(row) == row.status \in {"MISSED", "PARTIAL"}

\* A missed period resolved by EXTEND_EMI spreads its shortfall over the eligible ones.
Spread(i, row, resolved) ==
    IF IsMissed(row) /\ i \in Contracted /\ resolved[i] = "EXTEND_EMI" /\ Eligible(i) # {}
    THEN {[missed |-> i, eligible |-> Eligible(i),
           each |-> RoundDiv(row.due - row.paid, Cardinality(Eligible(i))),
           last |-> LastShare(row.due - row.paid, Cardinality(Eligible(i)))]}
    ELSE {}

\* Mutant: a period still open today is carried forward at what has come in so far.
AppliedAsPaid(i, paid, due) == paid
\* Today's collection round may still complete.
Applied(i, paid, due) == IF Today(i) /\ paid < due THEN due ELSE paid

\* One turn of the loop: interest accrues, what is due, what came in, interest first.
Turn(p, resolved) ==
    LET i == Len(p.rows) + 1
        interest == p.unpaidInterest + InterestPerPeriod(loan)
        outstanding == p.principal + interest
        due == Least(Emi(loan) + AddOn(p.extensions, i), outstanding)
        paid == IF i > past THEN due ELSE Least(Collected(i), outstanding)
        applied == Applied(i, paid, due)
        toInterest == Least(applied, interest)
        row == [due |-> due, interest |-> Least(due, interest), paid |-> paid,
                status |-> StatusOf(i, paid, due)]
    IN  [rows |-> Append(p.rows, row),
         principal |-> p.principal - (applied - toInterest),
         unpaidInterest |-> interest - toInterest,
         charged |-> p.charged + InterestPerPeriod(loan),
         extensions |-> p.extensions \cup Spread(i, row, resolved)]

Start == [rows |-> <<>>, principal |-> loan.principal, unpaidInterest |-> 0, charged |-> 0,
          extensions |-> {}]
Settled(p) == p.principal <= 0 /\ p.unpaidInterest <= 0

\* What each turn of the loop leaves; none does anything once everything is paid.
Turns(resolved) ==
    LET after[i \in 0..Cap] ==
            IF i = 0 THEN Start
            ELSE LET p == after[i - 1] IN IF Settled(p) THEN p ELSE Turn(p, resolved)
    IN  after

Projection(resolved) ==
    LET after == Turns(resolved)
    IN  after[CHOOSE i \in 0..Cap : Settled(after[i]) \/ i = Cap]
Payable(p) == loan.principal + p.charged

-----------------------------------------------------------------------------
(* resolveMissedInstallment *)

\* loadResolvableMiss: what is missed, or short, according to what is shown.
Resolvable(i, p) == i \in Contracted /\ i \in DOMAIN p.rows /\ IsMissed(p.rows[i])

Candidate(i) == Projection([resolution EXCEPT ![i] = "EXTEND_EMI"])
\* A payment that commits before the UPDATE has the effect of one that comes after it.
\* An extension that changes neither the length nor what is payable is refused.
\* The preview counts a change of the next collection as well: it may offer what is refused here.
Changes(p, q) == Len(q.rows) # Len(p.rows) \/ Payable(q) # Payable(p)

ExtendEmi(i) ==
    LET p == Projection(resolution)
    IN  /\ Resolvable(i, p) /\ Changes(p, Candidate(i))
        /\ resolution' = [resolution EXCEPT ![i] = "EXTEND_EMI"]
        /\ UNCHANGED <<loan, collected, past, dueToday>>

\* The choice is cleared, or is another one.
ResolveOtherwise(i) ==
    /\ Resolvable(i, Projection(resolution))
    /\ resolution' = [resolution EXCEPT ![i] = "NONE"]
    /\ UNCHANGED <<loan, collected, past, dueToday>>

-----------------------------------------------------------------------------
(* Payments and undos, which other modules are about, and time. *)

Collect(i, amount) ==
    /\ collected' = [collected EXCEPT ![i] = amount]
    /\ UNCHANGED <<loan, resolution, past, dueToday>>

\* The next installment's date comes, and goes.
TimePasses ==
    /\ dueToday \/ past <= loan.periods
    /\ past' = IF dueToday THEN past ELSE past + 1
    /\ dueToday' = ~dueToday
    /\ UNCHANGED <<loan, collected, resolution>>

Next ==
    /\ Projects(loan)
    /\ \/ \E i \in DOMAIN collected : \E amount \in Receipts(loan, i) : Collect(i, amount)
       \/ \E i \in Contracted : ExtendEmi(i) \/ ResolveOtherwise(i)
       \/ TimePasses

Spec == Init /\ [][Next]_vars

-----------------------------------------------------------------------------
(* Properties. *)

\* Rounded to paise, the installments' principal covers the loan's ...
DividesUp == loan.periods * PrincipalPerPeriod(loan) >= loan.principal
\* ... and the contract's last installment is not below what the projection asks for.
PlugSuffices ==
    LET last == Per1000Schedule(loan)[loan.periods]
    IN  last.total >= Least(Emi(loan), last.principal + InterestPerPeriod(loan))
PaidAsContracted ==
    \A i \in Contracted : i <= past =>
        collected[i] = BaseDue(i) \/ (Today(i) /\ collected[i] < BaseDue(i))

(***************************************************************************)
(* A loan paid as contracted, whatever has come in of today's installment, *)
(* is projected as it was contracted: no period is missed and none is      *)
(* added.  Three roundings break that, and the property excludes them: a   *)
(* term by which the principal, rounded down, leaves a few paise, which    *)
(* cost a whole period's interest; a last installment that makes up for an *)
(* EMI rounded up, which the projection takes for paid short; and a loan   *)
(* so small that its shares, rounded up, use it up before its term.        *)
(***************************************************************************)
OnTimeNeverExtends ==
    LET p == Projection(resolution)
    IN  Projects(loan) /\ PaidAsContracted /\ OutlastsRounding(loan) /\ DividesUp /\ PlugSuffices =>
            /\ Len(p.rows) <= loan.periods
            /\ \A i \in DOMAIN p.rows : ~IsMissed(p.rows[i])
            /\ \A i \in DOMAIN p.rows \ {loan.periods} :
                  LET row == Per1000Schedule(loan)[i]
                  IN  p.rows[i].due = row.total /\ p.rows[i].interest = row.interest

(***************************************************************************)
(* What was decided about one installment never makes a later one that was *)
(* paid whole, at its original amount, look short: the collector is not    *)
(* chased down the schedule.  The last installment is a plug, and may be   *)
(* shown short, or not, whatever was decided.                              *)
(***************************************************************************)
PaidWholeIsNeverShort ==
    LET p == Projection(resolution)
    IN  Projects(loan) =>
            \A i \in DOMAIN p.rows :
                i < loan.periods /\ Collected(i) >= BaseDue(i) => ~IsMissed(p.rows[i])

\* Every short period was spread over later ones ...
AllSpread(p) ==
    \A i \in DOMAIN p.rows : IsMissed(p.rows[i]) => \E e \in p.extensions : e.missed = i
\* ... and no last one gets less than nothing for the paise the others were rounded up by.
LastSharesLeft(p) == \A e \in p.extensions : e.last >= 0

(***************************************************************************)
(* EXTEND_EMI keeps what the collector is told of it: if every period that *)
(* fell short was spread over later ones, on top of each other or not, the *)
(* loan ends with its contracted term, and not a paisa is left over to be  *)
(* charged a whole period's interest.                                      *)
(***************************************************************************)
SpreadEndsOnTime ==
    LET p == Projection(resolution)
    IN  Projects(loan) /\ AllSpread(p) /\ LastSharesLeft(p) /\ DividesUp =>
            Len(p.rows) <= loan.periods

\* What rounding leaves for a last share is not less in the second projection.
LastSharesRise(p, q) ==
    \A e \in p.extensions, f \in q.extensions : e.missed = f.missed => e.last <= f.last

(***************************************************************************)
(* To spread a missed installment, whatever was decided about the others,  *)
(* costs the borrower no more, and takes no longer, than to leave it; but  *)
(* for a loan whose EMI was rounded to less than its principal, and for    *)
(* last shares that are used up by the rounding of the others.             *)
(***************************************************************************)
SpreadingCostsNoMore ==
    LET p == Projection(resolution)
    IN  Projects(loan) /\ InterestPerPeriod(loan) >= 0 =>
            \A i \in Contracted : Resolvable(i, p) /\ resolution[i] = "NONE" =>
                LET q == Candidate(i)
                IN  LastSharesLeft(q) /\ LastSharesRise(p, q) =>
                        Payable(q) <= Payable(p) /\ Len(q.rows) <= Len(p.rows)

(***************************************************************************)
(* What the collector is told of EXTEND_EMI holds, for any decisions on    *)
(* any installments, one on top of the other, and any payments in between. *)
(***************************************************************************)
ExtendEmiKeepsItsPromise == PaidWholeIsNeverShort /\ SpreadEndsOnTime /\ SpreadingCostsNoMore

\* The stored installments that are past their date and not paid whole.
PastDueNumbers ==
    {i \in Contracted : i <= past /\ ~Today(i) /\ collected[i] < Schedule(loan)[i].total}

(***************************************************************************)
(* Whichever installments were paid, the gaps-and-islands query by which a *)
(* loan is classified NPA finds the longest streak of consecutive ones     *)
(* past due, and not how many there are in all.                            *)
(***************************************************************************)
NpaIsLongestStreak == FindsLongestStreak(PastDueNumbers)

(***************************************************************************)
(* Whatever was agreed, the schedule that is stored adds up as AddsUp says.*)
(***************************************************************************)
ContractsAddUp == AddsUp(loan)
=============================================================================
