--------------------------- MODULE ProductSchedules ---------------------------
(***************************************************************************)
(* The schedules an agreed loan is stored with, of the products whose term *)
(* is fixed and of the one that is projected, TenantLoansService, in paise.*)
(* A loan says its product, its calculation type, its principal, its       *)
(* number of periods, the rate of a period as a fraction, and to what its  *)
(* EMI is rounded up.  The code computes in doubles, and here the numbers  *)
(* are exact until it rounds them to paise.  Due dates are left out.       *)
(***************************************************************************)
EXTENDS Integers, FiniteSetsExt

CONSTANT Rupee      \* paise in a rupee
ASSUME RupeeAssumption == Rupee \in Nat \ {0}

\* What may be agreed: assertWeeklyRateInput, assertEmiRounding and the checks beside them.
Agreed(l) ==
    /\ l.principal \in Nat \ {0} /\ l.periods \in Nat \ {0}
    /\ \/ l.product = "PER_1000" /\ l.totalInterest \in Nat
       \/ /\ l.product \in {"WEEKLY", "DAILY", "MONTHLY", "TERM_LOAN"}
          /\ l.calculation \in {"FLAT", "REDUCING"}
          /\ l.rate.num \in Nat /\ l.rate.den \in Nat \ {0}
          /\ l.emiRounding \in Nat
          /\ l.product = "TERM_LOAN" => l.calculation = "REDUCING" /\ l.emiRounding = 0

\* Math.round(a / b)
RoundDiv(a, b) == (2 * a + b) \div (2 * b)
CeilDiv(a, b) == (a + b - 1) \div b
Least(a, b) == IF a < b THEN a ELSE b
Greatest(a, b) == IF a > b THEN a ELSE b

\* Math.pow
Power(x, n) ==
    LET power[i \in 0..n] == IF i = 0 THEN 1 ELSE x * power[i - 1]
    IN  power[n]

\* What was agreed to be paid each time, as a fraction.
Flat(l) == l.calculation = "FLAT" \/ l.rate.num = 0
EmiOver(l, n) ==
    LET a == l.rate.num
        b == l.rate.den
    IN  IF Flat(l) THEN [num |-> l.principal * (b + a * n), den |-> n * b]
        ELSE [num |-> l.principal * a * Power(a + b, n),
              den |-> b * (Power(a + b, n) - Power(b, n))]
EmiOf(l) == EmiOver(l, l.periods)

\* Interest of one period: of the principal, or of what is outstanding.
Interest(l, balance) ==
    RoundDiv((IF Flat(l) THEN l.principal ELSE balance) * l.rate.num, l.rate.den)

-----------------------------------------------------------------------------
(* computeWeeklySchedule *)

\* roundUp
WeeklyEmi(l) ==
    LET emi == EmiOf(l)
    IN  IF l.emiRounding = 0 THEN RoundDiv(emi.num, emi.den)
        ELSE CeilDiv(emi.num, emi.den * l.emiRounding) * l.emiRounding

\* Mutant: the last installment is like the others.
WeeklyPrincipalNoPlug(l, i, balance) ==
    IF Flat(l) THEN RoundDiv(l.principal, l.periods) ELSE WeeklyEmi(l) - Interest(l, balance)
\* The last installment clears the balance.
WeeklyPrincipal(l, i, balance) ==
    CASE i = l.periods -> balance
      [] i < l.periods /\ Flat(l) -> RoundDiv(l.principal, l.periods)
      [] OTHER -> WeeklyEmi(l) - Interest(l, balance)

\* What is outstanding after each installment.
WeeklyBalance(l) ==
    LET balance[i \in 0..l.periods] ==
            IF i = 0 THEN l.principal
            ELSE balance[i - 1] - WeeklyPrincipal(l, i, balance[i - 1])
    IN  balance

WeeklySchedule(l) ==
    LET principal(i) == WeeklyPrincipal(l, i, WeeklyBalance(l)[i - 1])
        interest(i) == Interest(l, WeeklyBalance(l)[i - 1])
    IN  [i \in 1..l.periods |->
            [principal |-> principal(i), interest |-> interest(i),
             total |-> IF i < l.periods THEN WeeklyEmi(l) ELSE principal(i) + interest(i)]]

-----------------------------------------------------------------------------
(* computeDailySchedule *)

DailyEmi(l) ==
    LET emi == EmiOf(l)
    IN  IF l.emiRounding = 0 THEN emi
        ELSE [num |-> CeilDiv(emi.num, emi.den * l.emiRounding) * l.emiRounding, den |-> 1]

DailyPrincipal(l, i, balance) ==
    LET emi == DailyEmi(l)
        share == RoundDiv(emi.num * l.rate.den - balance * l.rate.num * emi.den,
                          emi.den * l.rate.den)
    IN  CASE i = l.periods -> balance
          [] i < l.periods /\ l.calculation = "FLAT" -> RoundDiv(l.principal, l.periods)
          [] OTHER -> Greatest(0, share)

DailyBalance(l) ==
    LET balance[i \in 0..l.periods] ==
            IF i = 0 THEN l.principal
            ELSE Greatest(0, balance[i - 1] - DailyPrincipal(l, i, balance[i - 1]))
    IN  balance

DailySchedule(l) ==
    LET principal(i) == DailyPrincipal(l, i, DailyBalance(l)[i - 1])
        interest(i) == Interest(l, DailyBalance(l)[i - 1])
    IN  [i \in 1..l.periods |->
            [principal |-> principal(i), interest |-> interest(i),
             total |-> principal(i) + interest(i)]]

-----------------------------------------------------------------------------
(* computeMonthlySchedule: interest only. *)

MonthlySchedule(l) ==
    LET interest == RoundDiv(l.principal * l.rate.num, l.rate.den)
    IN  [i \in 1..l.periods |-> [principal |-> 0, interest |-> interest, total |-> interest]]

(***************************************************************************)
(* generateInstallments: the balance is not rounded, so that the last one  *)
(* is an EMI as well, and the principal of the i-th grows by the rate.     *)
(***************************************************************************)
TermSchedule(l) ==
    LET a == l.rate.num
        b == l.rate.den
        n == l.periods
        emi == EmiOf(l)
        paid(i) == Power(a + b, i - 1) * Power(b, n - i)
        den == Power(a + b, n) - Power(b, n)
    IN  [i \in 1..n |->
            [principal |-> IF a = 0 THEN RoundDiv(l.principal, n)
                           ELSE RoundDiv(l.principal * a * paid(i), den),
             interest |-> IF a = 0 THEN 0
                          ELSE RoundDiv(l.principal * a * (Power(a + b, n) - b * paid(i)), b * den),
             total |-> RoundDiv(emi.num, emi.den)]]

-----------------------------------------------------------------------------
(* computePer1000Schedule: flat interest for 1,000 a day, EMI in rupees.    *)

Emi(l) == IF l.periods = 1 THEN l.principal + l.totalInterest
          ELSE Rupee * RoundDiv(l.principal + l.totalInterest, l.periods * Rupee)
PrincipalPerPeriod(l) == RoundDiv(l.principal, l.periods)
InterestPerPeriod(l) == Emi(l) - (IF l.periods = 1 THEN l.principal ELSE PrincipalPerPeriod(l))

\* The last installment is a plug for what the others leave.
Per1000Schedule(l) ==
    LET row(principal, interest) ==
            [principal |-> principal, interest |-> interest, total |-> principal + interest]
        n == l.periods
    IN  [i \in 1..n |->
            IF i < n THEN row(PrincipalPerPeriod(l), InterestPerPeriod(l))
            ELSE row(l.principal - (n - 1) * PrincipalPerPeriod(l),
                     l.totalInterest - (n - 1) * InterestPerPeriod(l))]

Schedule(l) ==
    CASE l.product = "WEEKLY" -> WeeklySchedule(l)
      [] l.product = "DAILY" -> DailySchedule(l)
      [] l.product = "MONTHLY" -> MonthlySchedule(l)
      [] l.product = "TERM_LOAN" -> TermSchedule(l)
      [] l.product = "PER_1000" -> Per1000Schedule(l)

-----------------------------------------------------------------------------
(* What a schedule promises. *)

\* What is asked for is rounded up to more than was agreed.
RoundedUp(l) == l.calculation = "REDUCING" /\ l.emiRounding > 0

(***************************************************************************)
(* Amounts are rounded to paise, and the last installment makes up for it; *)
(* which it can unless the loan is so small, or so long, that a paisa more *)
(* each time would pay it off before its last installment.                 *)
(***************************************************************************)
OutlastsRounding(l) ==
    LET n == l.periods
        sooner == EmiOver(l, n - 1)
        emi == EmiOf(l)
    IN  IF l.product = "PER_1000" THEN n * (n - 1) <= 2 * l.principal
        ELSE n = 1 \/ CeilDiv(emi.num, emi.den) < sooner.num \div sooner.den

(***************************************************************************)
(* The installments' principal adds up to what was lent, but for paise in  *)
(* a term loan, and for more in a daily loan that is rounded up or does    *)
(* not outlast its rounding; none is negative but in a weekly loan of that *)
(* kind; and each total is what its two parts add up to, to the paisa, but *)
(* in a weekly flat loan, which asks for the rounded EMI.                  *)
(***************************************************************************)
AddsUp(l) ==
    LET schedule == Schedule(l)
        principal == SumFunctionOnSet([i \in 1..l.periods |-> schedule[i].principal], 1..l.periods)
        fits == OutlastsRounding(l) /\ (l.product = "PER_1000" \/ ~RoundedUp(l))
    IN  /\ CASE l.product = "MONTHLY" -> principal = 0
             [] l.product = "TERM_LOAN" -> 2 * (principal - l.principal) \in -l.periods..l.periods
             [] l.product = "DAILY" -> principal >= l.principal /\ (fits => principal = l.principal)
             [] OTHER -> principal = l.principal
        /\ \A i \in 1..l.periods :
              LET row == schedule[i]
                  over == row.total - row.principal - row.interest
              IN  /\ fits \/ l.product = "DAILY" => row.principal >= 0
                  /\ over \in -1..1 \/ (l.product = "WEEKLY" /\ Flat(l) /\ over > 0)
=============================================================================
