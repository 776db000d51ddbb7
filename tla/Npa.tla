--------------------------------- MODULE Npa ---------------------------------
(***************************************************************************)
(* The classification of a loan as non-performing, npa.ts, on the set of   *)
(* its installment numbers that are past their date and not paid whole.    *)
(***************************************************************************)
EXTENDS Integers, FiniteSetsExt

\* Mutant: the islands are not told apart.
IslandOfAll(overdue, n) == overdue
\* ROW_NUMBER() OVER (ORDER BY installment_number)
RowNumber(overdue, n) == Cardinality({m \in overdue : m <= n})
\* installment_number - ROW_NUMBER() is the same throughout a run of consecutive numbers.
Island(overdue, n) ==
    {m \in overdue : m - RowNumber(overdue, m) = n - RowNumber(overdue, n)}

\* npaConsecutiveOverdueRunSql
OverdueRun(overdue) == Max({0} \cup {Cardinality(Island(overdue, n)) : n \in overdue})

\* npaLoanPredicateSql and isNpa
Npa(overdue, isMarked, threshold) ==
    LET run == OverdueRun(overdue) IN run > 0 /\ (isMarked \/ run >= threshold)

(***************************************************************************)
(* The gaps-and-islands query finds the longest streak of consecutive      *)
(* installments past due, and not how many there are in all.               *)
(***************************************************************************)
FindsLongestStreak(overdue) ==
    LET run == OverdueRun(overdue)
    IN  /\ \E n \in overdue \cup {1} : n..n + run - 1 \subseteq overdue
        /\ \A n \in overdue : ~(n..n + run \subseteq overdue)
=============================================================================
