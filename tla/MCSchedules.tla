------------------------------ MODULE MCSchedules ------------------------------
(***************************************************************************)
(* Loans for TLC with ten paise to the rupee.  Of those that are projected *)
(* the principal divides by the term or leaves a remainder either way, and *)
(* the EMI is rounded up or down; the others take every combination of a   *)
(* few principals, rates, terms and round-ups.  Two paise are too little   *)
(* to be divided over a term.                                              *)
(***************************************************************************)
EXTENDS Schedules

Per1000(principal, totalInterest, periods) ==
    [product |-> "PER_1000", calculation |-> "FLAT", principal |-> principal,
     totalInterest |-> totalInterest, periods |-> periods]
Projected ==
    {Per1000(60, 30, 3), Per1000(60, 26, 3), Per1000(61, 30, 3), Per1000(59, 31, 3),
     Per1000(60, 34, 3), Per1000(64, 1, 3), Per1000(40, 15, 1), Per1000(120, 44, 4),
     Per1000(2, 10, 4)}
FixedTerm ==
    [product : {"WEEKLY", "DAILY", "MONTHLY", "TERM_LOAN"}, calculation : {"FLAT", "REDUCING"},
     principal : {2, 97, 100, 350, 1000}, periods : 1..4,
     rate : {[num |-> a, den |-> 10] : a \in 0..2}, emiRounding : {0, 10, 50}]
MCLoans ==
    Projected \cup {l \in FixedTerm : l.product \in {"MONTHLY", "TERM_LOAN"} =>
                                         l.calculation = "REDUCING" /\ l.emiRounding = 0}
MCReceipts(l, i) ==
    LET whole == Greatest(0, Schedule(l)[Least(i, l.periods)].total)
    IN  IF Greatest(i, l.periods) > 3 THEN {0, whole} ELSE {0, whole \div 3, whole - whole \div 3, whole}
=============================================================================
