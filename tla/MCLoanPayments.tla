---------------------------- MODULE MCLoanPayments ----------------------------
(***************************************************************************)
(* A small instance of LoanPayments: two requests at a time on a loan of   *)
(* one installment, with room for two more and for two payments on one.    *)
(***************************************************************************)
EXTENDS LoanPayments, TLC

CONSTANTS s1, s2

SessionSymmetry == Permutations(Sessions)
=============================================================================
