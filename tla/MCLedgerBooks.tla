---------------------------- MODULE MCLedgerBooks ----------------------------
(***************************************************************************)
(* A small instance of LedgerBooks: one posting of each kind that the      *)
(* figures treat differently.                                              *)
(***************************************************************************)
EXTENDS LedgerBooks, TLC

CONSTANTS s1, s2, k1, f1, f2

Row(type, ofPrincipal, rest, ofLoan) ==
    [type |-> type, principal |-> ofPrincipal, rest |-> rest, ofLoan |-> ofLoan]
MCPostings == {[what |-> Row("DISBURSEMENT", 4, 0, TRUE), key |-> k1],
               [what |-> Row("COLLECTION", 2, 1, TRUE), key |-> None],
               [what |-> Row("REFUND", 1, 0, TRUE), key |-> None],
               [what |-> Row("FEE", 0, 1, FALSE), key |-> None],
               [what |-> Row("ADJUSTMENT", -1, 0, FALSE), key |-> None],
               [what |-> Row("CONTRIBUTION", 5, 0, FALSE), key |-> None]}
\* One funder alone, both together, and one after an edit of the loan to 3.
MCAllocations == {f1 :> 4, f2 :> 4, f1 :> 1 @@ f2 :> 3, f1 :> 3}
SessionSymmetry == Permutations(Sessions)
=============================================================================
