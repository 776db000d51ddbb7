--------------------------- MODULE MCOverdueAgeing ---------------------------
(***************************************************************************)
(* Two tenants for TLC: "a" is ACTIVE, with a loan of two installments;    *)
(* the creation of "b" has failed.  Either super-admins see to "b" and the *)
(* server crashes, and the loan of "a" is approved and aged; or nothing    *)
(* happens to the tenants and the staff of "a" does all it can.  Neither   *)
(* reads the other's data: what they have in common is the job.            *)
(***************************************************************************)
EXTENDS OverdueAgeing, TLC

CONSTANTS a, b

MCTenants == {a, b}
MCFounded == {a}
MCFailed == {b}
MCTerm == a :> 2 @@ b :> 0

OnlyAged ==
    /\ loan[a] \in {"PENDING", "APPROVED"} /\ NothingOnFile(a)
    /\ Len(installments[a]) = Term[a] /\ termMonths[a] = Term[a] /\ firstDue[a] = 1
    /\ marked = {} /\ threshold[a] = DefaultThreshold

\* Bound: what a super-admin's request or a crash has in common with the loan.
Apart == events = 0 \/ OnlyAged

MCNext == AgeingNext /\ Apart'
MCSpec == AgeingInit /\ [][MCNext]_allVars /\ Fairness
=============================================================================
