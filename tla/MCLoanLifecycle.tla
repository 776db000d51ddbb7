--------------------------- MODULE MCLoanLifecycle ---------------------------
(***************************************************************************)
(* Small instances of LoanLifecycle.  Two weekly forms that differ in      *)
(* principal and in number of installments make edits visible; one form of *)
(* every other cycle exercises its create and update methods.              *)
(***************************************************************************)
EXTENDS LoanLifecycle, TLC

CONSTANTS s1, s2

SessionSymmetry == Permutations(Sessions)

MCPrincipalOf == [p \in Plans |-> IF p = "weeklyLong" THEN 20 ELSE 10]
MCTermOf == [p \in Plans |-> IF p = "weeklyLong" THEN 3 ELSE 1]
MCCycleOf == [p \in Plans |->
    CASE p \in {"weeklyShort", "weeklyLong"} -> "WEEKLY"
      [] p = "daily" -> "DAILY"
      [] p = "monthly" -> "MONTHLY"
      [] OTHER -> "AGENT_RISK"]

OnePlanPerCycle == {"weeklyShort", "weeklyLong", "daily", "monthly", "agentRisk"}
=============================================================================
