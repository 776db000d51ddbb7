---------------------------- MODULE LedgerContract ----------------------------
(***************************************************************************)
(* What a ledger promises whoever adds it up: a posting counts from the    *)
(* step that posts it, alone or with others of its transaction, until it   *)
(* is reversed, once, for good.  Nothing that is done to the ledger        *)
(* besides, and nothing done twice or half, changes what counts.           *)
(***************************************************************************)
VARIABLES
    posted,     \* everything ever posted
    counted     \* what the totals count

Init == posted = {} /\ counted = {}

Post(new) ==
    /\ new \cap posted = {}
    /\ posted' = posted \cup new
    /\ counted' = counted \cup new

Reverse(x) ==
    /\ x \in counted
    /\ counted' = counted \ {x}
    /\ UNCHANGED posted

Next ==
    \/ Post(posted' \ posted)
    \/ \E x \in counted : Reverse(x)

Spec == Init /\ [][Next]_<<posted, counted>>
=============================================================================
