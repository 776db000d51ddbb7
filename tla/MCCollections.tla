---------------------------- MODULE MCCollections ----------------------------
(***************************************************************************)
(* Small instances of Collections: tries with one key are a collection and *)
(* its retry, tries with different keys are two collectors on one loan.    *)
(***************************************************************************)
EXTENDS Collections, TLC

CONSTANTS t1, t2, k1, k2

Collect(row, amount, key) == [kind |-> "collect", row |-> row, amount |-> amount, key |-> key]
Record(row, amount) == [kind |-> "record", row |-> row, amount |-> amount, key |-> None]

\* A collection, and any request besides it: its retry, another collection, an office payment.
PairAsks == {[t \in Tries |-> IF t = t1 THEN a ELSE b] :
                a \in {Collect(r, n, k1) : r \in RowNumbers, n \in 1..MaxAmount},
                b \in {Collect(r, n, k1) : r \in RowNumbers, n \in 1..MaxAmount}
                      \cup {Collect(r, n, k2) : r \in RowNumbers, n \in 1..MaxAmount}
                      \cup {Record(r, n) : r \in RowNumbers, n \in 1..Total}}
MCAsks == {a \in PairAsks : a[t1].key = a[t2].key => a[t1] = a[t2]}

\* One submission sent twice.
OneRetried == {a \in MCAsks : a[t1] = a[t2]}

(***************************************************************************)
(* A plain retry: a try starts only when no other is under way.            *)
(***************************************************************************)
Started(t) == tries[t].at # "new"
Over(t) == tries[t].at \in {"done", "duplicate", "refused"}
OneAfterTheOther ==
    \A t \in Tries : ~Started(t) /\ Started(t)' => \A u \in Tries \ {t} : Started(u) => Over(u)
RetrySpec == Init /\ [][Next /\ OneAfterTheOther]_vars
=============================================================================
