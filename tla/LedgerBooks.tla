----------------------------- MODULE LedgerBooks -----------------------------
(***************************************************************************)
(* The books of a tenant: ledger_transactions and funder_transactions, as  *)
(* the posting, reversal and reconciliation endpoints change them; the     *)
(* daily snapshots computed from them; and the allocation of one loan's    *)
(* principal to the funders.  Each of these handlers runs statement by     *)
(* statement, most of them without a transaction, so a handler of several  *)
(* statements is several steps, other handlers come between them, and the  *)
(* process may die between them.                                           *)
(***************************************************************************)
EXTENDS Integers, Sequences, FiniteSetsExt, SequencesExt

CONSTANTS
    Sessions,       \* requests in flight at the same time
    Postings,       \* what may be posted, dates apart
    Keys,           \* idempotency keys
    Allocations,    \* allocations of a loan, functions from funders to amounts
    Principals,     \* what the loan's principal may be; an edit changes it
    MaxRequests,    \* bound: requests made
    LastDay,        \* CURRENT_DATE, counted from the first business date used
    None            \* NULL

Days == 1..LastDay
LedgerTypes == {"DISBURSEMENT", "COLLECTION", "REFUND", "FEE", "ADJUSTMENT"}
\* A funder's ADJUSTMENT carries its own sign.
FunderTypes == {"CONTRIBUTION", "WITHDRAWAL", "FUNDER_ADJUSTMENT"}

\* "rest" is interest, fee and other together; "ofLoan": the row names a loan.
Amounts == [type : LedgerTypes \cup FunderTypes, principal : Int, rest : Int, ofLoan : BOOLEAN]

ASSUME LedgerBooksAssumption ==
    /\ None \notin Keys
    /\ Postings \subseteq [what : Amounts, key : Keys \cup {None}]
    \* A transaction must have a non-zero amount.
    /\ \A p \in Postings : p.what.principal + p.what.rest # 0
    \* A list that names each funder once, each amount positive.
    /\ \A a \in Allocations : IsFiniteSet(DOMAIN a) /\ a \in [DOMAIN a -> Nat \ {0}]
    /\ Principals \subseteq Nat \ {0} /\ Principals # {}
    /\ MaxRequests \in Nat /\ LastDay \in Nat \ {0}

VARIABLES
    books,      \* both transaction tables, in insertion order
    snapshots,  \* daily_ledger_snapshot by business_date
    loanDeleted,\* loans.deleted_at is set on the loan the rows name
    principal,  \* loans.principal of that loan
    funding,    \* its loan_funder_allocations, and history about them
    req,        \* per session: its step and what it has read
    begun,      \* requests made
    died        \* history: a reversal died between its two writes

vars == <<books, snapshots, loanDeleted, principal, funding, req, begun, died>>
loanVars == <<loanDeleted, principal, funding>>

\* "of" is reversal_of_id, 0 for none.
BookRows == [what : Amounts, day : Days, key : Keys \cup {None},
             status : {"POSTED", "RECONCILED", "REVERSED"}, of : Nat]
\* "dirty" is history: the books of a day up to this one have changed since.
Snapshots == [opening : Int, closing : Int, fund : Int, locked : BOOLEAN, dirty : BOOLEAN]
\* One row per funder of an allocation, "by" which request.
Funding == [rows : SUBSET [funder : UNION {DOMAIN a : a \in Allocations}, amount : Nat \ {0}, by : Nat],
            mixed : BOOLEAN,    \* history: two allocations overlapped, the last of them counts
            outdated : BOOLEAN] \* history: the principal is not the one they were checked against
Steps == {"idle", "posting", "reversing", "flipping", "opened", "moved", "funded",
          "cashed", "allotting", "clearing"}
Requests == [at : Steps, posting : Postings \cup {None}, allotting : Allocations \cup {None},
             row : Nat, day : Days \cup {0}, opening : Int, moved : Int, capital : Int,
             cash : Int, seen : SUBSET Nat, dirty : BOOLEAN]
Idle == [at |-> "idle", posting |-> None, allotting |-> None, row |-> 0, day |-> 0,
         opening |-> 0, moved |-> 0, capital |-> 0, cash |-> 0, seen |-> {}, dirty |-> FALSE]

(***************************************************************************)
(* Type correctness.                                                       *)
(***************************************************************************)
TypeOK ==
    /\ books \in Seq(BookRows)
    /\ snapshots \in [Days -> Snapshots \cup {None}]
    /\ loanDeleted \in BOOLEAN
    /\ principal \in Principals
    /\ funding \in Funding
    /\ req \in [Sessions -> Requests]
    /\ begun \in 0..MaxRequests
    /\ died \in BOOLEAN

Init ==
    /\ books = <<>>
    /\ snapshots = [d \in Days |-> None]
    /\ loanDeleted = FALSE
    /\ principal \in Principals
    /\ funding = [rows |-> {}, mixed |-> FALSE, outdated |-> FALSE]
    /\ req = [s \in Sessions |-> Idle]
    /\ begun = 0
    /\ died = FALSE

-----------------------------------------------------------------------------
(* Which rows count, and the sums every report is made of: ledger-sql.ts. *)

InLedger(i) == books[i].what.type \in LedgerTypes
\* Mutant: only what is still POSTED counts.
CountsPosted(i) == books[i].status = "POSTED"
\* liveLedgerSql and liveFunderTxnSql
Counts(i) == books[i].status \in {"POSTED", "RECONCILED"} /\ books[i].of = 0

Ledger(days) == {i \in DOMAIN books : InLedger(i) /\ Counts(i) /\ books[i].day \in days}
OfType(rows, types) == {i \in rows : books[i].what.type \in types}
Principal(rows) == SumFunctionOnSet([i \in DOMAIN books |-> books[i].what.principal], rows)
Amount(i) == books[i].what.principal + books[i].what.rest
Sum(rows) == SumFunctionOnSet([i \in DOMAIN books |-> Amount(i)], rows)

\* OUTSTANDING_PRINCIPAL_EXPR
Outstanding(rows) ==
    Principal(OfType(rows, {"DISBURSEMENT"})) - Principal(OfType(rows, {"COLLECTION"}))
        + Principal(OfType(rows, {"REFUND"})) + Principal(OfType(rows, {"ADJUSTMENT"}))

\* Mutant: fees are left out of the cash.
CashMovementNoFees(rows) ==
    Sum(OfType(rows, {"COLLECTION"})) - Sum(OfType(rows, {"DISBURSEMENT", "REFUND"}))
\* SUM(total_amount * CASH_DIRECTION_SQL)
CashMovement(rows) ==
    Sum(OfType(rows, {"COLLECTION", "FEE"})) - Sum(OfType(rows, {"DISBURSEMENT", "REFUND"}))

\* getTotalCapitalWithClient, as of a day
Capital(days) ==
    LET rows == {i \in DOMAIN books : Counts(i) /\ books[i].day \in days}
    IN  Sum(OfType(rows, {"CONTRIBUTION", "FUNDER_ADJUSTMENT"})) - Sum(OfType(rows, {"WITHDRAWAL"}))

\* Mutant: refunds are forgotten among the day's movements.
MovedOnNoRefunds(d) ==
    LET rows == Ledger({d})
    IN  Principal(OfType(rows, {"DISBURSEMENT"})) - Principal(OfType(rows, {"COLLECTION"}))
            + Principal(OfType(rows, {"ADJUSTMENT"}))
\* new_disbursements - principal_collections + adjustments of one day
MovedOn(d) ==
    LET rows == Ledger({d})
    IN  Principal(OfType(rows, {"DISBURSEMENT"})) - Principal(OfType(rows, {"COLLECTION"}))
            + Principal(OfType(rows, {"ADJUSTMENT", "REFUND"}))

-----------------------------------------------------------------------------
(* Steps every handler is built from. *)

NewRequest == begun < MaxRequests /\ begun' = begun + 1

Begin(s, r) ==
    /\ req[s].at = "idle"
    /\ NewRequest
    /\ req' = [req EXCEPT ![s] = r]
    /\ UNCHANGED <<books, snapshots, loanVars, died>>

\* The books of the days from "day" on are no longer what a snapshot says or a request read.
Touched(s, r, day) ==
    /\ snapshots' = [d \in Days |-> IF snapshots[d] = None \/ d < day THEN snapshots[d]
                                    ELSE [snapshots[d] EXCEPT !.dirty = TRUE]]
    /\ req' = [t \in Sessions |-> CASE t = s -> r
                                    [] t # s /\ req[t].day < day -> req[t]
                                    [] OTHER -> [req[t] EXCEPT !.dirty = TRUE]]
Untouched(s, r) == req' = [req EXCEPT ![s] = r] /\ UNCHANGED snapshots

Finished(s) == Untouched(s, Idle) /\ UNCHANGED <<books, loanVars, begun, died>>

-----------------------------------------------------------------------------
(* postTransaction and postFunderTransaction *)

KeyStored(key) == key # None /\ \E i \in DOMAIN books : books[i].key = key
NewRow(p, day) == [what |-> p.what, day |-> day, key |-> p.key, status |-> "POSTED", of |-> 0]

\* The lookup of the idempotency key; a stored one answers the request.
PostLookup(s, p, d) ==
    /\ ~KeyStored(p.key)
    /\ Begin(s, [Idle EXCEPT !.at = "posting", !.posting = p, !.row = d])

Conflicts(key) == KeyStored(key)

\* INSERT, of any business_date
PostInsert(s) ==
    /\ req[s].at = "posting"
    /\ ~Conflicts(req[s].posting.key)
    /\ books' = Append(books, NewRow(req[s].posting, req[s].row))
    /\ Touched(s, Idle, req[s].row)
    /\ UNCHANGED <<loanVars, begun, died>>

\* The 23505 catch: the winner's row is returned.
PostConflict(s) == req[s].at = "posting" /\ Conflicts(req[s].posting.key) /\ Finished(s)

-----------------------------------------------------------------------------
(* reverseTransaction and reverseFunderTransaction *)

\* The original is read: only one already REVERSED is refused.
ReverseRead(s, i) ==
    /\ books[i].status # "REVERSED"
    /\ Begin(s, [Idle EXCEPT !.at = "reversing", !.row = i])

\* Mutant: the reversal repeats the amounts instead of negating them.
NegatedNot(what) == what
Negated(what) == [what EXCEPT !.principal = -@, !.rest = -@]

\* INSERT of the negated row, dated CURRENT_DATE.
ReverseInsert(s) ==
    LET i == req[s].row
    IN  /\ req[s].at = "reversing"
        /\ books' = Append(books, [what |-> Negated(books[i].what), day |-> LastDay, key |-> None,
                                   status |-> "POSTED", of |-> i])
        /\ Untouched(s, [req[s] EXCEPT !.at = "flipping"])
        /\ UNCHANGED <<loanVars, begun, died>>

Flipped(row) == [row EXCEPT !.status = "REVERSED"]

\* UPDATE ... SET status = 'REVERSED'
ReverseFlip(s) ==
    LET i == req[s].row
    IN  /\ req[s].at = "flipping"
        /\ books' = [books EXCEPT ![i] = Flipped(books[i])]
        /\ IF Counts(i) THEN Touched(s, Idle, books[i].day) ELSE Untouched(s, Idle)
        /\ UNCHANGED <<loanVars, begun, died>>

\* The process dies, or the connection, before the UPDATE.
ReverseDies(s) ==
    /\ req[s].at = "flipping"
    /\ died' = TRUE
    /\ Untouched(s, Idle)
    /\ UNCHANGED <<books, loanVars, begun>>

Reconcilable(i) == InLedger(i) /\ books[i].status = "POSTED"

\* reconcile, one UPDATE: any POSTED row of the ledger, a reversal too.
Reconcile(i) ==
    /\ Reconcilable(i)
    /\ NewRequest
    /\ books' = [books EXCEPT ![i].status = "RECONCILED"]
    /\ UNCHANGED <<snapshots, loanVars, req, died>>

\* The loan the rows name is soft-deleted.
DeleteLoan ==
    /\ ~loanDeleted
    /\ NewRequest
    /\ loanDeleted' = TRUE
    /\ UNCHANGED <<books, snapshots, principal, funding, req, died>>

-----------------------------------------------------------------------------
(* generateSnapshot, lockDay, unlockDay *)

SnapshotOpening(s, d) ==
    Begin(s, [Idle EXCEPT !.at = "opened", !.day = d, !.opening = Outstanding(Ledger(1..d - 1))])

SnapshotMoved(s) ==
    /\ req[s].at = "opened"
    /\ Untouched(s, [req[s] EXCEPT !.at = "moved", !.moved = MovedOn(req[s].day)])
    /\ UNCHANGED <<books, loanVars, begun, died>>

SnapshotCapital(s) ==
    /\ req[s].at = "moved"
    /\ Untouched(s, [req[s] EXCEPT !.at = "funded", !.capital = Capital(1..req[s].day)])
    /\ UNCHANGED <<books, loanVars, begun, died>>

SnapshotCash(s) ==
    /\ req[s].at = "funded"
    /\ Untouched(s, [req[s] EXCEPT !.at = "cashed", !.cash = CashMovement(Ledger(1..req[s].day))])
    /\ UNCHANGED <<books, loanVars, begun, died>>

\* INSERT ... ON CONFLICT DO UPDATE, which leaves the lock alone.
SnapshotUpsert(s) ==
    LET r == req[s]
        old == snapshots[r.day]
    IN  /\ r.at = "cashed"
        /\ snapshots' = [snapshots EXCEPT ![r.day] =
              [opening |-> r.opening, closing |-> r.opening + r.moved,
               fund |-> r.capital + r.cash,
               locked |-> IF old = None THEN FALSE ELSE old.locked, dirty |-> r.dirty]]
        /\ req' = [req EXCEPT ![s] = Idle]
        /\ UNCHANGED <<books, loanVars, begun, died>>

LockDay(d) ==
    /\ snapshots[d] # None
    /\ NewRequest
    /\ snapshots' = [snapshots EXCEPT ![d].locked = TRUE]
    /\ UNCHANGED <<books, loanVars, req, died>>

UnlockDay(d) ==
    /\ snapshots[d] # None
    /\ NewRequest
    /\ snapshots' = [snapshots EXCEPT ![d].locked = FALSE]
    /\ UNCHANGED <<books, loanVars, req, died>>

-----------------------------------------------------------------------------
(* setLoanAllocations, whose transaction clears the loan's rows and inserts *)
(* the new ones; what it clears is what was committed when it began to.    *)

TotalOf(a) == SumFunctionOnSet(a, DOMAIN a)
Allotting(t) == req[t].at \in {"allotting", "clearing"}

\* The principal is read and the sum checked, before BEGIN.
AllotRead(s, a) ==
    LET others == {t \in Sessions \ {s} : Allotting(t)}
    IN  /\ req[s].at = "idle" /\ TotalOf(a) = principal
        /\ NewRequest
        /\ req' = [t \in Sessions |->
              CASE t = s -> [Idle EXCEPT !.at = "allotting", !.allotting = a, !.row = begun + 1,
                                         !.opening = principal, !.dirty = others # {}]
                [] t \in others -> [req[t] EXCEPT !.dirty = TRUE]
                [] OTHER -> req[t]]
        /\ UNCHANGED <<books, snapshots, loanVars, died>>

\* Mutant: the allocations made before are kept.
ClearedNone == {}
Cleared == {row.by : row \in funding.rows}

\* BEGIN, and the DELETE finds the rows committed by now.
AllotClear(s) ==
    /\ req[s].at = "allotting"
    /\ Untouched(s, [req[s] EXCEPT !.at = "clearing", !.seen = Cleared])
    /\ UNCHANGED <<books, loanVars, begun, died>>

Kept(s) == {row \in funding.rows : row.by \notin req[s].seen}
Allotted(s) ==
    LET a == req[s].allotting IN {[funder |-> f, amount |-> a[f], by |-> req[s].row] : f \in DOMAIN a}
\* UNIQUE (loan_id, funder_id)
SameFunder(s) == \E row \in Kept(s), new \in Allotted(s) : row.funder = new.funder

\* The INSERTs and COMMIT; a row another transaction holds was waited for.
AllotCommit(s) ==
    /\ req[s].at = "clearing" /\ ~SameFunder(s)
    /\ funding' = [rows |-> Kept(s) \cup Allotted(s),
                   mixed |-> req[s].dirty,
                   outdated |-> req[s].opening # principal \/ (funding.outdated /\ Kept(s) # {})]
    /\ Untouched(s, Idle)
    /\ UNCHANGED <<books, loanDeleted, principal, begun, died>>

\* ROLLBACK: a funder's row is there already, two transactions wait for each other,
\* or the process dies.
AllotFails(s) == req[s].at = "clearing" /\ Finished(s)

\* An edit of the loan, which may follow its approval.
EditLoan(p) ==
    /\ p # principal /\ ~loanDeleted
    /\ NewRequest
    /\ principal' = p
    /\ funding' = [funding EXCEPT !.outdated = funding.rows # {}]
    /\ UNCHANGED <<books, snapshots, loanDeleted, req, died>>

Next ==
    \/ \E s \in Sessions :
         \/ \E p \in Postings, d \in Days : PostLookup(s, p, d)
         \/ PostInsert(s) \/ PostConflict(s)
         \/ \E i \in DOMAIN books : ReverseRead(s, i)
         \/ ReverseInsert(s) \/ ReverseFlip(s) \/ ReverseDies(s)
         \/ \E d \in Days : SnapshotOpening(s, d)
         \/ SnapshotMoved(s) \/ SnapshotCapital(s) \/ SnapshotCash(s) \/ SnapshotUpsert(s)
         \/ \E a \in Allocations : AllotRead(s, a)
         \/ AllotClear(s) \/ AllotCommit(s) \/ AllotFails(s)
    \/ \E i \in DOMAIN books : Reconcile(i)
    \/ \E d \in Days : LockDay(d) \/ UnlockDay(d)
    \/ DeleteLoan
    \/ \E p \in Principals : EditLoan(p)

Spec == Init /\ [][Next]_vars

-----------------------------------------------------------------------------
(* Properties. *)

Reversals(i) == {j \in DOMAIN books : books[j].of = i}
UnderReversal(i) == \E s \in Sessions : req[s].at = "flipping" /\ req[s].row = i

(***************************************************************************)
(* A row is marked REVERSED only with a negated row standing against it,   *)
(* and a negated row always takes its original out of the totals, at once  *)
(* or when the request under way gets to it, unless that request died.     *)
(***************************************************************************)
ReversalsTakeEffect ==
    \A i \in DOMAIN books :
        /\ \A j \in Reversals(i) : Amount(j) = -Amount(i)
        /\ books[i].status = "REVERSED" => Reversals(i) # {}
        /\ Reversals(i) # {} => books[i].status = "REVERSED" \/ UnderReversal(i) \/ died

(***************************************************************************)
(* A snapshot during and after whose computation the books up to its day   *)
(* have not changed says what they say: its closing figure, which it adds  *)
(* up from the day's movements, is the principal outstanding by then, and  *)
(* it opens where the day before closed.                                   *)
(***************************************************************************)
CleanSnapshotIsTrue ==
    \A d \in Days : snapshots[d] # None /\ ~snapshots[d].dirty =>
        /\ snapshots[d].opening = Outstanding(Ledger(1..d - 1))
        /\ snapshots[d].closing = Outstanding(Ledger(1..d))
        /\ snapshots[d].fund = Capital(1..d) + CashMovement(Ledger(1..d))

\* statement-sql.ts: the components of a row the statement lists as money in or out.
StatementAmount(i) ==
    IF books[i].what.type = "DISBURSEMENT" THEN books[i].what.principal ELSE Amount(i)
StatementRows == {i \in Ledger(Days) : ~(books[i].what.ofLoan /\ loanDeleted)}
StatementSum(rows) == SumFunctionOnSet([i \in DOMAIN books |-> StatementAmount(i)], rows)
StatementMovement ==
    StatementSum(OfType(StatementRows, {"COLLECTION", "FEE"}))
        - StatementSum(OfType(StatementRows, {"DISBURSEMENT", "REFUND"}))

(***************************************************************************)
(* The fund available is the same on the dashboard, which sums the rows by *)
(* cash direction, and on the financial statement, which sums them by      *)
(* component, unless a loan with rows was deleted or a disbursement was    *)
(* posted with a fee: of the two only the statement leaves those out.      *)
(***************************************************************************)
FundAvailableAgrees ==
    (/\ \A i \in Ledger(Days) : books[i].what.ofLoan => ~loanDeleted
     /\ \A i \in OfType(Ledger(Days), {"DISBURSEMENT"}) : books[i].what.rest = 0)
    => StatementMovement = CashMovement(Ledger(Days))

AllottedBy(b) ==
    SumFunctionOnSet([row \in funding.rows |-> row.amount], {row \in funding.rows : row.by = b})
Allotters == {row.by : row \in funding.rows}

(***************************************************************************)
(* Every rupee of a loan is accounted for to a funder once: an allocation  *)
(* replaces the one before it whole, so that what is allocated is the      *)
(* principal, unless the loan was edited since.  Two that overlapped may   *)
(* both stay, as long as no funder is in both, and the loan is then funded *)
(* twice, each time in full; the next allocation puts that right.          *)
(***************************************************************************)
AllocationsAreWhole ==
    /\ ~funding.outdated => \A b \in Allotters : AllottedBy(b) = principal
    /\ ~funding.mixed => Cardinality(Allotters) <= 1

Posted == {i \in DOMAIN books : books[i].of = 0}
Counted == {i \in DOMAIN books : Counts(i)}

(***************************************************************************)
(* The books keep the ledger's promise: a posting counts until it is       *)
(* reversed, once, however many reversals of it overlap or die half-way,   *)
(* and neither a reconciliation nor the reversal of a reversal changes     *)
(* what counts.                                                            *)
(***************************************************************************)
Contract == INSTANCE LedgerContract WITH posted <- Posted, counted <- Counted
KeepsContract == Contract!Spec
=============================================================================
