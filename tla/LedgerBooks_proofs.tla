-------------------------- MODULE LedgerBooks_proofs --------------------------
(***************************************************************************)
(* What TLAPS proves of the books, for any number of requests in flight,   *)
(* any postings, any days and any allocations.                             *)
(*                                                                         *)
(* A reversal is two writes with anything between them, so its theorem     *)
(* needs to know that a request about to flip a row has a negated row      *)
(* standing against it.  A snapshot is three reads and a write, so its     *)
(* theorem needs to know what the figures read so far are worth as long as *)
(* the books of those days have not moved.  An allocation is a check, a    *)
(* clearing and a commit, so its theorem needs to know that two requests   *)
(* under way at once know of each other.                                   *)
(***************************************************************************)
EXTENDS LedgerBooks, SumTheorems, SequenceTheorems, TLAPS

-----------------------------------------------------------------------------
(* The inductive invariant, in the parts that are proved one by one. *)

\* A negated row says which row it stands against, and negates it.
RowsLinked ==
    \A j \in DOMAIN books : books[j].of # 0 =>
        /\ books[j].of \in DOMAIN books
        /\ books[j].what = Negated(books[books[j].of].what)

\* What the steps of a request have left for the ones to come.
HoldsFor(s) ==
    /\ req[s].at = "posting" => req[s].posting \in Postings /\ req[s].row \in Days
    /\ req[s].at \in {"reversing", "flipping"} => req[s].row \in DOMAIN books
    /\ req[s].at = "flipping" => Reversals(req[s].row) # {}
    /\ req[s].at \in {"opened", "moved", "funded", "cashed"} => req[s].day \in Days
    /\ Allotting(s) => /\ req[s].allotting \in Allocations
                       /\ TotalOf(req[s].allotting) = req[s].opening
                       /\ req[s].row \in 1..begun
                       /\ req[s].day = 0
RequestsHold == \A s \in Sessions : HoldsFor(s)

\* A row is REVERSED exactly if a negated row stands against it, or will be when the
\* request under way goes on, or would have been had the process not died.
Effective(i) ==
    /\ books[i].status = "REVERSED" => Reversals(i) # {}
    /\ Reversals(i) # {} => books[i].status = "REVERSED" \/ UnderReversal(i) \/ died
RowsEffective == \A i \in DOMAIN books : Effective(i)

BooksInv == TypeOK /\ RowsLinked /\ RequestsHold /\ RowsEffective

-----------------------------------------------------------------------------
(* Rows and figures. *)

LEMMA WhatTyped ==
    ASSUME NEW what \in Amounts
    PROVE  /\ what.principal \in Int /\ what.rest \in Int
           /\ Negated(what) \in Amounts
           /\ Negated(what).principal = -what.principal /\ Negated(what).rest = -what.rest
<1> DEFINE half == [what EXCEPT !.principal = -what.principal]
<1>1. /\ what.principal \in Int /\ what.rest \in Int
      /\ half \in Amounts /\ half.principal = -what.principal /\ half.rest = what.rest
  BY DEF Amounts
<1>2. Negated(what) = [half EXCEPT !.rest = -what.rest]
  BY DEF Negated
<1> HIDE DEF half
<1>3. QED
  BY <1>1, <1>2 DEF Amounts

LEMMA RowTyped ==
    ASSUME TypeOK, NEW i \in DOMAIN books
    PROVE  /\ books[i] \in BookRows /\ books[i].what \in Amounts /\ books[i].day \in Days
           /\ books[i].of \in Nat /\ i \in Nat \ {0}
           /\ books[i].what.principal \in Int /\ books[i].what.rest \in Int
           /\ Amount(i) \in Int
<1>1. books[i] \in BookRows /\ i \in Nat \ {0}
  BY DEF TypeOK
<1>2. books[i].what \in Amounts /\ books[i].day \in Days /\ books[i].of \in Nat
  BY <1>1 DEF BookRows
<1>3. QED
  BY <1>1, <1>2, WhatTyped DEF Amount

LEMMA RowsFinite ==
    ASSUME TypeOK, NEW S \in SUBSET DOMAIN books
    PROVE  IsFiniteSet(S)
<1>1. DOMAIN books = 1..Len(books) /\ Len(books) \in Nat
  BY DEF TypeOK
<1>2. IsFiniteSet(1..Len(books))
  BY <1>1, FS_Interval
<1>3. QED
  BY <1>1, <1>2, FS_Subset

LEMMA SumsTyped ==
    ASSUME TypeOK, NEW S \in SUBSET DOMAIN books
    PROVE  /\ IntegersOn([i \in DOMAIN books |-> books[i].what.principal], S)
           /\ IntegersOn([i \in DOMAIN books |-> Amount(i)], S)
           /\ Principal(S) \in Int /\ Sum(S) \in Int
<1> DEFINE f == [i \in DOMAIN books |-> books[i].what.principal]
           g == [i \in DOMAIN books |-> Amount(i)]
<1>1. \A i \in S : f[i] \in Int /\ g[i] \in Int
  BY RowTyped
<1>2. Principal(S) = SumFunctionOnSet(f, S) /\ Sum(S) = SumFunctionOnSet(g, S)
  BY DEF Principal, Sum
<1> HIDE DEF f, g
<1>3. IntegersOn(f, S) /\ IntegersOn(g, S)
  BY <1>1, RowsFinite DEF IntegersOn
<1>4. SumFunctionOnSet(f, S) \in Int /\ SumFunctionOnSet(g, S) \in Int
  BY <1>3, SumIsInteger
<1>5. QED
  BY <1>2, <1>3, <1>4 DEF f, g

LEMMA FiguresTyped ==
    ASSUME TypeOK, NEW days, NEW d
    PROVE  /\ Outstanding(Ledger(days)) \in Int /\ CashMovement(Ledger(days)) \in Int
           /\ Capital(days) \in Int /\ MovedOn(d) \in Int
<1>1. \A types, e : OfType(Ledger(e), types) \in SUBSET DOMAIN books
  BY DEF OfType, Ledger
<1>2. \A types : OfType({i \in DOMAIN books : Counts(i) /\ books[i].day \in days}, types)
                     \in SUBSET DOMAIN books
  BY DEF OfType
<1>3. Outstanding(Ledger(days)) \in Int
  <2>1. \A types : Principal(OfType(Ledger(days), types)) \in Int
    BY <1>1, SumsTyped
  <2>2. QED
    BY <2>1 DEF Outstanding
<1>4. CashMovement(Ledger(days)) \in Int
  <2>1. \A types : Sum(OfType(Ledger(days), types)) \in Int
    BY <1>1, SumsTyped
  <2>2. QED
    BY <2>1 DEF CashMovement
<1>5. Capital(days) \in Int
  <2>1. \A types : Sum(OfType({i \in DOMAIN books : Counts(i) /\ books[i].day \in days}, types))
                       \in Int
    BY <1>2, SumsTyped
  <2>2. QED
    BY <2>1 DEF Capital
<1>6. MovedOn(d) \in Int
  <2>1. \A types : Principal(OfType(Ledger({d}), types)) \in Int
    BY <1>1, SumsTyped
  <2>2. /\ Principal(OfType(Ledger({d}), {"DISBURSEMENT"})) \in Int
        /\ Principal(OfType(Ledger({d}), {"COLLECTION"})) \in Int
        /\ Principal(OfType(Ledger({d}), {"ADJUSTMENT", "REFUND"})) \in Int
    BY <2>1
  <2>3. QED
    BY <2>2 DEF MovedOn
<1>7. QED
  BY <1>3, <1>4, <1>5, <1>6

-----------------------------------------------------------------------------
(* What a step does to the requests and to the rows. *)

\* Request s goes on as r, and the others at most hear that the books have changed.
Proceeds(s, r) ==
    /\ req' \in [Sessions -> Requests]
    /\ req'[s] = r
    /\ \A t \in Sessions \ {s} : req'[t] = req[t] \/ req'[t] = [req[t] EXCEPT !.dirty = TRUE]

LEMMA IdleTyped ==
    /\ Idle \in Requests /\ Idle.at = "idle" /\ Idle.day = 0 /\ ~Idle.dirty /\ Idle.row = 0
BY DEF Idle, Requests, Steps

LEMMA DirtyTyped ==
    ASSUME NEW q \in Requests, NEW later, later = q \/ later = [q EXCEPT !.dirty = TRUE]
    PROVE  /\ later \in Requests
           /\ later.at = q.at /\ later.posting = q.posting /\ later.allotting = q.allotting
           /\ later.row = q.row /\ later.day = q.day /\ later.opening = q.opening
           /\ later.moved = q.moved /\ later.capital = q.capital
           /\ later.cash = q.cash /\ later.seen = q.seen
           /\ later.dirty = q.dirty \/ later.dirty = TRUE
BY DEF Requests

LEMMA AtChanged ==
    ASSUME NEW q \in Requests, NEW at \in Steps
    PROVE  /\ [q EXCEPT !.at = at] \in Requests /\ [q EXCEPT !.at = at].at = at
           /\ [q EXCEPT !.at = at].row = q.row /\ [q EXCEPT !.at = at].day = q.day
           /\ [q EXCEPT !.at = at].dirty = q.dirty
           /\ [q EXCEPT !.at = at].allotting = q.allotting
           /\ [q EXCEPT !.at = at].opening = q.opening
BY DEF Requests

LEMMA TouchedProceeds ==
    ASSUME TypeOK, NEW s \in Sessions, NEW r \in Requests, NEW day, Touched(s, r, day)
    PROVE  Proceeds(s, r) /\ snapshots' \in [Days -> Snapshots \cup {None}]
<1>1. \A t \in Sessions : req[t] \in Requests /\ [req[t] EXCEPT !.dirty = TRUE] \in Requests
  BY DirtyTyped DEF TypeOK
<1>2. /\ req' = [t \in Sessions |-> IF t = s THEN r
                                    ELSE IF req[t].day < day THEN req[t]
                                    ELSE [req[t] EXCEPT !.dirty = TRUE]]
      /\ snapshots' = [d \in Days |-> IF snapshots[d] = None \/ d < day THEN snapshots[d]
                                      ELSE [snapshots[d] EXCEPT !.dirty = TRUE]]
  BY DEF Touched
<1>3. Proceeds(s, r)
  BY <1>1, <1>2 DEF Proceeds
<1>4. \A d \in Days : snapshots'[d] \in Snapshots \cup {None}
  BY <1>2 DEF TypeOK, Snapshots
<1>5. QED
  BY <1>2, <1>3, <1>4

LEMMA UntouchedProceeds ==
    ASSUME TypeOK, NEW s \in Sessions, NEW r \in Requests, req' = [req EXCEPT ![s] = r]
    PROVE  Proceeds(s, r)
BY DEF TypeOK, Proceeds

LEMMA OthersHold ==
    ASSUME TypeOK, RequestsHold, NEW s \in Sessions, NEW r, Proceeds(s, r), HoldsFor(s)',
           begun' \in Nat, begun <= begun',
           \A i \in DOMAIN books : i \in DOMAIN books' /\ books'[i].of = books[i].of
    PROVE  RequestsHold'
<1> SUFFICES ASSUME NEW t \in Sessions, t # s PROVE HoldsFor(t)'
  BY DEF RequestsHold
<1>1. /\ req'[t].at = req[t].at /\ req'[t].posting = req[t].posting
      /\ req'[t].allotting = req[t].allotting /\ req'[t].row = req[t].row
      /\ req'[t].day = req[t].day /\ req'[t].opening = req[t].opening
  <2>1. req[t] \in Requests /\ (req'[t] = req[t] \/ req'[t] = [req[t] EXCEPT !.dirty = TRUE])
    BY DEF TypeOK, Proceeds
  <2>2. QED
    BY <2>1, DirtyTyped
<1>2. HoldsFor(t) /\ begun \in Nat
  BY LedgerBooksAssumption DEF RequestsHold, TypeOK
<1>3. ASSUME req[t].at = "flipping" PROVE Reversals(req[t].row)' # {}
  <2>1. PICK j \in DOMAIN books : books[j].of = req[t].row
    BY <1>2, <1>3 DEF HoldsFor, Reversals
  <2>2. j \in DOMAIN books' /\ books'[j].of = req'[t].row
    BY <1>1, <2>1
  <2>3. QED
    BY <2>2 DEF Reversals
<1>4. QED
  BY <1>1, <1>2, <1>3 DEF HoldsFor, Allotting, TotalOf

LEMMA BooksGrow ==
    ASSUME TypeOK, NEW row \in BookRows, books' = Append(books, row)
    PROVE  \E q \in Nat \ {0} :
              /\ books' \in Seq(BookRows)
              /\ DOMAIN books' = DOMAIN books \cup {q} /\ q \notin DOMAIN books
              /\ q = Len(books) + 1
              /\ books'[q] = row /\ \A i \in DOMAIN books : books'[i] = books[i]
<1>1. books \in Seq(BookRows)
  BY DEF TypeOK
<1>2. WITNESS Len(books) + 1 \in Nat \ {0}
<1>3. QED
  BY <1>1

LEMMA BooksRestated ==
    ASSUME TypeOK, NEW i \in DOMAIN books, NEW status \in {"POSTED", "RECONCILED", "REVERSED"},
           books' = [books EXCEPT ![i] = [books[i] EXCEPT !.status = status]]
    PROVE  /\ books' \in Seq(BookRows) /\ DOMAIN books' = DOMAIN books
           /\ \A j \in DOMAIN books : /\ books'[j].what = books[j].what
                                      /\ books'[j].day = books[j].day
                                      /\ books'[j].key = books[j].key
                                      /\ books'[j].of = books[j].of
                                      /\ j # i => books'[j] = books[j]
           /\ books'[i].status = status
<1>1. books \in Seq(BookRows) /\ \A j \in DOMAIN books : books[j] \in BookRows
  BY DEF TypeOK
<1>2. [books[i] EXCEPT !.status = status] \in BookRows
  BY <1>1 DEF BookRows
<1>3. books' \in Seq(BookRows) /\ DOMAIN books' = DOMAIN books
  BY <1>1, <1>2
<1>4. QED
  BY <1>1, <1>3 DEF BookRows

-----------------------------------------------------------------------------
(* The steps that leave the books alone. *)

LEMMA FlipsGoOn ==
    ASSUME TypeOK, NEW s \in Sessions, NEW r, Proceeds(s, r), req[s].at # "flipping",
           NEW i, UnderReversal(i)
    PROVE  UnderReversal(i)'
<1>1. PICK t \in Sessions : req[t].at = "flipping" /\ req[t].row = i
  BY DEF UnderReversal
<1>2. req[t] \in Requests /\ (req'[t] = req[t] \/ req'[t] = [req[t] EXCEPT !.dirty = TRUE])
  BY <1>1 DEF TypeOK, Proceeds
<1>3. req'[t].at = "flipping" /\ req'[t].row = i
  BY <1>1, <1>2, DirtyTyped
<1>4. QED
  BY <1>3 DEF UnderReversal

LEMMA RequestGoesOn ==
    ASSUME BooksInv, NEW s \in Sessions, NEW r, Proceeds(s, r), UNCHANGED books,
           snapshots' \in [Days -> Snapshots \cup {None}], loanDeleted' \in BOOLEAN,
           principal' \in Principals, funding' \in Funding,
           begun' \in 0..MaxRequests, begun <= begun', died' \in BOOLEAN, died => died',
           req[s].at = "flipping" => died', HoldsFor(s)'
    PROVE  BooksInv'
<1>1. TypeOK'
  BY DEF BooksInv, TypeOK, Proceeds
<1>2. RowsLinked'
  BY DEF BooksInv, RowsLinked
<1>3. RequestsHold'
  <2>1. begun' \in Nat
    BY LedgerBooksAssumption
  <2>2. QED
    BY <2>1, OthersHold DEF BooksInv
<1>4. RowsEffective'
  <2> SUFFICES ASSUME NEW i \in DOMAIN books PROVE Effective(i)'
    BY DEF RowsEffective
  <2>1. Effective(i) /\ Reversals(i)' = Reversals(i)
    BY DEF BooksInv, RowsEffective, Reversals
  <2>2. UnderReversal(i) => UnderReversal(i)' \/ died'
    BY FlipsGoOn DEF BooksInv
  <2>3. QED
    BY <2>1, <2>2 DEF Effective
<1>5. QED
  BY <1>1, <1>2, <1>3, <1>4 DEF BooksInv

LEMMA BegunTyped ==
    ASSUME TypeOK
    PROVE  /\ begun \in 0..MaxRequests /\ begun \in Nat /\ begun <= begun
           /\ NewRequest => /\ begun' \in 0..MaxRequests /\ begun <= begun' /\ begun' = begun + 1
BY LedgerBooksAssumption DEF TypeOK, NewRequest

LEMMA IdleHolds == ASSUME NEW s \in Sessions, req'[s] = Idle PROVE HoldsFor(s)'
BY IdleTyped DEF HoldsFor, Allotting

LEMMA PostLookupKeeps ==
    ASSUME BooksInv, NEW s \in Sessions, NEW p \in Postings, NEW d \in Days, PostLookup(s, p, d)
    PROVE  BooksInv'
<1> DEFINE r == [Idle EXCEPT !.at = "posting", !.posting = p, !.row = d]
<1>1. r \in Requests /\ r.at = "posting" /\ r.posting = p /\ r.row = d
  <2> DEFINE one == [Idle EXCEPT !.at = "posting"]
             two == [one EXCEPT !.posting = p]
  <2>1. one \in Requests /\ one.at = "posting"
    BY IdleTyped, AtChanged DEF Steps
  <2>2. r = [two EXCEPT !.row = d] /\ d \in Nat
    BY LedgerBooksAssumption DEF Days
  <2> HIDE DEF one, r
  <2>3. two \in Requests /\ two.at = "posting" /\ two.posting = p
    BY <2>1 DEF Requests
  <2> HIDE DEF two
  <2>4. QED
    BY <2>2, <2>3 DEF Requests
<1>2. /\ req[s].at = "idle" /\ NewRequest /\ req' = [req EXCEPT ![s] = r]
      /\ UNCHANGED <<books, snapshots, loanDeleted, principal, funding, died>>
  BY DEF PostLookup, Begin, loanVars
<1> HIDE DEF r
<1>3. Proceeds(s, r)
  BY <1>1, <1>2, UntouchedProceeds DEF BooksInv
<1>4. HoldsFor(s)'
  BY <1>1, <1>3 DEF Proceeds, HoldsFor, Allotting
<1>5. QED
  BY <1>2, <1>3, <1>4, BegunTyped, RequestGoesOn DEF BooksInv, TypeOK

LEMMA ReverseReadKeeps ==
    ASSUME BooksInv, NEW s \in Sessions, NEW i \in DOMAIN books, ReverseRead(s, i)
    PROVE  BooksInv'
<1> DEFINE r == [Idle EXCEPT !.at = "reversing", !.row = i]
<1>1. r \in Requests /\ r.at = "reversing" /\ r.row = i
  <2> DEFINE one == [Idle EXCEPT !.at = "reversing"]
  <2>1. one \in Requests /\ one.at = "reversing"
    BY IdleTyped, AtChanged DEF Steps
  <2>2. r = [one EXCEPT !.row = i] /\ i \in Nat
    BY RowTyped DEF BooksInv
  <2> HIDE DEF one, r
  <2>3. QED
    BY <2>1, <2>2 DEF Requests
<1>2. /\ req[s].at = "idle" /\ NewRequest /\ req' = [req EXCEPT ![s] = r]
      /\ UNCHANGED <<books, snapshots, loanDeleted, principal, funding, died>>
  BY DEF ReverseRead, Begin, loanVars
<1> HIDE DEF r
<1>3. Proceeds(s, r)
  BY <1>1, <1>2, UntouchedProceeds DEF BooksInv
<1>4. HoldsFor(s)'
  BY <1>1, <1>2, <1>3 DEF Proceeds, HoldsFor, Allotting
<1>5. QED
  BY <1>2, <1>3, <1>4, BegunTyped, RequestGoesOn DEF BooksInv, TypeOK

LEMMA EndsKeep ==
    ASSUME BooksInv, NEW s \in Sessions, PostConflict(s) \/ ReverseDies(s) \/ AllotFails(s)
    PROVE  BooksInv'
<1>1. /\ req' = [req EXCEPT ![s] = Idle]
      /\ UNCHANGED <<books, snapshots, loanDeleted, principal, funding, begun>>
      /\ req[s].at = "flipping" => died'
      /\ died' \in BOOLEAN /\ (died => died')
  BY DEF PostConflict, ReverseDies, AllotFails, Finished, Untouched, loanVars, BooksInv, TypeOK
<1>2. Proceeds(s, Idle)
  BY <1>1, IdleTyped, UntouchedProceeds DEF BooksInv
<1>3. HoldsFor(s)'
  BY <1>2, IdleHolds DEF Proceeds
<1>4. QED
  BY <1>1, <1>2, <1>3, BegunTyped, RequestGoesOn DEF BooksInv, TypeOK

LEMMA SnapshotReadsKeep ==
    ASSUME BooksInv, NEW s \in Sessions,
           \/ \E d \in Days : SnapshotOpening(s, d)
           \/ SnapshotMoved(s) \/ SnapshotCapital(s) \/ SnapshotCash(s)
    PROVE  BooksInv'
<1>1. TypeOK /\ req[s] \in Requests /\ HoldsFor(s)
  BY DEF BooksInv, TypeOK, RequestsHold
<1>2. CASE \E d \in Days : SnapshotOpening(s, d)
  <2>1. PICK d \in Days : SnapshotOpening(s, d)
    BY <1>2
  <2> DEFINE o == Outstanding(Ledger(1..d - 1))
             r == [Idle EXCEPT !.at = "opened", !.day = d, !.opening = o]
  <2>2. o \in Int
    BY <1>1, FiguresTyped
  <2>3. /\ req[s].at = "idle" /\ NewRequest /\ req' = [req EXCEPT ![s] = r]
        /\ UNCHANGED <<books, snapshots, loanDeleted, principal, funding, died>>
    BY <2>1 DEF SnapshotOpening, Begin, loanVars
  <2> HIDE DEF o
  <2>4. r \in Requests /\ r.at = "opened" /\ r.day = d
    <3> DEFINE one == [Idle EXCEPT !.at = "opened"]
               two == [one EXCEPT !.day = d]
    <3>1. one \in Requests /\ one.at = "opened"
      BY IdleTyped, AtChanged DEF Steps
    <3>2. r = [two EXCEPT !.opening = o]
      OBVIOUS
    <3> HIDE DEF one, r
    <3>3. two \in Requests /\ two.at = "opened" /\ two.day = d
      BY <3>1 DEF Requests
    <3> HIDE DEF two
    <3>4. QED
      BY <2>2, <3>2, <3>3 DEF Requests
  <2> HIDE DEF r
  <2>5. Proceeds(s, r)
    BY <1>1, <2>3, <2>4, UntouchedProceeds
  <2>6. HoldsFor(s)'
    BY <2>4, <2>5 DEF Proceeds, HoldsFor, Allotting
  <2>7. QED
    BY <2>3, <2>5, <2>6, BegunTyped, RequestGoesOn DEF BooksInv, TypeOK
<1>3. ASSUME NEW at \in {"moved", "funded", "cashed"}, NEW r, r \in Requests, r.at = at, r.day = req[s].day,
             req[s].at \in {"opened", "moved", "funded"}, Untouched(s, r),
             UNCHANGED <<books, loanVars, begun, died>>
      PROVE  BooksInv'
  <2>1. Proceeds(s, r) /\ UNCHANGED <<books, snapshots, loanDeleted, principal, funding, begun, died>>
    BY <1>1, <1>3, UntouchedProceeds DEF Untouched, loanVars
  <2>2. HoldsFor(s)'
    BY <1>1, <1>3, <2>1 DEF Proceeds, HoldsFor, Allotting
  <2>3. QED
    BY <1>1, <1>3, <2>1, <2>2, BegunTyped, RequestGoesOn DEF BooksInv, TypeOK
<1>4. CASE SnapshotMoved(s)
  <2> DEFINE m == MovedOn(req[s].day)
             r == [req[s] EXCEPT !.at = "moved", !.moved = m]
  <2>1. m \in Int
    BY <1>1, FiguresTyped
  <2>2. req[s].at = "opened" /\ Untouched(s, r) /\ UNCHANGED <<books, loanVars, begun, died>>
    BY <1>4 DEF SnapshotMoved
  <2> HIDE DEF m
  <2>3. r \in Requests /\ r.at = "moved" /\ r.day = req[s].day
    BY <1>1, <2>1 DEF Requests, Steps
  <2> HIDE DEF r
  <2>4. QED
    BY <1>3, <2>2, <2>3
<1>5. CASE SnapshotCapital(s)
  <2> DEFINE c == Capital(1..req[s].day)
             r == [req[s] EXCEPT !.at = "funded", !.capital = c]
  <2>1. c \in Int
    BY <1>1, FiguresTyped
  <2>2. req[s].at = "moved" /\ Untouched(s, r) /\ UNCHANGED <<books, loanVars, begun, died>>
    BY <1>5 DEF SnapshotCapital
  <2> HIDE DEF c
  <2>3. r \in Requests /\ r.at = "funded" /\ r.day = req[s].day
    BY <1>1, <2>1 DEF Requests, Steps
  <2> HIDE DEF r
  <2>4. QED
    BY <1>3, <2>2, <2>3
<1>6. CASE SnapshotCash(s)
  <2> DEFINE c == CashMovement(Ledger(1..req[s].day))
             r == [req[s] EXCEPT !.at = "cashed", !.cash = c]
  <2>1. c \in Int
    BY <1>1, FiguresTyped
  <2>2. req[s].at = "funded" /\ Untouched(s, r) /\ UNCHANGED <<books, loanVars, begun, died>>
    BY <1>6 DEF SnapshotCash
  <2> HIDE DEF c
  <2>3. r \in Requests /\ r.at = "cashed" /\ r.day = req[s].day
    BY <1>1, <2>1 DEF Requests, Steps
  <2> HIDE DEF r
  <2>4. QED
    BY <1>3, <2>2, <2>3
<1>7. QED
  BY <1>2, <1>4, <1>5, <1>6

LEMMA SnapshotUpsertKeeps ==
    ASSUME BooksInv, NEW s \in Sessions, SnapshotUpsert(s)
    PROVE  BooksInv'
<1> DEFINE r == req[s]
           old == snapshots[r.day]
           fund == r.capital + r.cash
           locked == IF old = None THEN FALSE ELSE old.locked
           new == [opening |-> r.opening, closing |-> r.opening + r.moved, fund |-> fund,
                   locked |-> locked, dirty |-> r.dirty]
<1>1. TypeOK /\ r \in Requests /\ HoldsFor(s)
  BY DEF BooksInv, TypeOK, RequestsHold
<1>2. /\ r.at = "cashed" /\ snapshots' = [snapshots EXCEPT ![r.day] = new]
      /\ req' = [req EXCEPT ![s] = Idle]
      /\ UNCHANGED <<books, loanDeleted, principal, funding, begun, died>>
  BY DEF SnapshotUpsert, loanVars
<1>3. r.day \in Days
  BY <1>1, <1>2 DEF HoldsFor
<1>4. new \in Snapshots
  <2>1. fund \in Int /\ r.opening \in Int /\ r.opening + r.moved \in Int /\ r.dirty \in BOOLEAN
    BY <1>1 DEF Requests
  <2>2. locked \in BOOLEAN
    BY <1>1, <1>3 DEF TypeOK, Snapshots
  <2> HIDE DEF fund, locked, r
  <2>3. QED
    BY <2>1, <2>2 DEF Snapshots
<1> HIDE DEF new, r
<1>5. snapshots' \in [Days -> Snapshots \cup {None}]
  BY <1>1, <1>2, <1>3, <1>4 DEF TypeOK
<1>6. Proceeds(s, Idle)
  BY <1>1, <1>2, IdleTyped, UntouchedProceeds
<1>7. HoldsFor(s)'
  BY <1>6, IdleHolds DEF Proceeds
<1>8. QED
  BY <1>1, <1>2, <1>5, <1>6, <1>7, BegunTyped, RequestGoesOn DEF r, TypeOK

LEMMA AllotReadKeeps ==
    ASSUME BooksInv, NEW s \in Sessions, NEW a \in Allocations, AllotRead(s, a)
    PROVE  BooksInv'
<1> DEFINE others == {t \in Sessions \ {s} : Allotting(t)}
           r == [Idle EXCEPT !.at = "allotting", !.allotting = a, !.row = begun + 1,
                             !.opening = principal, !.dirty = others # {}]
<1>1. TypeOK /\ begun + 1 \in Nat /\ principal \in Int
  BY BegunTyped, LedgerBooksAssumption DEF BooksInv, TypeOK
<1>2. /\ r \in Requests /\ r.at = "allotting" /\ r.allotting = a /\ r.row = begun + 1
      /\ r.opening = principal /\ r.day = 0 /\ r.dirty = (others # {})
  <2> DEFINE one == [Idle EXCEPT !.at = "allotting"]
             two == [one EXCEPT !.allotting = a]
             three == [two EXCEPT !.row = begun + 1]
             four == [three EXCEPT !.opening = principal]
  <2>1. one \in Requests /\ one.at = "allotting" /\ one.day = 0
    BY IdleTyped, AtChanged DEF Steps
  <2>2. r = [four EXCEPT !.dirty = others # {}] /\ (others # {}) \in BOOLEAN
    OBVIOUS
  <2> HIDE DEF one, r, others
  <2>3. two \in Requests /\ two.at = "allotting" /\ two.day = 0 /\ two.allotting = a
    BY <2>1 DEF Requests
  <2> HIDE DEF two
  <2>4. /\ three \in Requests /\ three.at = "allotting" /\ three.day = 0 /\ three.allotting = a
        /\ three.row = begun + 1
    BY <1>1, <2>3 DEF Requests
  <2> HIDE DEF three
  <2>5. /\ four \in Requests /\ four.at = "allotting" /\ four.day = 0 /\ four.allotting = a
        /\ four.row = begun + 1 /\ four.opening = principal
    BY <1>1, <2>4 DEF Requests
  <2> HIDE DEF four
  <2>6. QED
    BY <2>2, <2>5 DEF Requests
<1>3. /\ req[s].at = "idle" /\ TotalOf(a) = principal /\ NewRequest
      /\ UNCHANGED <<books, snapshots, loanDeleted, principal, funding, died>>
      /\ req' = [t \in Sessions |-> IF t = s THEN r
                                    ELSE IF t \in others THEN [req[t] EXCEPT !.dirty = TRUE]
                                    ELSE req[t]]
  BY DEF AllotRead, loanVars
<1>4. \A t \in Sessions : req[t] \in Requests /\ [req[t] EXCEPT !.dirty = TRUE] \in Requests
  BY <1>1, DirtyTyped DEF TypeOK
<1> HIDE DEF r, others
<1>5. Proceeds(s, r)
  BY <1>2, <1>3, <1>4 DEF Proceeds
<1>6. begun' = begun + 1 /\ begun' \in 0..MaxRequests /\ begun <= begun' /\ begun \in Nat
  BY <1>1, <1>3, BegunTyped
<1>7. HoldsFor(s)'
  BY <1>1, <1>2, <1>3, <1>5, <1>6 DEF Proceeds, HoldsFor, Allotting, TotalOf
<1>8. QED
  BY <1>1, <1>3, <1>5, <1>6, <1>7, RequestGoesOn DEF TypeOK

LEMMA AllotClearKeeps ==
    ASSUME BooksInv, NEW s \in Sessions, AllotClear(s)
    PROVE  BooksInv'
<1> DEFINE one == [req[s] EXCEPT !.at = "clearing"]
           r == [one EXCEPT !.seen = Cleared]
<1>1. TypeOK /\ req[s] \in Requests /\ HoldsFor(s)
  BY DEF BooksInv, TypeOK, RequestsHold
<1>2. /\ req[s].at = "allotting" /\ req' = [req EXCEPT ![s] = r]
      /\ UNCHANGED <<books, snapshots, loanDeleted, principal, funding, begun, died>>
  BY DEF AllotClear, Untouched, loanVars
<1>3. Cleared \in SUBSET Nat
  BY <1>1 DEF TypeOK, Funding, Cleared
<1>4. /\ one \in Requests /\ one.at = "clearing" /\ one.allotting = req[s].allotting
      /\ one.row = req[s].row /\ one.day = req[s].day /\ one.opening = req[s].opening
  BY <1>1, AtChanged DEF Steps
<1> HIDE DEF one
<1>5. /\ r \in Requests /\ r.at = "clearing" /\ r.allotting = req[s].allotting
      /\ r.row = req[s].row /\ r.day = req[s].day /\ r.opening = req[s].opening
  BY <1>3, <1>4 DEF Requests
<1> HIDE DEF r
<1>6. Proceeds(s, r)
  BY <1>1, <1>2, <1>5, UntouchedProceeds
<1>7. HoldsFor(s)'
  BY <1>1, <1>2, <1>5, <1>6 DEF Proceeds, HoldsFor, Allotting, TotalOf
<1>8. QED
  BY <1>1, <1>2, <1>6, <1>7, BegunTyped, RequestGoesOn DEF TypeOK

LEMMA AllottedTyped ==
    ASSUME TypeOK, NEW s \in Sessions, req[s].allotting \in Allocations
    PROVE  /\ Kept(s) \in SUBSET funding.rows
           /\ Kept(s) \cup Allotted(s)
                \in SUBSET [funder : UNION {DOMAIN a : a \in Allocations}, amount : Nat \ {0}, by : Nat]
<1> DEFINE a == req[s].allotting
<1>1. a \in Allocations /\ req[s].row \in Nat
  BY DEF TypeOK, Requests
<1> HIDE DEF a
<1>2. ASSUME NEW f \in DOMAIN a
      PROVE  /\ a[f] \in Nat \ {0}
             /\ f \in UNION {DOMAIN b : b \in Allocations}
  <2>1. a \in [DOMAIN a -> Nat \ {0}]
    BY <1>1, LedgerBooksAssumption
  <2>2. QED
    BY <1>1, <2>1
<1>3. Allotted(s) \in SUBSET [funder : UNION {DOMAIN b : b \in Allocations}, amount : Nat \ {0}, by : Nat]
  BY <1>1, <1>2 DEF Allotted, a
<1>4. Kept(s) \in SUBSET funding.rows
  BY DEF Kept
<1>5. funding.rows \in SUBSET [funder : UNION {DOMAIN b : b \in Allocations}, amount : Nat \ {0}, by : Nat]
  BY DEF TypeOK, Funding
<1>6. QED
  BY <1>3, <1>4, <1>5

LEMMA AllotCommitKeeps ==
    ASSUME BooksInv, NEW s \in Sessions, AllotCommit(s)
    PROVE  BooksInv'
<1> DEFINE new == Kept(s) \cup Allotted(s)
           outdated == req[s].opening # principal \/ (funding.outdated /\ Kept(s) # {})
<1>1. TypeOK /\ req[s] \in Requests /\ HoldsFor(s) /\ funding \in Funding
  BY DEF BooksInv, TypeOK, RequestsHold
<1>2. /\ req[s].at = "clearing" /\ req' = [req EXCEPT ![s] = Idle]
      /\ funding' = [rows |-> new, mixed |-> req[s].dirty, outdated |-> outdated]
      /\ UNCHANGED <<books, snapshots, loanDeleted, principal, begun, died>>
  BY DEF AllotCommit, Untouched
<1>3. new \in SUBSET [funder : UNION {DOMAIN a : a \in Allocations}, amount : Nat \ {0}, by : Nat]
  BY <1>1, <1>2, AllottedTyped DEF HoldsFor, Allotting
<1>4. outdated \in BOOLEAN /\ req[s].dirty \in BOOLEAN
  BY <1>1 DEF Requests
<1> HIDE DEF new, outdated
<1>5. funding' \in Funding
  BY <1>2, <1>3, <1>4 DEF Funding
<1>6. Proceeds(s, Idle)
  BY <1>1, <1>2, IdleTyped, UntouchedProceeds
<1>7. HoldsFor(s)'
  BY <1>6, IdleHolds DEF Proceeds
<1>8. QED
  BY <1>1, <1>2, <1>5, <1>6, <1>7, BegunTyped, RequestGoesOn DEF TypeOK

(* Nor do the steps that no request is left with. *)
LEMMA OfficeKeeps ==
    ASSUME BooksInv,
           \/ \E d \in Days : LockDay(d) \/ UnlockDay(d)
           \/ DeleteLoan
           \/ \E p \in Principals : EditLoan(p)
           \/ UNCHANGED vars
    PROVE  BooksInv'
<1>1. TypeOK
  BY DEF BooksInv
<1>2. UNCHANGED <<books, req, died>> /\ begun' \in 0..MaxRequests /\ begun <= begun' /\ begun' \in Nat
  BY <1>1, BegunTyped, LedgerBooksAssumption
     DEF LockDay, UnlockDay, DeleteLoan, EditLoan, vars
<1>3. loanDeleted' \in BOOLEAN /\ principal' \in Principals
  BY <1>1 DEF LockDay, UnlockDay, DeleteLoan, EditLoan, vars, loanVars, TypeOK
<1>4. snapshots' \in [Days -> Snapshots \cup {None}]
  <2>1. CASE \E d \in Days : LockDay(d) \/ UnlockDay(d)
    <3>1. PICK d \in Days : LockDay(d) \/ UnlockDay(d)
      BY <2>1
    <3>2. PICK lock \in BOOLEAN : snapshots' = [snapshots EXCEPT ![d].locked = lock]
      BY <3>1 DEF LockDay, UnlockDay
    <3>3. snapshots[d] \in Snapshots
      BY <1>1, <3>1 DEF LockDay, UnlockDay, TypeOK
    <3>4. [snapshots[d] EXCEPT !.locked = lock] \in Snapshots
      BY <3>3 DEF Snapshots
    <3>5. snapshots' = [snapshots EXCEPT ![d] = [snapshots[d] EXCEPT !.locked = lock]]
      BY <3>2
    <3>6. QED
      BY <1>1, <3>4, <3>5 DEF TypeOK
  <2>2. CASE ~(\E d \in Days : LockDay(d) \/ UnlockDay(d))
    BY <1>1, <2>2 DEF DeleteLoan, EditLoan, vars, TypeOK
  <2>3. QED
    BY <2>1, <2>2
<1>5. funding' \in Funding
  <2>1. CASE \E p \in Principals : EditLoan(p)
    <3>1. funding' = [funding EXCEPT !.outdated = funding.rows # {}] /\ funding \in Funding
      BY <1>1, <2>1 DEF EditLoan, TypeOK
    <3>2. QED
      BY <3>1 DEF Funding
  <2>2. CASE ~(\E p \in Principals : EditLoan(p))
    BY <1>1, <2>2 DEF LockDay, UnlockDay, DeleteLoan, vars, loanVars, TypeOK
  <2>3. QED
    BY <2>1, <2>2
<1>6. TypeOK'
  BY <1>1, <1>2, <1>3, <1>4, <1>5 DEF TypeOK
<1>7. RowsLinked' /\ RowsEffective'
  BY <1>2 DEF BooksInv, RowsLinked, RowsEffective, Effective, Reversals, UnderReversal
<1>8. RequestsHold'
  <2> SUFFICES ASSUME NEW t \in Sessions PROVE HoldsFor(t)'
    BY DEF RequestsHold
  <2>1. HoldsFor(t)
    BY DEF BooksInv, RequestsHold
  <2>2. begun \in Nat
    BY <1>1, BegunTyped
  <2>3. QED
    BY <1>2, <2>1, <2>2 DEF HoldsFor, Reversals, Allotting, TotalOf
<1>9. QED
  BY <1>6, <1>7, <1>8 DEF BooksInv

-----------------------------------------------------------------------------
(* The steps that change the books. *)

LEMMA PostInsertKeeps ==
    ASSUME BooksInv, NEW s \in Sessions, PostInsert(s)
    PROVE  BooksInv'
<1> DEFINE row == NewRow(req[s].posting, req[s].row)
<1>1. TypeOK /\ RowsLinked /\ HoldsFor(s) /\ RequestsHold
  BY DEF BooksInv, RequestsHold
<1>2. /\ req[s].at = "posting" /\ books' = Append(books, row)
      /\ Touched(s, Idle, req[s].row)
      /\ UNCHANGED <<loanDeleted, principal, funding, begun, died>>
  BY DEF PostInsert, loanVars
<1>3. req[s].posting \in Postings /\ req[s].row \in Days
  BY <1>1, <1>2 DEF HoldsFor
<1>4. row \in BookRows /\ row.of = 0 /\ row.status = "POSTED"
  <2>1. req[s].posting.what \in Amounts /\ req[s].posting.key \in Keys \cup {None}
    BY <1>3, LedgerBooksAssumption
  <2>2. QED
    BY <1>3, <2>1 DEF NewRow, BookRows
<1> HIDE DEF row
<1>5. PICK q \in Nat \ {0} :
          /\ books' \in Seq(BookRows)
          /\ DOMAIN books' = DOMAIN books \cup {q} /\ q \notin DOMAIN books
          /\ books'[q] = row /\ \A i \in DOMAIN books : books'[i] = books[i]
  BY <1>1, <1>2, <1>4, BooksGrow
<1>6. Proceeds(s, Idle) /\ snapshots' \in [Days -> Snapshots \cup {None}]
  BY <1>1, <1>2, IdleTyped, TouchedProceeds
<1>7. TypeOK'
  BY <1>1, <1>2, <1>5, <1>6 DEF TypeOK, Proceeds
<1>8. RowsLinked'
  BY <1>1, <1>4, <1>5 DEF RowsLinked
<1>9. RequestsHold'
  <2>1. HoldsFor(s)'
    BY <1>6, IdleHolds DEF Proceeds
  <2>2. begun' \in Nat /\ begun <= begun'
    BY <1>1, <1>2, BegunTyped
  <2>3. QED
    BY <1>1, <1>5, <1>6, <2>1, <2>2, OthersHold
<1>10. RowsEffective'
  <2> SUFFICES ASSUME NEW i \in DOMAIN books' PROVE Effective(i)'
    BY DEF RowsEffective
  <2>1. CASE i = q
    <3>1. Reversals(i)' = {}
      BY <1>1, <1>4, <1>5, <2>1 DEF Reversals, RowsLinked
    <3>2. QED
      BY <1>4, <1>5, <2>1, <3>1 DEF Effective
  <2>2. CASE i # q
    <3>1. i \in DOMAIN books /\ i # 0 /\ Effective(i)
      BY <1>1, <1>5, <2>2, RowTyped DEF BooksInv, RowsEffective
    <3>2. Reversals(i)' = Reversals(i) /\ books'[i].status = books[i].status
      BY <1>4, <1>5, <3>1 DEF Reversals
    <3>3. UnderReversal(i) => UnderReversal(i)'
      BY <1>1, <1>2, <1>6, FlipsGoOn
    <3>4. QED
      BY <1>2, <3>1, <3>2, <3>3 DEF Effective
  <2>3. QED
    BY <2>1, <2>2
<1>11. QED
  BY <1>7, <1>8, <1>9, <1>10 DEF BooksInv

LEMMA ReverseInsertKeeps ==
    ASSUME BooksInv, NEW s \in Sessions, ReverseInsert(s)
    PROVE  BooksInv'
<1> DEFINE i == req[s].row
           row == [what |-> Negated(books[i].what), day |-> LastDay, key |-> None,
                   status |-> "POSTED", of |-> i]
           r == [req[s] EXCEPT !.at = "flipping"]
<1>1. TypeOK /\ RowsLinked /\ HoldsFor(s) /\ RequestsHold /\ req[s] \in Requests
  BY DEF BooksInv, RequestsHold, TypeOK
<1>2. /\ req[s].at = "reversing" /\ books' = Append(books, row)
      /\ req' = [req EXCEPT ![s] = r]
      /\ UNCHANGED <<snapshots, loanDeleted, principal, funding, begun, died>>
  BY DEF ReverseInsert, Untouched, loanVars
<1>3. i \in DOMAIN books
  BY <1>1, <1>2 DEF HoldsFor
<1>4. row \in BookRows /\ row.of = i /\ row.status = "POSTED" /\ row.what = Negated(books[i].what)
  <2>1. Negated(books[i].what) \in Amounts /\ i \in Nat
    BY <1>1, <1>3, RowTyped, WhatTyped
  <2>2. LastDay \in Days
    BY LedgerBooksAssumption DEF Days
  <2>3. QED
    BY <2>1, <2>2 DEF BookRows
<1>5. r \in Requests /\ r.at = "flipping" /\ r.row = i
  BY <1>1, AtChanged DEF Steps
<1> HIDE DEF row, r, i
<1>6. PICK q \in Nat \ {0} :
          /\ books' \in Seq(BookRows)
          /\ DOMAIN books' = DOMAIN books \cup {q} /\ q \notin DOMAIN books
          /\ books'[q] = row /\ \A k \in DOMAIN books : books'[k] = books[k]
  BY <1>1, <1>2, <1>4, BooksGrow
<1>7. Proceeds(s, r)
  BY <1>1, <1>2, <1>5, UntouchedProceeds
<1>8. TypeOK'
  BY <1>1, <1>2, <1>6, <1>7 DEF TypeOK, Proceeds
<1>9. RowsLinked'
  BY <1>1, <1>3, <1>4, <1>6 DEF RowsLinked
<1>10. RequestsHold'
  <2>1. req'[s].at = "flipping" /\ req'[s].row = i
    BY <1>5, <1>7 DEF Proceeds
  <2>2. HoldsFor(s)'
    <3>1. i \in DOMAIN books'
      BY <1>3, <1>6
    <3>2. \E j \in DOMAIN books' : books'[j].of = req'[s].row
      BY <1>4, <1>6, <2>1
    <3>3. QED
      BY <2>1, <3>1, <3>2 DEF HoldsFor, Allotting, Reversals
  <2>3. begun' \in Nat /\ begun <= begun'
    BY <1>1, <1>2, BegunTyped
  <2>4. QED
    BY <1>1, <1>6, <1>7, <2>2, <2>3, OthersHold
<1>11. RowsEffective'
  <2> SUFFICES ASSUME NEW k \in DOMAIN books' PROVE Effective(k)'
    BY DEF RowsEffective
  <2>1. CASE k = q
    <3>1. Reversals(k)' = {}
      BY <1>1, <1>3, <1>4, <1>6, <2>1 DEF Reversals, RowsLinked
    <3>2. QED
      BY <1>4, <1>6, <2>1, <3>1 DEF Effective
  <2>2. CASE k # q
    <3>1. k \in DOMAIN books /\ Effective(k)
      BY <1>6, <2>2 DEF BooksInv, RowsEffective
    <3>2. books'[k].status = books[k].status /\ (k # i => Reversals(k)' = Reversals(k))
      BY <1>4, <1>6, <3>1 DEF Reversals
    <3>3. UnderReversal(k) => UnderReversal(k)'
      BY <1>1, <1>2, <1>7, FlipsGoOn
    <3>4. CASE k = i
      <4>1. q \in Reversals(k)'
        BY <1>4, <1>6, <3>4 DEF Reversals
      <4>2. UnderReversal(k)'
        BY <1>5, <1>7, <3>4 DEF UnderReversal, Proceeds
      <4>3. QED
        BY <4>1, <4>2 DEF Effective
    <3>5. CASE k # i
      BY <1>2, <3>1, <3>2, <3>3, <3>5 DEF Effective
    <3>6. QED
      BY <3>4, <3>5
  <2>3. QED
    BY <2>1, <2>2
<1>12. QED
  BY <1>8, <1>9, <1>10, <1>11 DEF BooksInv

LEMMA ReverseFlipKeeps ==
    ASSUME BooksInv, NEW s \in Sessions, ReverseFlip(s)
    PROVE  BooksInv'
<1> DEFINE i == req[s].row
<1>1. TypeOK /\ RowsLinked /\ HoldsFor(s) /\ RequestsHold
  BY DEF BooksInv, RequestsHold
<1>2. /\ req[s].at = "flipping"
      /\ books' = [books EXCEPT ![i] = [books[i] EXCEPT !.status = "REVERSED"]]
      /\ Touched(s, Idle, books[i].day) \/ Untouched(s, Idle)
      /\ UNCHANGED <<loanDeleted, principal, funding, begun, died>>
  BY DEF ReverseFlip, Flipped, loanVars
<1>3. i \in DOMAIN books /\ Reversals(i) # {}
  BY <1>1, <1>2 DEF HoldsFor
<1> HIDE DEF i
<1>4. /\ books' \in Seq(BookRows) /\ DOMAIN books' = DOMAIN books
      /\ \A j \in DOMAIN books : /\ books'[j].what = books[j].what
                                 /\ books'[j].of = books[j].of
                                 /\ j # i => books'[j] = books[j]
      /\ books'[i].status = "REVERSED"
  BY <1>1, <1>2, <1>3, BooksRestated
<1>5. Proceeds(s, Idle) /\ snapshots' \in [Days -> Snapshots \cup {None}]
  BY <1>1, <1>2, IdleTyped, TouchedProceeds, UntouchedProceeds DEF Untouched, TypeOK
<1>6. TypeOK'
  BY <1>1, <1>2, <1>4, <1>5 DEF TypeOK, Proceeds
<1>7. RowsLinked'
  BY <1>1, <1>4 DEF RowsLinked
<1>8. RequestsHold'
  <2>1. HoldsFor(s)'
    BY <1>5, IdleHolds DEF Proceeds
  <2>2. begun' \in Nat /\ begun <= begun'
    BY <1>1, <1>2, BegunTyped
  <2>3. QED
    BY <1>1, <1>4, <1>5, <2>1, <2>2, OthersHold
<1>9. RowsEffective'
  <2> SUFFICES ASSUME NEW k \in DOMAIN books' PROVE Effective(k)'
    BY DEF RowsEffective
  <2>1. k \in DOMAIN books /\ Effective(k) /\ Reversals(k)' = Reversals(k)
    BY <1>4 DEF BooksInv, RowsEffective, Reversals
  <2>2. CASE k = i
    BY <1>3, <1>4, <2>1, <2>2 DEF Effective
  <2>3. CASE k # i
    <3>1. UnderReversal(k) => UnderReversal(k)'
      <4>1. HAVE UnderReversal(k)
      <4>2. PICK t \in Sessions : req[t].at = "flipping" /\ req[t].row = k
        BY <4>1 DEF UnderReversal
      <4>3. t # s
        BY <2>3, <4>2 DEF i
      <4>4. req[t] \in Requests /\ (req'[t] = req[t] \/ req'[t] = [req[t] EXCEPT !.dirty = TRUE])
        BY <1>1, <1>5, <4>3 DEF TypeOK, Proceeds
      <4>5. req'[t].at = "flipping" /\ req'[t].row = k
        BY <4>2, <4>4, DirtyTyped
      <4>6. QED
        BY <4>5 DEF UnderReversal
    <3>2. books'[k].status = books[k].status
      BY <1>4, <2>1, <2>3
    <3>3. QED
      BY <1>2, <2>1, <3>1, <3>2 DEF Effective
  <2>4. QED
    BY <2>2, <2>3
<1>10. QED
  BY <1>6, <1>7, <1>8, <1>9 DEF BooksInv

LEMMA ReconcileKeeps ==
    ASSUME BooksInv, NEW i \in DOMAIN books, Reconcile(i)
    PROVE  BooksInv'
<1>1. TypeOK /\ RowsLinked /\ RequestsHold
  BY DEF BooksInv
<1>2. /\ books[i].status = "POSTED"
      /\ books' = [books EXCEPT ![i] = [books[i] EXCEPT !.status = "RECONCILED"]]
      /\ NewRequest
      /\ UNCHANGED <<snapshots, loanDeleted, principal, funding, req, died>>
  BY DEF Reconcile, Reconcilable, loanVars
<1>3. /\ books' \in Seq(BookRows) /\ DOMAIN books' = DOMAIN books
      /\ \A j \in DOMAIN books : /\ books'[j].what = books[j].what
                                 /\ books'[j].of = books[j].of
                                 /\ j # i => books'[j] = books[j]
      /\ books'[i].status = "RECONCILED"
  BY <1>1, <1>2, BooksRestated
<1>4. begun' \in 0..MaxRequests /\ begun <= begun' /\ begun' \in Nat /\ begun \in Nat
  BY <1>1, <1>2, BegunTyped, LedgerBooksAssumption
<1>5. TypeOK'
  BY <1>1, <1>2, <1>3, <1>4 DEF TypeOK
<1>6. RowsLinked'
  BY <1>1, <1>3 DEF RowsLinked
<1>7. RequestsHold'
  <2> SUFFICES ASSUME NEW t \in Sessions PROVE HoldsFor(t)'
    BY DEF RequestsHold
  <2>1. HoldsFor(t)
    BY <1>1 DEF RequestsHold
  <2>2. ASSUME req[t].at = "flipping" PROVE Reversals(req[t].row)' # {}
    <3>1. PICK j \in DOMAIN books : books[j].of = req[t].row
      BY <2>1, <2>2 DEF HoldsFor, Reversals
    <3>2. j \in DOMAIN books' /\ books'[j].of = req'[t].row
      BY <1>2, <1>3, <3>1
    <3>3. QED
      BY <3>2 DEF Reversals
  <2>3. QED
    BY <1>2, <1>3, <1>4, <2>1, <2>2 DEF HoldsFor, Allotting, TotalOf
<1>8. RowsEffective'
  <2> SUFFICES ASSUME NEW k \in DOMAIN books' PROVE Effective(k)'
    BY DEF RowsEffective
  <2>1. k \in DOMAIN books /\ Effective(k) /\ Reversals(k)' = Reversals(k)
    BY <1>3 DEF BooksInv, RowsEffective, Reversals
  <2>2. UnderReversal(k)' = UnderReversal(k)
    BY <1>2 DEF UnderReversal
  <2>3. books'[k].status = "REVERSED" <=> books[k].status = "REVERSED"
    BY <1>2, <1>3, <2>1
  <2>4. QED
    BY <1>2, <2>1, <2>2, <2>3 DEF Effective
<1>9. QED
  BY <1>5, <1>6, <1>7, <1>8 DEF BooksInv

LEMMA InitBooks == Init => BooksInv
<1> SUFFICES ASSUME Init PROVE BooksInv
  OBVIOUS
<1>1. \A s \in Sessions : req[s] = Idle
  BY DEF Init
<1>2. books = <<>> /\ begun = 0 /\ books \in Seq(BookRows)
  BY DEF Init
<1>3. TypeOK
  <2>1. funding \in Funding
    BY DEF Init, Funding
  <2>2. req \in [Sessions -> Requests] /\ begun \in 0..MaxRequests
    BY IdleTyped, LedgerBooksAssumption DEF Init
  <2>3. snapshots \in [Days -> Snapshots \cup {None}]
    BY DEF Init
  <2>4. QED
    BY <1>2, <2>1, <2>2, <2>3 DEF Init, TypeOK
<1>4. RowsLinked /\ RowsEffective
  BY <1>2 DEF RowsLinked, RowsEffective
<1>5. RequestsHold
  BY <1>1, IdleTyped DEF RequestsHold, HoldsFor, Allotting
<1>6. QED
  BY <1>3, <1>4, <1>5 DEF BooksInv

LEMMA NextBooks == ASSUME BooksInv, [Next]_vars PROVE BooksInv'
<1>1. ASSUME NEW s \in Sessions,
             \/ \E p \in Postings, d \in Days : PostLookup(s, p, d)
             \/ \E i \in DOMAIN books : ReverseRead(s, i)
             \/ PostConflict(s) \/ ReverseDies(s) \/ AllotFails(s)
      PROVE  BooksInv'
  BY <1>1, PostLookupKeeps, ReverseReadKeeps, EndsKeep
<1>2. ASSUME NEW s \in Sessions, PostInsert(s) \/ ReverseInsert(s) \/ ReverseFlip(s)
      PROVE  BooksInv'
  BY <1>2, PostInsertKeeps, ReverseInsertKeeps, ReverseFlipKeeps
<1>3. ASSUME NEW s \in Sessions,
             \/ \E d \in Days : SnapshotOpening(s, d)
             \/ SnapshotMoved(s) \/ SnapshotCapital(s) \/ SnapshotCash(s) \/ SnapshotUpsert(s)
      PROVE  BooksInv'
  BY <1>3, SnapshotReadsKeep, SnapshotUpsertKeeps
<1>4. ASSUME NEW s \in Sessions,
             (\E a \in Allocations : AllotRead(s, a)) \/ AllotClear(s) \/ AllotCommit(s)
      PROVE  BooksInv'
  BY <1>4, AllotReadKeeps, AllotClearKeeps, AllotCommitKeeps
<1>5. ASSUME NEW i \in DOMAIN books, Reconcile(i) PROVE BooksInv'
  BY <1>5, ReconcileKeeps
<1>6. QED
  BY <1>1, <1>2, <1>3, <1>4, <1>5, OfficeKeeps DEF Next

(***************************************************************************)
(* The part of the inductive invariant that is about the rows and the      *)
(* requests that post and reverse them.                                    *)
(***************************************************************************)
THEOREM BooksInvariant == Spec => []BooksInv
<1>1. Init => BooksInv
  BY InitBooks
<1>2. BooksInv /\ [Next]_vars => BooksInv'
  BY NextBooks
<1>3. QED
  BY <1>1, <1>2, PTL DEF Spec

(***************************************************************************)
(* The tables, the snapshots, the allocations and the requests are what    *)
(* their columns and variables can hold, every figure an integer.          *)
(***************************************************************************)
THEOREM BooksTypeCorrect == Spec => []TypeOK
<1>1. BooksInv => TypeOK
  BY DEF BooksInv
<1>2. QED
  BY <1>1, BooksInvariant, PTL

(***************************************************************************)
(* A row is marked REVERSED only with a negated row standing against it,   *)
(* and a negated row takes its original out of the totals, at once or when *)
(* the request under way gets to it, unless that request died: whatever    *)
(* posts, reverses or reconciles between the two writes of a reversal.     *)
(***************************************************************************)
THEOREM ReversalsAreEffective == Spec => []ReversalsTakeEffect
<1>1. BooksInv => ReversalsTakeEffect
  <2> SUFFICES ASSUME BooksInv, NEW i \in DOMAIN books
               PROVE  /\ \A j \in Reversals(i) : Amount(j) = -Amount(i)
                      /\ Effective(i)
    BY DEF ReversalsTakeEffect, Effective
  <2>1. Effective(i)
    BY DEF BooksInv, RowsEffective
  <2>2. ASSUME NEW j \in Reversals(i) PROVE Amount(j) = -Amount(i)
    <3>1. j \in DOMAIN books /\ books[j].of = i /\ i # 0
      BY RowTyped DEF BooksInv, Reversals
    <3>2. books[j].what = Negated(books[i].what)
      BY <3>1 DEF BooksInv, RowsLinked
    <3>3. books[i].what \in Amounts
      BY RowTyped DEF BooksInv
    <3>4. QED
      BY <3>2, <3>3, WhatTyped DEF Amount
  <2>3. QED
    BY <2>1, <2>2
<1>2. QED
  BY <1>1, BooksInvariant, PTL

-----------------------------------------------------------------------------
(* The books keep the ledger's contract. *)

(* A reversal is taken back out of what counts by its flip, and by that    *)
(* alone; its negated row never counts.                                    *)
LEMMA StepsKeepContract ==
    ASSUME BooksInv, Next
    PROVE  Contract!Next \/ UNCHANGED <<Posted, Counted>>
<1>1. TypeOK /\ RequestsHold
  BY DEF BooksInv
<1>2. ASSUME UNCHANGED books PROVE UNCHANGED <<Posted, Counted>>
  BY <1>2 DEF Posted, Counted, Counts
<1>3. ASSUME NEW s \in Sessions, PostInsert(s) PROVE Contract!Next
  <2> DEFINE row == NewRow(req[s].posting, req[s].row)
  <2>1. req[s].at = "posting" /\ books' = Append(books, row)
    BY <1>3 DEF PostInsert
  <2>2. req[s].posting \in Postings /\ req[s].row \in Days
    BY <1>1, <2>1 DEF RequestsHold, HoldsFor
  <2>3. row \in BookRows /\ row.of = 0 /\ row.status = "POSTED"
    <3>1. req[s].posting.what \in Amounts /\ req[s].posting.key \in Keys \cup {None}
      BY <2>2, LedgerBooksAssumption
    <3>2. QED
      BY <2>2, <3>1 DEF NewRow, BookRows
  <2> HIDE DEF row
  <2>4. PICK q \in Nat \ {0} :
            /\ DOMAIN books' = DOMAIN books \cup {q} /\ q \notin DOMAIN books
            /\ books'[q] = row /\ \A i \in DOMAIN books : books'[i] = books[i]
    BY <1>1, <2>1, <2>3, BooksGrow
  <2>5. q \notin Posted /\ Posted' = Posted \cup {q} /\ Counted' = Counted \cup {q}
    BY <2>3, <2>4 DEF Posted, Counted, Counts
  <2>6. Posted' \ Posted = {q}
    BY <2>5
  <2>7. QED
    BY <2>5, <2>6 DEF Contract!Next, Contract!Post
<1>4. ASSUME NEW s \in Sessions, ReverseInsert(s) PROVE UNCHANGED <<Posted, Counted>>
  <2> DEFINE i == req[s].row
             row == [what |-> Negated(books[i].what), day |-> LastDay, key |-> None,
                     status |-> "POSTED", of |-> i]
  <2>1. req[s].at = "reversing" /\ books' = Append(books, row)
    BY <1>4 DEF ReverseInsert
  <2>2. i \in DOMAIN books
    BY <1>1, <2>1 DEF RequestsHold, HoldsFor
  <2>3. row \in BookRows /\ row.of = i /\ i # 0
    <3>1. Negated(books[i].what) \in Amounts /\ i \in Nat \ {0}
      BY <1>1, <2>2, RowTyped, WhatTyped
    <3>2. LastDay \in Days
      BY LedgerBooksAssumption DEF Days
    <3>3. QED
      BY <3>1, <3>2 DEF BookRows
  <2> HIDE DEF row, i
  <2>4. PICK q \in Nat \ {0} :
            /\ DOMAIN books' = DOMAIN books \cup {q} /\ q \notin DOMAIN books
            /\ books'[q] = row /\ \A k \in DOMAIN books : books'[k] = books[k]
    BY <1>1, <2>1, <2>3, BooksGrow
  <2>5. QED
    BY <2>3, <2>4 DEF Posted, Counted, Counts
<1>5. ASSUME NEW s \in Sessions, ReverseFlip(s)
      PROVE  Contract!Next \/ UNCHANGED <<Posted, Counted>>
  <2> DEFINE i == req[s].row
  <2>1. /\ req[s].at = "flipping"
        /\ books' = [books EXCEPT ![i] = [books[i] EXCEPT !.status = "REVERSED"]]
    BY <1>5 DEF ReverseFlip, Flipped
  <2>2. i \in DOMAIN books
    BY <1>1, <2>1 DEF RequestsHold, HoldsFor
  <2> HIDE DEF i
  <2>3. /\ DOMAIN books' = DOMAIN books
        /\ \A j \in DOMAIN books : books'[j].of = books[j].of /\ (j # i => books'[j] = books[j])
        /\ books'[i].status = "REVERSED"
    BY <1>1, <2>1, <2>2, BooksRestated
  <2>4. Posted' = Posted /\ Counted' = Counted \ {i}
    BY <2>2, <2>3 DEF Posted, Counted, Counts
  <2>5. CASE i \in Counted
    BY <2>4, <2>5 DEF Contract!Next, Contract!Reverse
  <2>6. CASE i \notin Counted
    BY <2>4, <2>6
  <2>7. QED
    BY <2>5, <2>6
<1>6. ASSUME NEW i \in DOMAIN books, Reconcile(i) PROVE UNCHANGED <<Posted, Counted>>
  <2>1. /\ books[i].status = "POSTED"
        /\ books' = [books EXCEPT ![i] = [books[i] EXCEPT !.status = "RECONCILED"]]
    BY <1>6 DEF Reconcile, Reconcilable
  <2>2. /\ DOMAIN books' = DOMAIN books
        /\ \A j \in DOMAIN books : books'[j].of = books[j].of /\ (j # i => books'[j] = books[j])
        /\ books'[i].status = "RECONCILED"
    BY <1>1, <2>1, BooksRestated
  <2>3. QED
    BY <2>1, <2>2 DEF Posted, Counted, Counts
<1>7. ASSUME NEW s \in Sessions,
             \/ \E p \in Postings, d \in Days : PostLookup(s, p, d)
             \/ \E i \in DOMAIN books : ReverseRead(s, i)
             \/ PostConflict(s) \/ ReverseDies(s)
             \/ \E d \in Days : SnapshotOpening(s, d)
             \/ SnapshotMoved(s) \/ SnapshotCapital(s) \/ SnapshotCash(s) \/ SnapshotUpsert(s)
             \/ \E a \in Allocations : AllotRead(s, a)
             \/ AllotClear(s) \/ AllotCommit(s) \/ AllotFails(s)
      PROVE  UNCHANGED <<Posted, Counted>>
  <2>1. UNCHANGED books
    BY <1>7 DEF PostLookup, ReverseRead, PostConflict, ReverseDies, SnapshotOpening, SnapshotMoved,
                SnapshotCapital, SnapshotCash, SnapshotUpsert, AllotRead, AllotClear, AllotCommit, AllotFails,
                Begin, Finished
  <2>2. QED
    BY <1>2, <2>1
<1>8. ASSUME \/ \E d \in Days : LockDay(d) \/ UnlockDay(d)
             \/ DeleteLoan
             \/ \E p \in Principals : EditLoan(p)
      PROVE  UNCHANGED <<Posted, Counted>>
  <2>1. UNCHANGED books
    BY <1>8 DEF LockDay, UnlockDay, DeleteLoan, EditLoan
  <2>2. QED
    BY <1>2, <2>1
<1>9. QED
  BY <1>3, <1>4, <1>5, <1>6, <1>7, <1>8 DEF Next

(***************************************************************************)
(* The books implement the ledger's contract: a posting counts from its    *)
(* insertion until one reversal of it flips it, and no reconciliation, no  *)
(* second or half-done reversal and no reversal of a reversal changes what *)
(* counts.                                                                 *)
(***************************************************************************)
THEOREM BooksKeepContract == Spec => KeepsContract
<1>1. Init => Contract!Init
  BY DEF Init, Contract!Init, Posted, Counted
<1>2. BooksInv /\ [Next]_vars => [Contract!Next]_<<Posted, Counted>>
  <2> SUFFICES ASSUME BooksInv, [Next]_vars PROVE [Contract!Next]_<<Posted, Counted>>
    OBVIOUS
  <2>1. CASE Next
    BY <2>1, StepsKeepContract
  <2>2. CASE UNCHANGED vars
    BY <2>2 DEF vars, Posted, Counted, Counts
  <2>3. QED
    BY <2>1, <2>2
<1>3. QED
  BY <1>1, <1>2, BooksInvariant, PTL DEF Spec, KeepsContract, Contract!Spec

-----------------------------------------------------------------------------
(* Two ways to add up the fund available. *)

LEMMA StatementAddsTheSame ==
    ASSUME TypeOK, NEW S \in SUBSET DOMAIN books, \A i \in S : StatementAmount(i) = Amount(i)
    PROVE  StatementSum(S) = Sum(S)
<1> DEFINE f == [i \in DOMAIN books |-> Amount(i)]
           g == [i \in DOMAIN books |-> StatementAmount(i)]
<1>1. IntegersOn(f, S) /\ \A i \in S : f[i] = g[i]
  BY SumsTyped
<1> HIDE DEF f, g
<1>2. SumFunctionOnSet(f, S) = SumFunctionOnSet(g, S)
  BY <1>1, SumOfEquals
<1>3. QED
  BY <1>2 DEF f, g, StatementSum, Sum

(***************************************************************************)
(* The dashboard and the financial statement show the same fund available  *)
(* unless a loan with rows was deleted or a disbursement carries a fee:    *)
(* row by row, the amount the statement adds up is the one whose direction *)
(* the dashboard follows.                                                  *)
(***************************************************************************)
THEOREM FundsAgree == Spec => []FundAvailableAgrees
<1>1. TypeOK => FundAvailableAgrees
  <2> DEFINE L == Ledger(Days)
  <2> SUFFICES ASSUME TypeOK,
                      \A i \in L : books[i].what.ofLoan => ~loanDeleted,
                      \A i \in OfType(L, {"DISBURSEMENT"}) : books[i].what.rest = 0
               PROVE  StatementMovement = CashMovement(L)
    BY DEF FundAvailableAgrees
  <2>1. StatementRows = L
    BY DEF StatementRows
  <2> DEFINE ins == OfType(L, {"COLLECTION", "FEE"})
             outs == OfType(L, {"DISBURSEMENT", "REFUND"})
  <2>2. ins \in SUBSET DOMAIN books /\ outs \in SUBSET DOMAIN books
    BY DEF OfType, Ledger
  <2>3. ASSUME NEW i \in ins PROVE StatementAmount(i) = Amount(i)
    BY <2>3 DEF OfType, StatementAmount
  <2>4. ASSUME NEW i \in outs PROVE StatementAmount(i) = Amount(i)
    <3>1. CASE books[i].what.type = "DISBURSEMENT"
      <4>1. i \in OfType(L, {"DISBURSEMENT"})
        BY <2>4, <3>1 DEF OfType
      <4>2. books[i].what.rest = 0 /\ books[i].what.principal \in Int
        BY <2>2, <2>4, <4>1, RowTyped
      <4>3. QED
        BY <3>1, <4>2 DEF StatementAmount, Amount
    <3>2. CASE books[i].what.type # "DISBURSEMENT"
      BY <3>2 DEF StatementAmount
    <3>3. QED
      BY <3>1, <3>2
  <2> HIDE DEF ins, outs
  <2>5. StatementSum(ins) = Sum(ins) /\ StatementSum(outs) = Sum(outs)
    BY <2>2, <2>3, <2>4, StatementAddsTheSame
  <2>6. QED
    BY <2>1, <2>5 DEF StatementMovement, CashMovement, ins, outs
<1>2. QED
  BY <1>1, BooksTypeCorrect, PTL

-----------------------------------------------------------------------------
(* The figures of a day and of the days up to it. *)

(* What is outstanding by a day is what was by the day before, and the     *)
(* movements of the day.                                                   *)
LEMMA DayAddsItsMovements ==
    ASSUME TypeOK, NEW d \in Days
    PROVE  Outstanding(Ledger(1..d)) = Outstanding(Ledger(1..d - 1)) + MovedOn(d)
<1> DEFINE f == [i \in DOMAIN books |-> books[i].what.principal]
           A(types) == OfType(Ledger(1..d), types)
           B(types) == OfType(Ledger(1..d - 1), types)
           C(types) == OfType(Ledger({d}), types)
<1>1. d \in Int /\ d >= 1 /\ 1..d = (1..d - 1) \cup {d} /\ d \notin 1..d - 1
  BY LedgerBooksAssumption DEF Days
<1>2. ASSUME NEW types
      PROVE  /\ Principal(A(types)) = Principal(B(types)) + Principal(C(types))
             /\ Principal(B(types)) \in Int /\ Principal(C(types)) \in Int
  <2>1. A(types) = B(types) \cup C(types) /\ B(types) \cap C(types) = {}
    BY <1>1 DEF OfType, Ledger
  <2>2. /\ A(types) \in SUBSET DOMAIN books /\ B(types) \in SUBSET DOMAIN books
        /\ C(types) \in SUBSET DOMAIN books
    BY DEF OfType, Ledger
  <2> HIDE DEF A, B, C
  <2>3. IntegersOn(f, B(types) \cup C(types))
    BY <2>1, <2>2, SumsTyped
  <2> HIDE DEF f
  <2>4. SumFunctionOnSet(f, B(types) \cup C(types))
            = SumFunctionOnSet(f, B(types)) + SumFunctionOnSet(f, C(types))
    BY <2>1, <2>3, SumOfUnion
  <2>5. \A S : Principal(S) = SumFunctionOnSet(f, S)
    BY DEF f, Principal
  <2>6. /\ Principal(A(types)) = SumFunctionOnSet(f, B(types) \cup C(types))
        /\ Principal(B(types)) = SumFunctionOnSet(f, B(types))
        /\ Principal(C(types)) = SumFunctionOnSet(f, C(types))
    BY <2>1, <2>5
  <2>7. Principal(B(types)) \in Int /\ Principal(C(types)) \in Int
    BY <2>2, SumsTyped
  <2>8. QED
    BY <2>4, <2>6, <2>7
<1>3. /\ Principal(C({"ADJUSTMENT", "REFUND"})) =
             Principal(C({"ADJUSTMENT"})) + Principal(C({"REFUND"}))
  <2> DEFINE X == C({"ADJUSTMENT"})
             Y == C({"REFUND"})
  <2>1. C({"ADJUSTMENT", "REFUND"}) = X \cup Y /\ X \cap Y = {}
    BY DEF OfType
  <2>2. X \cup Y \in SUBSET DOMAIN books
    BY DEF OfType, Ledger
  <2> HIDE DEF X, Y
  <2>3. IntegersOn(f, X \cup Y)
    BY <2>2, SumsTyped
  <2> HIDE DEF f
  <2>4. SumFunctionOnSet(f, X \cup Y) = SumFunctionOnSet(f, X) + SumFunctionOnSet(f, Y)
    BY <2>1, <2>3, SumOfUnion
  <2>5. /\ Principal(X) = SumFunctionOnSet(f, X) /\ Principal(Y) = SumFunctionOnSet(f, Y)
        /\ Principal(X \cup Y) = SumFunctionOnSet(f, X \cup Y)
    BY DEF f, Principal
  <2>6. QED
    BY <2>1, <2>4, <2>5 DEF X, Y
<1>4. /\ Outstanding(Ledger(1..d)) =
             Principal(A({"DISBURSEMENT"})) - Principal(A({"COLLECTION"}))
                 + Principal(A({"REFUND"})) + Principal(A({"ADJUSTMENT"}))
      /\ Outstanding(Ledger(1..d - 1)) =
             Principal(B({"DISBURSEMENT"})) - Principal(B({"COLLECTION"}))
                 + Principal(B({"REFUND"})) + Principal(B({"ADJUSTMENT"}))
      /\ MovedOn(d) =
             Principal(C({"DISBURSEMENT"})) - Principal(C({"COLLECTION"}))
                 + Principal(C({"ADJUSTMENT", "REFUND"}))
  BY DEF Outstanding, MovedOn
<1> HIDE DEF A, B, C
<1>5. /\ Principal(A({"DISBURSEMENT"})) = Principal(B({"DISBURSEMENT"})) + Principal(C({"DISBURSEMENT"}))
      /\ Principal(A({"COLLECTION"})) = Principal(B({"COLLECTION"})) + Principal(C({"COLLECTION"}))
      /\ Principal(A({"REFUND"})) = Principal(B({"REFUND"})) + Principal(C({"REFUND"}))
      /\ Principal(A({"ADJUSTMENT"})) = Principal(B({"ADJUSTMENT"})) + Principal(C({"ADJUSTMENT"}))
      /\ Principal(B({"DISBURSEMENT"})) \in Int /\ Principal(C({"DISBURSEMENT"})) \in Int
      /\ Principal(B({"COLLECTION"})) \in Int /\ Principal(C({"COLLECTION"})) \in Int
      /\ Principal(B({"REFUND"})) \in Int /\ Principal(C({"REFUND"})) \in Int
      /\ Principal(B({"ADJUSTMENT"})) \in Int /\ Principal(C({"ADJUSTMENT"})) \in Int
  BY <1>2
<1>6. QED
  BY <1>3, <1>4, <1>5, SMTT(30)

-----------------------------------------------------------------------------
(* As long as the books of the days up to one have not changed, neither    *)
(* has a figure of those days.                                             *)

BooksKeptTo(d) ==
    /\ \A i \in DOMAIN books : /\ i \in DOMAIN books'
                               /\ books'[i].what = books[i].what
                               /\ books'[i].day = books[i].day
    /\ \A i \in DOMAIN books' : books'[i].day <= d =>
          (Counts(i)' <=> i \in DOMAIN books /\ Counts(i))

LEMMA SumsKept ==
    ASSUME TypeOK, NEW S \in SUBSET DOMAIN books,
           \A i \in DOMAIN books : i \in DOMAIN books' /\ books'[i].what = books[i].what
    PROVE  /\ SumFunctionOnSet([i \in DOMAIN books' |-> books'[i].what.principal], S) = Principal(S)
           /\ SumFunctionOnSet([i \in DOMAIN books' |-> Amount(i)'], S) = Sum(S)
<1> DEFINE f == [i \in DOMAIN books |-> books[i].what.principal]
           g == [i \in DOMAIN books |-> Amount(i)]
           fl == [i \in DOMAIN books' |-> books'[i].what.principal]
           gl == [i \in DOMAIN books' |-> Amount(i)']
<1>1. IntegersOn(f, S) /\ IntegersOn(g, S)
  BY SumsTyped
<1>2. \A i \in S : f[i] = fl[i] /\ g[i] = gl[i]
  BY DEF Amount
<1>3. Principal(S) = SumFunctionOnSet(f, S) /\ Sum(S) = SumFunctionOnSet(g, S)
  BY DEF Principal, Sum
<1> HIDE DEF f, g, fl, gl
<1>4. /\ SumFunctionOnSet(f, S) = SumFunctionOnSet(fl, S)
      /\ SumFunctionOnSet(g, S) = SumFunctionOnSet(gl, S)
  BY <1>1, <1>2, SumOfEquals
<1>5. QED
  BY <1>3, <1>4 DEF fl, gl

LEMMA FiguresKept ==
    ASSUME TypeOK, NEW d \in Int, BooksKeptTo(d), NEW days \in SUBSET (1..d)
    PROVE  /\ Outstanding(Ledger(days))' = Outstanding(Ledger(days))
           /\ CashMovement(Ledger(days))' = CashMovement(Ledger(days))
           /\ Capital(days)' = Capital(days)
           /\ \A e \in days : MovedOn(e)' = MovedOn(e)
<1>1. ASSUME NEW some \in SUBSET days
      PROVE  /\ Ledger(some)' = Ledger(some)
             /\ {i \in DOMAIN books : Counts(i) /\ books[i].day \in some}' =
                    {i \in DOMAIN books : Counts(i) /\ books[i].day \in some}
  <2>1. \A e \in some : e \in Int /\ e <= d
    OBVIOUS
  <2>2. \A i \in DOMAIN books' : books'[i].day \in some =>
            (Counts(i)' <=> i \in DOMAIN books /\ Counts(i))
    BY <2>1 DEF BooksKeptTo
  <2>3. QED
    BY <2>2 DEF Ledger, InLedger, BooksKeptTo
<1>2. ASSUME NEW some \in SUBSET days, NEW types
      PROVE  /\ Principal(OfType(Ledger(some), types))' = Principal(OfType(Ledger(some), types))
             /\ Sum(OfType(Ledger(some), types))' = Sum(OfType(Ledger(some), types))
  <2> DEFINE S == OfType(Ledger(some), types)
  <2>1. S \in SUBSET DOMAIN books /\ S' = S
    BY <1>1 DEF OfType, Ledger, BooksKeptTo
  <2>2. /\ Principal(S)' = SumFunctionOnSet([i \in DOMAIN books' |-> books'[i].what.principal], S')
        /\ Sum(S)' = SumFunctionOnSet([i \in DOMAIN books' |-> Amount(i)'], S')
    BY DEF Principal, Sum
  <2> HIDE DEF S
  <2>3. /\ SumFunctionOnSet([i \in DOMAIN books' |-> books'[i].what.principal], S) = Principal(S)
        /\ SumFunctionOnSet([i \in DOMAIN books' |-> Amount(i)'], S) = Sum(S)
    BY <2>1, SumsKept DEF BooksKeptTo
  <2>4. QED
    BY <2>1, <2>2, <2>3 DEF S
<1>3. ASSUME NEW types
      PROVE  Sum(OfType({i \in DOMAIN books : Counts(i) /\ books[i].day \in days}, types))' =
                 Sum(OfType({i \in DOMAIN books : Counts(i) /\ books[i].day \in days}, types))
  <2> DEFINE S == OfType({i \in DOMAIN books : Counts(i) /\ books[i].day \in days}, types)
  <2>1. S \in SUBSET DOMAIN books /\ S' = S
    BY <1>1 DEF OfType, BooksKeptTo
  <2>2. Sum(S)' = SumFunctionOnSet([i \in DOMAIN books' |-> Amount(i)'], S')
    BY DEF Sum
  <2> HIDE DEF S
  <2>3. SumFunctionOnSet([i \in DOMAIN books' |-> Amount(i)'], S) = Sum(S)
    BY <2>1, SumsKept DEF BooksKeptTo
  <2>4. QED
    BY <2>1, <2>2, <2>3 DEF S
<1>4. Outstanding(Ledger(days))' = Outstanding(Ledger(days))
  <2>1. \A types : Principal(OfType(Ledger(days), types))' = Principal(OfType(Ledger(days), types))
    BY <1>2
  <2>2. QED
    BY <2>1 DEF Outstanding
<1>5. CashMovement(Ledger(days))' = CashMovement(Ledger(days))
  <2>1. \A types : Sum(OfType(Ledger(days), types))' = Sum(OfType(Ledger(days), types))
    BY <1>2
  <2>2. QED
    BY <2>1 DEF CashMovement
<1>6. Capital(days)' = Capital(days)
  BY <1>3 DEF Capital
<1>7. ASSUME NEW e \in days PROVE MovedOn(e)' = MovedOn(e)
  <2>1. {e} \in SUBSET days
    OBVIOUS
  <2>2. \A types : Principal(OfType(Ledger({e}), types))' = Principal(OfType(Ledger({e}), types))
    BY <1>2, <2>1
  <2>3. QED
    BY <2>2 DEF MovedOn
<1>8. QED
  BY <1>4, <1>5, <1>6, <1>7

-----------------------------------------------------------------------------
(* What a snapshot under way has read, and what a finished one says. *)

RequestTrue(t) ==
    req[t].at \in {"opened", "moved", "funded", "cashed"} /\ ~req[t].dirty =>
        /\ req[t].opening = Outstanding(Ledger(1..req[t].day - 1))
        /\ req[t].at \in {"moved", "funded", "cashed"} => req[t].moved = MovedOn(req[t].day)
        /\ req[t].at \in {"funded", "cashed"} => req[t].capital = Capital(1..req[t].day)
        /\ req[t].at = "cashed" => req[t].cash = CashMovement(Ledger(1..req[t].day))
FiguresHold == \A t \in Sessions : RequestTrue(t)

SnapshotTrue(d) ==
    snapshots[d] # None /\ ~snapshots[d].dirty =>
        /\ snapshots[d].opening = Outstanding(Ledger(1..d - 1))
        /\ snapshots[d].closing = Outstanding(Ledger(1..d))
        /\ snapshots[d].fund = Capital(1..d) + CashMovement(Ledger(1..d))

LEMMA FiguresOfDayKept ==
    ASSUME TypeOK, NEW d \in Days, BooksKeptTo(d)
    PROVE  /\ Outstanding(Ledger(1..d - 1))' = Outstanding(Ledger(1..d - 1))
           /\ Outstanding(Ledger(1..d))' = Outstanding(Ledger(1..d))
           /\ CashMovement(Ledger(1..d))' = CashMovement(Ledger(1..d))
           /\ Capital(1..d)' = Capital(1..d)
           /\ MovedOn(d)' = MovedOn(d)
<1>1. d \in Int /\ d \in 1..d /\ 1..d \in SUBSET (1..d) /\ 1..d - 1 \in SUBSET (1..d)
  BY LedgerBooksAssumption DEF Days
<1>2. QED
  BY <1>1, FiguresKept

LEMMA RequestStaysTrue ==
    ASSUME BooksInv, NEW t \in Sessions, RequestTrue(t),
           req'[t] = req[t] \/ req'[t] = [req[t] EXCEPT !.dirty = TRUE],
           BooksKeptTo(req[t].day) \/ req'[t].dirty
    PROVE  RequestTrue(t)'
<1> SUFFICES ASSUME req'[t].at \in {"opened", "moved", "funded", "cashed"}, ~req'[t].dirty
             PROVE  /\ req'[t].opening = Outstanding(Ledger(1..req[t].day - 1))'
                    /\ req'[t].at \in {"moved", "funded", "cashed"} => req'[t].moved = MovedOn(req[t].day)'
                    /\ req'[t].at \in {"funded", "cashed"} => req'[t].capital = Capital(1..req[t].day)'
                    /\ req'[t].at = "cashed" => req'[t].cash = CashMovement(Ledger(1..req[t].day))'
  BY DEF RequestTrue
<1>1. req[t] \in Requests /\ HoldsFor(t) /\ TypeOK
  BY DEF BooksInv, TypeOK, RequestsHold
<1>2. /\ req'[t].at = req[t].at /\ req'[t].day = req[t].day /\ req'[t].opening = req[t].opening
      /\ req'[t].moved = req[t].moved /\ req'[t].capital = req[t].capital
      /\ req'[t].cash = req[t].cash /\ ~req[t].dirty
  BY <1>1, DirtyTyped
<1>3. PICK d \in Days : d = req[t].day
  BY <1>1, <1>2 DEF HoldsFor
<1>4. BooksKeptTo(d)
  BY <1>3
<1>5. /\ Outstanding(Ledger(1..d - 1))' = Outstanding(Ledger(1..d - 1))
      /\ Capital(1..d)' = Capital(1..d) /\ MovedOn(d)' = MovedOn(d)
      /\ CashMovement(Ledger(1..d))' = CashMovement(Ledger(1..d))
  BY <1>1, <1>4, FiguresOfDayKept
<1>6. /\ req[t].opening = Outstanding(Ledger(1..d - 1))
      /\ req[t].at \in {"moved", "funded", "cashed"} => req[t].moved = MovedOn(d)
      /\ req[t].at \in {"funded", "cashed"} => req[t].capital = Capital(1..d)
      /\ req[t].at = "cashed" => req[t].cash = CashMovement(Ledger(1..d))
  BY <1>2, <1>3 DEF RequestTrue
<1>7. d = req'[t].day
  BY <1>2, <1>3
<1>8. QED
  BY <1>2, <1>5, <1>6, <1>7

LEMMA SnapshotStaysTrue ==
    ASSUME TypeOK, NEW d \in Days, SnapshotTrue(d),
           \/ snapshots'[d] = None
           \/ snapshots'[d].dirty
           \/ /\ snapshots[d] # None /\ BooksKeptTo(d)
              /\ snapshots'[d].dirty = snapshots[d].dirty
              /\ snapshots'[d].opening = snapshots[d].opening
              /\ snapshots'[d].closing = snapshots[d].closing
              /\ snapshots'[d].fund = snapshots[d].fund
    PROVE  SnapshotTrue(d)'
<1> SUFFICES ASSUME snapshots'[d] # None, ~snapshots'[d].dirty
             PROVE  /\ snapshots'[d].opening = Outstanding(Ledger(1..d - 1))'
                    /\ snapshots'[d].closing = Outstanding(Ledger(1..d))'
                    /\ snapshots'[d].fund = Capital(1..d)' + CashMovement(Ledger(1..d))'
  BY DEF SnapshotTrue
<1>1. /\ snapshots[d].opening = Outstanding(Ledger(1..d - 1))
      /\ snapshots[d].closing = Outstanding(Ledger(1..d))
      /\ snapshots[d].fund = Capital(1..d) + CashMovement(Ledger(1..d))
  BY DEF SnapshotTrue
<1>2. QED
  BY <1>1, FiguresOfDayKept

LEMMA TouchedStaysTrue ==
    ASSUME BooksInv, FiguresHold, CleanSnapshotIsTrue,
           NEW s \in Sessions, NEW day \in Days, Touched(s, Idle, day),
           \A d \in Nat : d < day => BooksKeptTo(d)
    PROVE  FiguresHold' /\ CleanSnapshotIsTrue'
<1>1. TypeOK /\ day \in Nat
  BY LedgerBooksAssumption DEF BooksInv, Days
<1>2. /\ req' = [t \in Sessions |-> IF t = s THEN Idle
                                    ELSE IF req[t].day < day THEN req[t]
                                    ELSE [req[t] EXCEPT !.dirty = TRUE]]
      /\ snapshots' = [d \in Days |-> IF snapshots[d] = None \/ d < day THEN snapshots[d]
                                      ELSE [snapshots[d] EXCEPT !.dirty = TRUE]]
  BY DEF Touched
<1>3. ASSUME NEW t \in Sessions PROVE RequestTrue(t)'
  <2>1. CASE t = s
    <3>1. req'[t].at = "idle"
      BY <1>2, <2>1, IdleTyped
    <3>2. QED
      BY <3>1 DEF RequestTrue
  <2>2. CASE t # s
    <3>1. req[t] \in Requests /\ RequestTrue(t) /\ req[t].day \in Nat
      BY <1>1, LedgerBooksAssumption, SMTT(30) DEF TypeOK, FiguresHold, Requests, Days
    <3>2. CASE req[t].day < day
      BY <1>2, <2>2, <3>1, <3>2, RequestStaysTrue
    <3>3. CASE ~(req[t].day < day)
      <4>1. req'[t] = [req[t] EXCEPT !.dirty = TRUE]
        BY <1>2, <2>2, <3>3
      <4>2. req'[t].dirty
        BY <3>1, <4>1 DEF Requests
      <4>3. QED
        BY <3>1, <4>1, <4>2, RequestStaysTrue
    <3>4. QED
      BY <3>2, <3>3
  <2>3. QED
    BY <2>1, <2>2
<1>4. ASSUME NEW d \in Days PROVE SnapshotTrue(d)'
  <2>1. SnapshotTrue(d) /\ d \in Nat
    BY LedgerBooksAssumption DEF CleanSnapshotIsTrue, SnapshotTrue, Days
  <2>2. CASE snapshots[d] = None
    BY <1>1, <1>2, <2>1, <2>2, SnapshotStaysTrue
  <2>3. CASE snapshots[d] # None /\ d < day
    BY <1>1, <1>2, <2>1, <2>3, SnapshotStaysTrue
  <2>4. CASE snapshots[d] # None /\ ~(d < day)
    <3>1. snapshots'[d].dirty
      BY <1>1, <1>2, <2>4 DEF TypeOK, Snapshots
    <3>2. QED
      BY <1>1, <2>1, <3>1, SnapshotStaysTrue
  <2>5. QED
    BY <2>2, <2>3, <2>4
<1>5. QED
  BY <1>3, <1>4 DEF FiguresHold, CleanSnapshotIsTrue, SnapshotTrue

(* The steps that change no figure of any day.                             *)
LEMMA UntouchedStaysTrue ==
    ASSUME BooksInv, FiguresHold, CleanSnapshotIsTrue,
           \A d \in Days : BooksKeptTo(d),
           NEW s \in Sessions, RequestTrue(s)',
           \A t \in Sessions \ {s} : req'[t] = req[t] \/ req'[t] = [req[t] EXCEPT !.dirty = TRUE],
           \A d \in Days : SnapshotTrue(d)'
    PROVE  FiguresHold' /\ CleanSnapshotIsTrue'
<1>1. ASSUME NEW t \in Sessions \ {s} PROVE RequestTrue(t)'
  <2>1. RequestTrue(t) /\ req[t] \in Requests /\ HoldsFor(t)
    BY DEF FiguresHold, BooksInv, TypeOK, RequestsHold
  <2>2. CASE req[t].at \in {"opened", "moved", "funded", "cashed"}
    <3>1. req[t].day \in Days
      BY <2>1, <2>2 DEF HoldsFor
    <3>2. QED
      BY <2>1, <3>1, RequestStaysTrue
  <2>3. CASE req[t].at \notin {"opened", "moved", "funded", "cashed"}
    <3>1. req'[t].at = req[t].at
      BY <2>1, DirtyTyped, ZenonT(30)
    <3>2. QED
      BY <2>3, <3>1 DEF RequestTrue
  <2>4. QED
    BY <2>2, <2>3
<1>2. QED
  BY <1>1 DEF FiguresHold, CleanSnapshotIsTrue, SnapshotTrue

LEMMA KeptSnapshotsStayTrue ==
    ASSUME BooksInv, CleanSnapshotIsTrue, UNCHANGED snapshots, \A d \in Days : BooksKeptTo(d)
    PROVE  \A d \in Days : SnapshotTrue(d)'
<1> SUFFICES ASSUME NEW d \in Days PROVE SnapshotTrue(d)'
  OBVIOUS
<1>1. SnapshotTrue(d) /\ TypeOK
  BY DEF CleanSnapshotIsTrue, SnapshotTrue, BooksInv
<1>2. snapshots'[d] = None \/ snapshots[d] # None
  OBVIOUS
<1>3. QED
  BY <1>1, <1>2, SnapshotStaysTrue

LEMMA BooksSame == ASSUME UNCHANGED books PROVE \A d : BooksKeptTo(d)
BY DEF BooksKeptTo, Counts

LEMMA PostInsertTrue ==
    ASSUME BooksInv, FiguresHold, CleanSnapshotIsTrue, NEW s \in Sessions, PostInsert(s)
    PROVE  FiguresHold' /\ CleanSnapshotIsTrue'
<1> DEFINE row == NewRow(req[s].posting, req[s].row)
           day == req[s].row
<1>1. TypeOK /\ HoldsFor(s)
  BY DEF BooksInv, RequestsHold
<1>2. req[s].at = "posting" /\ books' = Append(books, row) /\ Touched(s, Idle, day)
  BY DEF PostInsert
<1>3. req[s].posting \in Postings /\ day \in Days
  BY <1>1, <1>2 DEF HoldsFor
<1>4. row \in BookRows /\ row.day = day
  <2>1. req[s].posting.what \in Amounts /\ req[s].posting.key \in Keys \cup {None}
    BY <1>3, LedgerBooksAssumption
  <2>2. QED
    BY <1>3, <2>1 DEF NewRow, BookRows
<1> HIDE DEF row, day
<1>5. PICK q \in Nat \ {0} :
          /\ DOMAIN books' = DOMAIN books \cup {q} /\ q \notin DOMAIN books
          /\ books'[q] = row /\ \A i \in DOMAIN books : books'[i] = books[i]
  BY <1>1, <1>2, <1>4, BooksGrow
<1>6. ASSUME NEW d \in Nat, d < day PROVE BooksKeptTo(d)
  <2>1. ~(books'[q].day <= d)
    BY <1>3, <1>4, <1>5, <1>6, LedgerBooksAssumption DEF Days
  <2>2. QED
    BY <1>5, <2>1 DEF BooksKeptTo, Counts
<1>7. QED
  BY <1>2, <1>3, <1>6, TouchedStaysTrue

LEMMA ReverseInsertTrue ==
    ASSUME BooksInv, FiguresHold, CleanSnapshotIsTrue, NEW s \in Sessions, ReverseInsert(s)
    PROVE  FiguresHold' /\ CleanSnapshotIsTrue'
<1> DEFINE i == req[s].row
           row == [what |-> Negated(books[i].what), day |-> LastDay, key |-> None,
                   status |-> "POSTED", of |-> i]
           r == [req[s] EXCEPT !.at = "flipping"]
<1>1. TypeOK /\ HoldsFor(s) /\ req[s] \in Requests
  BY DEF BooksInv, RequestsHold, TypeOK
<1>2. /\ req[s].at = "reversing" /\ books' = Append(books, row)
      /\ req' = [req EXCEPT ![s] = r] /\ UNCHANGED snapshots
  BY DEF ReverseInsert, Untouched
<1>3. i \in DOMAIN books
  BY <1>1, <1>2 DEF HoldsFor
<1>4. row \in BookRows /\ row.of = i /\ i # 0
  <2>1. Negated(books[i].what) \in Amounts /\ i \in Nat \ {0}
    BY <1>1, <1>3, RowTyped, WhatTyped
  <2>2. LastDay \in Days
    BY LedgerBooksAssumption DEF Days
  <2>3. QED
    BY <2>1, <2>2 DEF BookRows
<1>5. r.at = "flipping" /\ r \in Requests
  BY <1>1, AtChanged DEF Steps
<1> HIDE DEF row, i, r
<1>6. PICK q \in Nat \ {0} :
          /\ DOMAIN books' = DOMAIN books \cup {q} /\ q \notin DOMAIN books
          /\ books'[q] = row /\ \A k \in DOMAIN books : books'[k] = books[k]
  BY <1>1, <1>2, <1>4, BooksGrow
<1>7. \A d \in Days : BooksKeptTo(d)
  BY <1>4, <1>6 DEF BooksKeptTo, Counts
<1>8. RequestTrue(s)'
  <2>1. req'[s].at = "flipping"
    BY <1>1, <1>2, <1>5 DEF TypeOK
  <2>2. QED
    BY <2>1 DEF RequestTrue
<1>9. \A t \in Sessions \ {s} : req'[t] = req[t]
  BY <1>1, <1>2 DEF TypeOK
<1>10. QED
  BY <1>2, <1>7, <1>8, <1>9, UntouchedStaysTrue, KeptSnapshotsStayTrue

LEMMA ReverseFlipTrue ==
    ASSUME BooksInv, FiguresHold, CleanSnapshotIsTrue, NEW s \in Sessions, ReverseFlip(s)
    PROVE  FiguresHold' /\ CleanSnapshotIsTrue'
<1> DEFINE i == req[s].row
<1>1. TypeOK /\ HoldsFor(s)
  BY DEF BooksInv, RequestsHold
<1>2. /\ req[s].at = "flipping"
      /\ books' = [books EXCEPT ![i] = [books[i] EXCEPT !.status = "REVERSED"]]
      /\ IF Counts(i) THEN Touched(s, Idle, books[i].day) ELSE Untouched(s, Idle)
  BY DEF ReverseFlip, Flipped
<1>3. i \in DOMAIN books
  BY <1>1, <1>2 DEF HoldsFor
<1> HIDE DEF i
<1>4. /\ DOMAIN books' = DOMAIN books
      /\ \A j \in DOMAIN books : /\ books'[j].what = books[j].what /\ books'[j].day = books[j].day
                                 /\ j # i => books'[j] = books[j]
      /\ books'[i].status = "REVERSED"
  BY <1>1, <1>2, <1>3, BooksRestated
<1>5. books[i].day \in Days /\ Days \in SUBSET Nat
  BY <1>1, <1>3, RowTyped, LedgerBooksAssumption DEF Days
<1>6. CASE Counts(i)
  <2>1. ASSUME NEW d \in Nat, d < books[i].day PROVE BooksKeptTo(d)
    <3>1. books'[i].day = books[i].day /\ books[i].day \in Nat
      BY <1>3, <1>4, <1>5
    <3>2. ~(books'[i].day <= d)
      BY <2>1, <3>1
    <3>3. QED
      BY <1>4, <3>2 DEF BooksKeptTo, Counts
  <2>2. QED
    BY <1>2, <1>5, <1>6, <2>1, TouchedStaysTrue
<1>7. CASE ~Counts(i)
  <2>1. \A d \in Days : BooksKeptTo(d)
    BY <1>3, <1>4, <1>7 DEF BooksKeptTo, Counts
  <2>2. req' = [req EXCEPT ![s] = Idle] /\ UNCHANGED snapshots
    BY <1>2, <1>7 DEF Untouched
  <2>3. RequestTrue(s)'
    <3>1. req'[s].at = "idle"
      BY <1>1, <2>2, IdleTyped DEF TypeOK
    <3>2. QED
      BY <3>1 DEF RequestTrue
  <2>4. \A t \in Sessions \ {s} : req'[t] = req[t]
    BY <1>1, <2>2 DEF TypeOK
  <2>5. QED
    BY <2>1, <2>2, <2>3, <2>4, UntouchedStaysTrue, KeptSnapshotsStayTrue
<1>8. QED
  BY <1>6, <1>7

LEMMA ReconcileTrue ==
    ASSUME BooksInv, FiguresHold, CleanSnapshotIsTrue, NEW i \in DOMAIN books, Reconcile(i)
    PROVE  FiguresHold' /\ CleanSnapshotIsTrue'
<1>1. /\ books[i].status = "POSTED" /\ UNCHANGED <<snapshots, req>>
      /\ books' = [books EXCEPT ![i] = [books[i] EXCEPT !.status = "RECONCILED"]]
  BY DEF Reconcile, Reconcilable
<1>2. /\ DOMAIN books' = DOMAIN books
      /\ \A j \in DOMAIN books : /\ books'[j].what = books[j].what /\ books'[j].day = books[j].day
                                 /\ books'[j].of = books[j].of
                                 /\ j # i => books'[j] = books[j]
      /\ books'[i].status = "RECONCILED"
  BY <1>1, BooksRestated DEF BooksInv
<1>3. \A d \in Days : BooksKeptTo(d)
  BY <1>1, <1>2 DEF BooksKeptTo, Counts
<1>4. ASSUME NEW t \in Sessions PROVE RequestTrue(t)'
  <2>1. RequestTrue(t) /\ HoldsFor(t)
    BY DEF FiguresHold, BooksInv, RequestsHold
  <2>2. CASE req[t].at \in {"opened", "moved", "funded", "cashed"}
    <3>1. req[t].day \in Days
      BY <2>1, <2>2 DEF HoldsFor
    <3>2. QED
      BY <1>1, <1>3, <2>1, <3>1, RequestStaysTrue
  <2>3. CASE req[t].at \notin {"opened", "moved", "funded", "cashed"}
    BY <1>1, <2>3 DEF RequestTrue
  <2>4. QED
    BY <2>2, <2>3
<1>5. \A d \in Days : SnapshotTrue(d)'
  BY <1>1, <1>3, KeptSnapshotsStayTrue
<1>6. QED
  BY <1>4, <1>5 DEF FiguresHold, CleanSnapshotIsTrue, SnapshotTrue

(* The steps of a snapshot: each figure is read from the books as they are *)
(* then, and the ones before it are still worth what they were.            *)
LEMMA SnapshotReadsTrue ==
    ASSUME BooksInv, FiguresHold, CleanSnapshotIsTrue, NEW s \in Sessions,
           \/ \E d \in Days : SnapshotOpening(s, d)
           \/ SnapshotMoved(s) \/ SnapshotCapital(s) \/ SnapshotCash(s)
    PROVE  FiguresHold' /\ CleanSnapshotIsTrue'
<1>1. TypeOK /\ req[s] \in Requests /\ RequestTrue(s)
  BY DEF BooksInv, TypeOK, FiguresHold
<1>2. ASSUME NEW r, req' = [req EXCEPT ![s] = r], UNCHANGED <<books, snapshots>>, RequestTrue(s)'
      PROVE  FiguresHold' /\ CleanSnapshotIsTrue'
  <2>1. \A d \in Days : BooksKeptTo(d)
    BY <1>2, BooksSame
  <2>2. \A t \in Sessions \ {s} : req'[t] = req[t]
    BY <1>1, <1>2 DEF TypeOK
  <2>3. QED
    BY <1>2, <2>1, <2>2, UntouchedStaysTrue, KeptSnapshotsStayTrue
<1>3. CASE \E d \in Days : SnapshotOpening(s, d)
  <2>1. PICK d \in Days : SnapshotOpening(s, d)
    BY <1>3
  <2> DEFINE o == Outstanding(Ledger(1..d - 1))
             r == [Idle EXCEPT !.at = "opened", !.day = d, !.opening = o]
  <2>2. req' = [req EXCEPT ![s] = r] /\ UNCHANGED <<books, snapshots>>
    BY <2>1 DEF SnapshotOpening, Begin
  <2>3. r.at = "opened" /\ r.day = d /\ r.opening = o
    BY DEF Idle
  <2>4. Outstanding(Ledger(1..d - 1))' = o
    BY <1>1, <2>2, BooksSame, FiguresOfDayKept
  <2> HIDE DEF r, o
  <2>5. req'[s].at = "opened" /\ req'[s].day = d /\ req'[s].opening = o
    BY <1>1, <2>2, <2>3 DEF TypeOK
  <2>6. RequestTrue(s)'
    BY <2>4, <2>5 DEF RequestTrue
  <2>7. QED
    BY <1>2, <2>2, <2>6
<1>4. CASE SnapshotMoved(s)
  <2> DEFINE m == MovedOn(req[s].day)
             r == [req[s] EXCEPT !.at = "moved", !.moved = m]
  <2>1. /\ req[s].at = "opened" /\ req' = [req EXCEPT ![s] = r]
        /\ UNCHANGED <<books, snapshots>>
    BY <1>4 DEF SnapshotMoved, Untouched
  <2>2. PICK d \in Days : d = req[s].day
    BY <2>1 DEF BooksInv, RequestsHold, HoldsFor
  <2>3. /\ r.at = "moved" /\ r.day = d /\ r.opening = req[s].opening /\ r.moved = MovedOn(d)
        /\ r.dirty = req[s].dirty
    BY <1>1, <2>2 DEF Requests
  <2>4. Outstanding(Ledger(1..d - 1))' = Outstanding(Ledger(1..d - 1)) /\ MovedOn(d)' = MovedOn(d)
    BY <1>1, <2>1, BooksSame, FiguresOfDayKept
  <2>5. ~req[s].dirty => req[s].opening = Outstanding(Ledger(1..d - 1))
    BY <1>1, <2>1, <2>2 DEF RequestTrue
  <2> HIDE DEF r
  <2>6. req'[s] = r
    BY <1>1, <2>1 DEF TypeOK
  <2>7. RequestTrue(s)'
    BY <2>3, <2>4, <2>5, <2>6 DEF RequestTrue
  <2>8. QED
    BY <1>2, <2>1, <2>7
<1>5. CASE SnapshotCapital(s)
  <2> DEFINE c == Capital(1..req[s].day)
             r == [req[s] EXCEPT !.at = "funded", !.capital = c]
  <2>1. /\ req[s].at = "moved" /\ req' = [req EXCEPT ![s] = r]
        /\ UNCHANGED <<books, snapshots>>
    BY <1>5 DEF SnapshotCapital, Untouched
  <2>2. PICK d \in Days : d = req[s].day
    BY <2>1 DEF BooksInv, RequestsHold, HoldsFor
  <2>3. /\ r.at = "funded" /\ r.day = d /\ r.opening = req[s].opening /\ r.moved = req[s].moved
        /\ r.capital = Capital(1..d) /\ r.dirty = req[s].dirty
    BY <1>1, <2>2 DEF Requests
  <2>4. /\ Outstanding(Ledger(1..d - 1))' = Outstanding(Ledger(1..d - 1))
        /\ MovedOn(d)' = MovedOn(d) /\ Capital(1..d)' = Capital(1..d)
    BY <1>1, <2>1, BooksSame, FiguresOfDayKept
  <2>5. ~req[s].dirty => /\ req[s].opening = Outstanding(Ledger(1..d - 1))
                         /\ req[s].moved = MovedOn(d)
    BY <1>1, <2>1, <2>2 DEF RequestTrue
  <2> HIDE DEF r
  <2>6. req'[s] = r
    BY <1>1, <2>1 DEF TypeOK
  <2>7. RequestTrue(s)'
    BY <2>3, <2>4, <2>5, <2>6 DEF RequestTrue
  <2>8. QED
    BY <1>2, <2>1, <2>7
<1>6. CASE SnapshotCash(s)
  <2> DEFINE c == CashMovement(Ledger(1..req[s].day))
             r == [req[s] EXCEPT !.at = "cashed", !.cash = c]
  <2>1. /\ req[s].at = "funded" /\ req' = [req EXCEPT ![s] = r]
        /\ UNCHANGED <<books, snapshots>>
    BY <1>6 DEF SnapshotCash, Untouched
  <2>2. PICK d \in Days : d = req[s].day
    BY <2>1 DEF BooksInv, RequestsHold, HoldsFor
  <2>3. /\ r.at = "cashed" /\ r.day = d /\ r.opening = req[s].opening /\ r.moved = req[s].moved
        /\ r.capital = req[s].capital /\ r.cash = CashMovement(Ledger(1..d))
        /\ r.dirty = req[s].dirty
    BY <1>1, <2>2 DEF Requests
  <2>4. /\ Outstanding(Ledger(1..d - 1))' = Outstanding(Ledger(1..d - 1))
        /\ MovedOn(d)' = MovedOn(d) /\ Capital(1..d)' = Capital(1..d)
        /\ CashMovement(Ledger(1..d))' = CashMovement(Ledger(1..d))
    BY <1>1, <2>1, BooksSame, FiguresOfDayKept
  <2>5. ~req[s].dirty => /\ req[s].opening = Outstanding(Ledger(1..d - 1))
                         /\ req[s].moved = MovedOn(d) /\ req[s].capital = Capital(1..d)
    BY <1>1, <2>1, <2>2 DEF RequestTrue
  <2> HIDE DEF r
  <2>6. req'[s] = r
    BY <1>1, <2>1 DEF TypeOK
  <2>7. RequestTrue(s)'
    BY <2>3, <2>4, <2>5, <2>6 DEF RequestTrue
  <2>8. QED
    BY <1>2, <2>1, <2>7
<1>7. QED
  BY <1>3, <1>4, <1>5, <1>6

LEMMA SnapshotUpsertTrue ==
    ASSUME BooksInv, FiguresHold, CleanSnapshotIsTrue, NEW s \in Sessions, SnapshotUpsert(s)
    PROVE  FiguresHold' /\ CleanSnapshotIsTrue'
<1> DEFINE r == req[s]
           old == snapshots[r.day]
           fund == r.capital + r.cash
           locked == IF old = None THEN FALSE ELSE old.locked
           new == [opening |-> r.opening, closing |-> r.opening + r.moved, fund |-> fund,
                   locked |-> locked, dirty |-> r.dirty]
<1>1. TypeOK /\ HoldsFor(s) /\ RequestTrue(s)
  BY DEF BooksInv, RequestsHold, FiguresHold
<1>2. /\ r.at = "cashed" /\ snapshots' = [snapshots EXCEPT ![r.day] = new]
      /\ req' = [req EXCEPT ![s] = Idle] /\ UNCHANGED books
  BY DEF SnapshotUpsert
<1>3. PICK day \in Days : day = r.day
  BY <1>1, <1>2 DEF HoldsFor
<1>4. /\ new.opening = r.opening /\ new.closing = r.opening + r.moved /\ new.dirty = r.dirty
      /\ new.fund = r.capital + r.cash
  OBVIOUS
<1>5. ~r.dirty => /\ r.opening = Outstanding(Ledger(1..day - 1)) /\ r.moved = MovedOn(day)
                  /\ r.capital = Capital(1..day) /\ r.cash = CashMovement(Ledger(1..day))
  BY <1>1, <1>2, <1>3 DEF RequestTrue
<1>6. Outstanding(Ledger(1..day)) = Outstanding(Ledger(1..day - 1)) + MovedOn(day)
  BY <1>1, DayAddsItsMovements
<1>7. \A d \in Days : BooksKeptTo(d)
  BY <1>2, BooksSame
<1>8. /\ Outstanding(Ledger(1..day - 1))' = Outstanding(Ledger(1..day - 1))
      /\ Outstanding(Ledger(1..day))' = Outstanding(Ledger(1..day))
      /\ CashMovement(Ledger(1..day))' = CashMovement(Ledger(1..day))
      /\ Capital(1..day)' = Capital(1..day)
  BY <1>1, <1>7, FiguresOfDayKept
<1> HIDE DEF new, r
<1>9. snapshots'[day] = new /\ \A d \in Days \ {day} : snapshots'[d] = snapshots[d]
  BY <1>1, <1>2, <1>3 DEF TypeOK
<1>10. ASSUME NEW d \in Days PROVE SnapshotTrue(d)'
  <2>1. CASE d = day
    BY <1>4, <1>5, <1>6, <1>8, <1>9, <2>1 DEF SnapshotTrue
  <2>2. CASE d # day
    <3>1. SnapshotTrue(d) /\ snapshots'[d] = snapshots[d]
      BY <1>9, <2>2 DEF CleanSnapshotIsTrue, SnapshotTrue
    <3>2. snapshots'[d] = None \/ snapshots[d] # None
      BY <3>1
    <3>3. QED
      BY <1>1, <1>7, <3>1, <3>2, SnapshotStaysTrue
  <2>3. QED
    BY <2>1, <2>2
<1>11. RequestTrue(s)'
  <2>1. req'[s].at = "idle"
    BY <1>1, <1>2, IdleTyped DEF TypeOK
  <2>2. QED
    BY <2>1 DEF RequestTrue
<1>12. \A t \in Sessions \ {s} : req'[t] = req[t]
  BY <1>1, <1>2 DEF TypeOK
<1>13. QED
  BY <1>7, <1>10, <1>11, <1>12, UntouchedStaysTrue

(* The steps of the office.                                                *)
LEMMA OfficeTrue ==
    ASSUME BooksInv, FiguresHold, CleanSnapshotIsTrue,
           \/ \E d \in Days : LockDay(d) \/ UnlockDay(d)
           \/ DeleteLoan
           \/ \E p \in Principals : EditLoan(p)
           \/ UNCHANGED vars
    PROVE  FiguresHold' /\ CleanSnapshotIsTrue'
<1>1. UNCHANGED <<books, req>> /\ TypeOK
  BY DEF LockDay, UnlockDay, DeleteLoan, EditLoan, vars, BooksInv
<1>2. \A d \in Days : BooksKeptTo(d)
  BY <1>1, BooksSame
<1>3. ASSUME NEW t \in Sessions PROVE RequestTrue(t)'
  <2>1. RequestTrue(t) /\ HoldsFor(t)
    BY DEF FiguresHold, BooksInv, RequestsHold
  <2>2. CASE req[t].at \in {"opened", "moved", "funded", "cashed"}
    <3>1. req[t].day \in Days
      BY <2>1, <2>2 DEF HoldsFor
    <3>2. QED
      BY <1>1, <1>2, <2>1, <3>1, RequestStaysTrue
  <2>3. CASE req[t].at \notin {"opened", "moved", "funded", "cashed"}
    BY <1>1, <2>3 DEF RequestTrue
  <2>4. QED
    BY <2>2, <2>3
<1>4. ASSUME NEW d \in Days PROVE SnapshotTrue(d)'
  <2>1. SnapshotTrue(d)
    BY DEF CleanSnapshotIsTrue, SnapshotTrue
  <2>2. CASE snapshots'[d] = snapshots[d]
    <3>1. snapshots'[d] = None \/ snapshots[d] # None
      BY <2>2
    <3>2. QED
      BY <1>1, <1>2, <2>1, <2>2, <3>1, SnapshotStaysTrue
  <2>3. CASE snapshots'[d] # snapshots[d]
    <3>1. PICK e \in Days : LockDay(e) \/ UnlockDay(e)
      BY <2>3 DEF DeleteLoan, EditLoan, vars
    <3>2. PICK lock \in BOOLEAN : snapshots' = [snapshots EXCEPT ![e] = [snapshots[e] EXCEPT !.locked = lock]]
      BY <3>1 DEF LockDay, UnlockDay
    <3>3. snapshots[e] # None
      BY <3>1 DEF LockDay, UnlockDay
    <3>4. e = d
      BY <1>1, <2>3, <3>2 DEF TypeOK
    <3>5. snapshots[d] \in Snapshots /\ snapshots[d] # None
      BY <1>1, <3>3, <3>4 DEF TypeOK
    <3>6. snapshots'[d] = [snapshots[d] EXCEPT !.locked = lock]
      BY <1>1, <3>2, <3>4 DEF TypeOK
    <3>7. /\ snapshots'[d].dirty = snapshots[d].dirty
          /\ snapshots'[d].opening = snapshots[d].opening
          /\ snapshots'[d].closing = snapshots[d].closing
          /\ snapshots'[d].fund = snapshots[d].fund
      BY <3>5, <3>6 DEF Snapshots
    <3>8. QED
      BY <1>1, <1>2, <2>1, <3>5, <3>7, SnapshotStaysTrue
  <2>4. QED
    BY <2>2, <2>3
<1>5. QED
  BY <1>3, <1>4 DEF FiguresHold, CleanSnapshotIsTrue, SnapshotTrue

(* The steps of the requests that compute no snapshot.                     *)
LEMMA RequestsStayTrue ==
    ASSUME BooksInv, FiguresHold, CleanSnapshotIsTrue, NEW s \in Sessions,
           \/ \E p \in Postings, d \in Days : PostLookup(s, p, d)
           \/ \E i \in DOMAIN books : ReverseRead(s, i)
           \/ PostConflict(s) \/ ReverseDies(s) \/ AllotFails(s)
           \/ \E a \in Allocations : AllotRead(s, a)
           \/ AllotClear(s) \/ AllotCommit(s)
    PROVE  FiguresHold' /\ CleanSnapshotIsTrue'
<1>1. TypeOK /\ req[s] \in Requests
  BY DEF BooksInv, TypeOK
<1>2. ASSUME NEW r, req' = [req EXCEPT ![s] = r], UNCHANGED <<books, snapshots>>,
             r.at \notin {"opened", "moved", "funded", "cashed"}
      PROVE  FiguresHold' /\ CleanSnapshotIsTrue'
  <2>1. \A d \in Days : BooksKeptTo(d)
    BY <1>2, BooksSame
  <2>2. req'[s] = r /\ \A t \in Sessions \ {s} : req'[t] = req[t]
    BY <1>1, <1>2 DEF TypeOK
  <2>3. RequestTrue(s)'
    BY <1>2, <2>2 DEF RequestTrue
  <2>4. QED
    BY <1>2, <2>1, <2>2, <2>3, UntouchedStaysTrue, KeptSnapshotsStayTrue
<1>3. CASE \E p \in Postings, d \in Days : PostLookup(s, p, d)
  <2>1. PICK p \in Postings, d \in Days : PostLookup(s, p, d)
    BY <1>3
  <2> DEFINE r == [Idle EXCEPT !.at = "posting", !.posting = p, !.row = d]
  <2>2. req' = [req EXCEPT ![s] = r] /\ UNCHANGED <<books, snapshots>> /\ r.at = "posting"
    BY <2>1 DEF PostLookup, Begin, Idle
  <2> HIDE DEF r
  <2>3. QED
    BY <1>2, <2>2
<1>4. CASE \E i \in DOMAIN books : ReverseRead(s, i)
  <2>1. PICK i \in DOMAIN books : ReverseRead(s, i)
    BY <1>4
  <2> DEFINE r == [Idle EXCEPT !.at = "reversing", !.row = i]
  <2>2. req' = [req EXCEPT ![s] = r] /\ UNCHANGED <<books, snapshots>> /\ r.at = "reversing"
    BY <2>1 DEF ReverseRead, Begin, Idle
  <2> HIDE DEF r
  <2>3. QED
    BY <1>2, <2>2
<1>5. CASE PostConflict(s) \/ ReverseDies(s) \/ AllotFails(s) \/ AllotCommit(s)
  <2>1. req' = [req EXCEPT ![s] = Idle] /\ UNCHANGED <<books, snapshots>>
    BY <1>5 DEF PostConflict, ReverseDies, AllotFails, AllotCommit, Finished, Untouched
  <2>2. QED
    BY <1>2, <2>1, IdleTyped
<1>6. CASE AllotClear(s)
  <2> DEFINE r == [req[s] EXCEPT !.at = "clearing", !.seen = Cleared]
  <2>1. req' = [req EXCEPT ![s] = r] /\ UNCHANGED <<books, snapshots>> /\ r.at = "clearing"
    BY <1>1, <1>6 DEF AllotClear, Untouched, Requests
  <2> HIDE DEF r
  <2>2. QED
    BY <1>2, <2>1
<1>7. CASE \E a \in Allocations : AllotRead(s, a)
  <2>1. PICK a \in Allocations : AllotRead(s, a)
    BY <1>7
  <2> DEFINE others == {t \in Sessions \ {s} : Allotting(t)}
             r == [Idle EXCEPT !.at = "allotting", !.allotting = a, !.row = begun + 1,
                               !.opening = principal, !.dirty = others # {}]
  <2>2. /\ req' = [t \in Sessions |-> IF t = s THEN r
                                      ELSE IF t \in others THEN [req[t] EXCEPT !.dirty = TRUE]
                                      ELSE req[t]]
        /\ UNCHANGED <<books, snapshots>>
    BY <2>1 DEF AllotRead
  <2>3. r.at = "allotting"
    BY DEF Idle
  <2> HIDE DEF r, others
  <2>4. \A d \in Days : BooksKeptTo(d)
    BY <2>2, BooksSame
  <2>5. RequestTrue(s)'
    BY <2>2, <2>3 DEF RequestTrue
  <2>6. \A t \in Sessions \ {s} : req'[t] = req[t] \/ req'[t] = [req[t] EXCEPT !.dirty = TRUE]
    BY <2>2
  <2>7. QED
    BY <2>2, <2>4, <2>5, <2>6, UntouchedStaysTrue, KeptSnapshotsStayTrue
<1>8. QED
  BY <1>3, <1>4, <1>5, <1>6, <1>7

(***************************************************************************)
(* A snapshot whose days' books did not change while it was computed, and  *)
(* have not since, says what they say: it opens where the day before       *)
(* closed, closes at the principal outstanding, and shows the fund         *)
(* available, although it adds them up from reads made one by one.         *)
(***************************************************************************)
THEOREM CleanSnapshotsAreTrue == Spec => []CleanSnapshotIsTrue
<1>1. Init => FiguresHold /\ CleanSnapshotIsTrue
  <2> SUFFICES ASSUME Init PROVE FiguresHold /\ CleanSnapshotIsTrue
    OBVIOUS
  <2>1. \A t \in Sessions : req[t].at = "idle"
    BY IdleTyped DEF Init
  <2>2. \A d \in Days : snapshots[d] = None
    BY DEF Init
  <2>3. QED
    BY <2>1, <2>2 DEF FiguresHold, RequestTrue, CleanSnapshotIsTrue
<1>2. ASSUME BooksInv, FiguresHold, CleanSnapshotIsTrue, [Next]_vars
      PROVE  FiguresHold' /\ CleanSnapshotIsTrue'
  <2>1. ASSUME NEW s \in Sessions, PostInsert(s) \/ ReverseInsert(s) \/ ReverseFlip(s)
        PROVE  FiguresHold' /\ CleanSnapshotIsTrue'
    BY <1>2, <2>1, PostInsertTrue, ReverseInsertTrue, ReverseFlipTrue
  <2>2. ASSUME NEW s \in Sessions,
               \/ \E d \in Days : SnapshotOpening(s, d)
               \/ SnapshotMoved(s) \/ SnapshotCapital(s) \/ SnapshotCash(s)
        PROVE  FiguresHold' /\ CleanSnapshotIsTrue'
    BY <1>2, <2>2, SnapshotReadsTrue
  <2>3. ASSUME NEW s \in Sessions, SnapshotUpsert(s)
        PROVE  FiguresHold' /\ CleanSnapshotIsTrue'
    BY <1>2, <2>3, SnapshotUpsertTrue
  <2>4. ASSUME NEW s \in Sessions,
               \/ \E p \in Postings, d \in Days : PostLookup(s, p, d)
               \/ \E i \in DOMAIN books : ReverseRead(s, i)
               \/ PostConflict(s) \/ ReverseDies(s) \/ AllotFails(s)
               \/ \E a \in Allocations : AllotRead(s, a)
               \/ AllotClear(s) \/ AllotCommit(s)
        PROVE  FiguresHold' /\ CleanSnapshotIsTrue'
    BY <1>2, <2>4, RequestsStayTrue
  <2>5. ASSUME NEW i \in DOMAIN books, Reconcile(i) PROVE FiguresHold' /\ CleanSnapshotIsTrue'
    BY <1>2, <2>5, ReconcileTrue
  <2>6. CASE \/ \E d \in Days : LockDay(d) \/ UnlockDay(d)
             \/ DeleteLoan
             \/ \E p \in Principals : EditLoan(p)
             \/ UNCHANGED vars
    BY <1>2, <2>6, OfficeTrue
  <2>7. QED
    BY <1>2, <2>1, <2>2, <2>3, <2>4, <2>5, <2>6 DEF Next
<1>3. QED
  BY <1>1, <1>2, BooksInvariant, PTL DEF Spec


-----------------------------------------------------------------------------
(* Allocations. *)

\* What two allocations under way, or one under way and one committed, know of each
\* other: they are different requests, an overlap is noted on both sides, and one that
\* overlapped none has cleared all there was.
ApartFrom(s, t) == Allotting(s) /\ Allotting(t) => req[s].row # req[t].row /\ req[s].dirty
ApartFromRows(s) ==
    /\ Allotting(s) => req[s].row \notin Allotters
    /\ req[s].at = "clearing" /\ ~req[s].dirty => Allotters \subseteq req[s].seen
AllotmentsApart ==
    /\ IsFiniteSet(funding.rows)
    /\ \A row \in funding.rows : row.by <= begun
    /\ \A s \in Sessions : ApartFromRows(s)
    /\ \A s, t \in Sessions : s # t => ApartFrom(s, t)

\* A request that allocates still, or again, has at most heard of another.
Onward(t) == Allotting(t)' => req'[t] = req[t] \/ req'[t] = [req[t] EXCEPT !.dirty = TRUE]

LEMMA OnwardKept ==
    ASSUME TypeOK, NEW t \in Sessions, Onward(t), Allotting(t)'
    PROVE  /\ req'[t].at = req[t].at /\ req'[t].row = req[t].row /\ req'[t].seen = req[t].seen
           /\ req[t].dirty => req'[t].dirty
           /\ Allotting(t)
<1>1. req[t] \in Requests
  BY DEF TypeOK
<1>2. req'[t] = req[t] \/ req'[t] = [req[t] EXCEPT !.dirty = TRUE]
  BY DEF Onward
<1>3. QED
  BY <1>1, <1>2, DirtyTyped DEF Allotting

(* Two requests that go on stay apart.                                     *)
LEMMA OnwardApart ==
    ASSUME TypeOK, NEW s \in Sessions, NEW t \in Sessions, Onward(s), Onward(t), ApartFrom(s, t)
    PROVE  ApartFrom(s, t)'
BY OnwardKept DEF ApartFrom

(* A request that goes on stays apart from the rows, if they are the same. *)
LEMMA OnwardFromRows ==
    ASSUME TypeOK, NEW s \in Sessions, Onward(s), ApartFromRows(s), funding'.rows = funding.rows
    PROVE  ApartFromRows(s)'
<1>1. Allotters' = Allotters
  BY DEF Allotters
<1>2. Allotting(s)' => Allotting(s) /\ req'[s].row = req[s].row
  BY OnwardKept
<1>3. req'[s].at = "clearing" /\ ~req'[s].dirty =>
          req[s].at = "clearing" /\ ~req[s].dirty /\ req'[s].seen = req[s].seen
  BY OnwardKept DEF Allotting
<1>4. QED
  BY <1>1, <1>2, <1>3 DEF ApartFromRows

(* The rows stay no younger than the requests made.                        *)
LEMMA RowsStayOld ==
    ASSUME TypeOK, AllotmentsApart, begun' \in Nat, begun <= begun', funding'.rows = funding.rows
    PROVE  IsFiniteSet(funding'.rows) /\ \A row \in funding'.rows : row.by <= begun'
<1>1. \A row \in funding.rows : row.by \in Nat
  BY DEF TypeOK, Funding
<1>2. begun \in Nat
  BY LedgerBooksAssumption DEF TypeOK
<1>3. QED
  BY <1>1, <1>2 DEF AllotmentsApart

(* So steps that begin no allocation and change no row keep them apart.    *)
LEMMA ApartGoesOn ==
    ASSUME TypeOK, AllotmentsApart, begun' \in Nat, begun <= begun', funding'.rows = funding.rows,
           \A t \in Sessions : Onward(t)
    PROVE  AllotmentsApart'
<1>1. IsFiniteSet(funding'.rows) /\ \A row \in funding'.rows : row.by <= begun'
  BY RowsStayOld
<1>2. \A s \in Sessions : ApartFromRows(s)'
  BY OnwardFromRows DEF AllotmentsApart
<1>3. ASSUME NEW s \in Sessions, NEW t \in Sessions, s # t
      PROVE  ApartFrom(s, t)'
  BY <1>3, OnwardApart DEF AllotmentsApart
<1>4. QED
  BY <1>1, <1>2, <1>3 DEF AllotmentsApart

(* And if the principal they are checked against stays too, they stay      *)
(* whole.                                                                  *)
LEMMA WholeGoesOn ==
    ASSUME AllocationsAreWhole, UNCHANGED <<funding, principal>>
    PROVE  AllocationsAreWhole'
<1>1. Allotters' = Allotters /\ \A b : AllottedBy(b)' = AllottedBy(b)
  BY DEF Allotters, AllottedBy
<1>2. QED
  BY <1>1 DEF AllocationsAreWhole

(* Most steps are of this kind.                                            *)
LEMMA OthersKeepWhole ==
    ASSUME BooksInv, AllotmentsApart, AllocationsAreWhole, BooksInv', NEW s \in Sessions,
           \/ \E p \in Postings, d \in Days : PostLookup(s, p, d)
           \/ PostInsert(s) \/ PostConflict(s)
           \/ \E i \in DOMAIN books : ReverseRead(s, i)
           \/ ReverseInsert(s) \/ ReverseFlip(s) \/ ReverseDies(s)
           \/ \E d \in Days : SnapshotOpening(s, d)
           \/ SnapshotMoved(s) \/ SnapshotCapital(s) \/ SnapshotCash(s) \/ SnapshotUpsert(s)
           \/ AllotFails(s)
    PROVE  AllotmentsApart' /\ AllocationsAreWhole'
<1>1. TypeOK /\ TypeOK' /\ req[s] \in Requests
  BY DEF BooksInv, TypeOK
<1>2. begun \in Nat /\ begun' \in Nat
  BY <1>1, LedgerBooksAssumption DEF TypeOK
<1>3. UNCHANGED <<funding, principal>> /\ begun <= begun'
  <2>1. ASSUME NEW r, Begin(s, r) PROVE UNCHANGED <<funding, principal>> /\ begun <= begun'
    BY <1>2, <2>1 DEF Begin, NewRequest, loanVars
  <2>2. CASE \/ \E p \in Postings, d \in Days : PostLookup(s, p, d)
             \/ \E i \in DOMAIN books : ReverseRead(s, i)
             \/ \E d \in Days : SnapshotOpening(s, d)
    BY <2>1, <2>2 DEF PostLookup, ReverseRead, SnapshotOpening
  <2>3. CASE ReverseInsert(s) \/ ReverseFlip(s) \/ ReverseDies(s)
    BY <1>2, <2>3 DEF ReverseInsert, ReverseFlip, ReverseDies, loanVars
  <2>4. CASE SnapshotMoved(s) \/ SnapshotCapital(s) \/ SnapshotCash(s) \/ SnapshotUpsert(s)
    BY <1>2, <2>4 DEF SnapshotMoved, SnapshotCapital, SnapshotCash, SnapshotUpsert, loanVars
  <2>5. CASE PostInsert(s) \/ PostConflict(s) \/ AllotFails(s)
    BY <1>2, <2>5 DEF PostInsert, PostConflict, AllotFails, Finished, loanVars
  <2>6. QED
    BY <2>2, <2>3, <2>4, <2>5
<1>4. SUFFICES \A t \in Sessions : Onward(t)
  BY <1>1, <1>2, <1>3, ApartGoesOn, WholeGoesOn
<1>5. ASSUME NEW r, r.at \notin {"allotting", "clearing"}, req' = [req EXCEPT ![s] = r]
      PROVE  \A t \in Sessions : Onward(t)
  BY <1>1, <1>5 DEF Onward, Allotting, TypeOK
<1>6. ASSUME NEW r, r.at \notin {"allotting", "clearing"}, NEW day, Touched(s, r, day)
      PROVE  \A t \in Sessions : Onward(t)
  <2>1. req' = [t \in Sessions |-> IF t = s THEN r
                                   ELSE IF req[t].day < day THEN req[t]
                                   ELSE [req[t] EXCEPT !.dirty = TRUE]]
    BY <1>6 DEF Touched
  <2>2. QED
    BY <1>6, <2>1 DEF Onward, Allotting
<1>7. CASE \E p \in Postings, d \in Days : PostLookup(s, p, d)
  <2>1. PICK p \in Postings, d \in Days : PostLookup(s, p, d)
    BY <1>7
  <2> DEFINE r == [Idle EXCEPT !.at = "posting", !.posting = p, !.row = d]
  <2>2. req' = [req EXCEPT ![s] = r] /\ r.at = "posting"
    BY <2>1 DEF PostLookup, Begin, Idle
  <2> HIDE DEF r
  <2>3. QED
    BY <1>5, <2>2
<1>8. CASE \E i \in DOMAIN books : ReverseRead(s, i)
  <2>1. PICK i \in DOMAIN books : ReverseRead(s, i)
    BY <1>8
  <2> DEFINE r == [Idle EXCEPT !.at = "reversing", !.row = i]
  <2>2. req' = [req EXCEPT ![s] = r] /\ r.at = "reversing"
    BY <2>1 DEF ReverseRead, Begin, Idle
  <2> HIDE DEF r
  <2>3. QED
    BY <1>5, <2>2
<1>9. CASE \E d \in Days : SnapshotOpening(s, d)
  <2>1. PICK d \in Days : SnapshotOpening(s, d)
    BY <1>9
  <2> DEFINE r == [Idle EXCEPT !.at = "opened", !.day = d, !.opening = Outstanding(Ledger(1..d - 1))]
  <2>2. req' = [req EXCEPT ![s] = r] /\ r.at = "opened"
    BY <2>1 DEF SnapshotOpening, Begin, Idle
  <2> HIDE DEF r
  <2>3. QED
    BY <1>5, <2>2
<1>10. CASE PostConflict(s) \/ ReverseDies(s) \/ SnapshotUpsert(s) \/ AllotFails(s)
  <2>1. req' = [req EXCEPT ![s] = Idle]
    BY <1>10 DEF PostConflict, ReverseDies, SnapshotUpsert, AllotFails, Finished, Untouched
  <2>2. QED
    BY <1>5, <2>1, IdleTyped
<1>11. CASE ReverseInsert(s)
  <2> DEFINE r == [req[s] EXCEPT !.at = "flipping"]
  <2>1. req' = [req EXCEPT ![s] = r] /\ r.at = "flipping"
    BY <1>1, <1>11 DEF ReverseInsert, Untouched, Requests
  <2> HIDE DEF r
  <2>2. QED
    BY <1>5, <2>1
<1>12. CASE SnapshotMoved(s)
  <2> DEFINE r == [req[s] EXCEPT !.at = "moved", !.moved = MovedOn(req[s].day)]
  <2>1. req' = [req EXCEPT ![s] = r] /\ r.at = "moved"
    BY <1>1, <1>12 DEF SnapshotMoved, Untouched, Requests
  <2> HIDE DEF r
  <2>2. QED
    BY <1>5, <2>1
<1>13. CASE SnapshotCapital(s)
  <2> DEFINE r == [req[s] EXCEPT !.at = "funded", !.capital = Capital(1..req[s].day)]
  <2>1. req' = [req EXCEPT ![s] = r] /\ r.at = "funded"
    BY <1>1, <1>13 DEF SnapshotCapital, Untouched, Requests
  <2> HIDE DEF r
  <2>2. QED
    BY <1>5, <2>1
<1>14. CASE SnapshotCash(s)
  <2> DEFINE r == [req[s] EXCEPT !.at = "cashed", !.cash = CashMovement(Ledger(1..req[s].day))]
  <2>1. req' = [req EXCEPT ![s] = r] /\ r.at = "cashed"
    BY <1>1, <1>14 DEF SnapshotCash, Untouched, Requests
  <2> HIDE DEF r
  <2>2. QED
    BY <1>5, <2>1
<1>15. CASE PostInsert(s)
  <2>1. Touched(s, Idle, req[s].row)
    BY <1>15 DEF PostInsert
  <2>2. QED
    BY <1>6, <2>1, IdleTyped
<1>16. CASE ReverseFlip(s)
  <2>1. Touched(s, Idle, books[req[s].row].day) \/ req' = [req EXCEPT ![s] = Idle]
    BY <1>16 DEF ReverseFlip, Untouched
  <2>2. QED
    BY <1>5, <1>6, <2>1, IdleTyped
<1>17. QED
  BY <1>7, <1>8, <1>9, <1>10, <1>11, <1>12, <1>13, <1>14, <1>15, <1>16

(* A request that begins to allocate is younger than every row, and it and *)
(* those under way hear of each other.                                     *)
LEMMA AllotReadWhole ==
    ASSUME BooksInv, AllotmentsApart, AllocationsAreWhole, BooksInv',
           NEW s \in Sessions, NEW a \in Allocations, AllotRead(s, a)
    PROVE  AllotmentsApart' /\ AllocationsAreWhole'
<1> DEFINE others == {t \in Sessions \ {s} : Allotting(t)}
           r == [Idle EXCEPT !.at = "allotting", !.allotting = a, !.row = begun + 1,
                             !.opening = principal, !.dirty = others # {}]
<1>1. TypeOK /\ begun \in Nat /\ \A t \in Sessions : req[t] \in Requests
  BY LedgerBooksAssumption DEF BooksInv, TypeOK
<1>2. /\ UNCHANGED <<funding, principal>> /\ begun' = begun + 1
      /\ req' = [t \in Sessions |-> IF t = s THEN r
                                    ELSE IF t \in others THEN [req[t] EXCEPT !.dirty = TRUE]
                                    ELSE req[t]]
  BY DEF AllotRead, loanVars, NewRequest
<1>3. r.at = "allotting" /\ r.row = begun + 1 /\ r.dirty = (others # {})
  BY DEF Idle
<1> HIDE DEF r
<1>4. begun' \in Nat /\ begun <= begun'
  BY <1>1, <1>2
<1>5. \A t \in Sessions \ {s} : Onward(t)
  BY <1>2 DEF Onward
<1>6. IsFiniteSet(funding'.rows) /\ \A row \in funding'.rows : row.by <= begun'
  BY <1>1, <1>2, <1>4, RowsStayOld
<1>7. ApartFromRows(s)'
  <2>1. begun + 1 \notin Allotters
    BY <1>1 DEF AllotmentsApart, Allotters
  <2>2. Allotters' = Allotters /\ req'[s] = r
    BY <1>2 DEF Allotters
  <2>3. QED
    BY <1>3, <2>1, <2>2 DEF ApartFromRows
<1>8. ASSUME NEW t \in Sessions \ {s}
      PROVE  ApartFrom(s, t)' /\ ApartFrom(t, s)' /\ ApartFromRows(t)'
  <2>1. ApartFromRows(t)'
    BY <1>1, <1>2, <1>5, OnwardFromRows DEF AllotmentsApart
  <2>2. CASE ~Allotting(t)'
    BY <2>1, <2>2 DEF ApartFrom
  <2>3. CASE Allotting(t)'
    <3>1. Allotting(t) /\ req'[t].row = req[t].row
      BY <1>1, <1>5, <2>3, OnwardKept
    <3>2. t \in others /\ req'[s] = r /\ req'[t] = [req[t] EXCEPT !.dirty = TRUE]
      BY <1>2, <3>1
    <3>3. req[t].row \in 1..begun
      BY <3>1 DEF BooksInv, RequestsHold, HoldsFor
    <3>4. r.row # req'[t].row
      BY <1>1, <1>3, <3>1, <3>3
    <3>5. r.dirty /\ req'[t].dirty
      <4>1. req[t] \in Requests
        BY <1>1
      <4>2. QED
        BY <1>3, <3>2, <4>1, DirtyTyped DEF Requests
    <3>6. QED
      BY <2>1, <3>2, <3>4, <3>5 DEF ApartFrom
  <2>4. QED
    BY <2>2, <2>3
<1>9. ASSUME NEW t \in Sessions \ {s}, NEW u \in Sessions \ {s}, t # u
      PROVE  ApartFrom(t, u)'
  BY <1>1, <1>5, <1>9, OnwardApart DEF AllotmentsApart
<1>10. \A t \in Sessions : ApartFromRows(t)'
  BY <1>7, <1>8
<1>11. \A t, u \in Sessions : t # u => ApartFrom(t, u)'
  BY <1>8, <1>9
<1>12. QED
  BY <1>2, <1>6, <1>10, <1>11, WholeGoesOn DEF AllotmentsApart

(* What it clears is all there is.                                         *)
LEMMA AllotClearWhole ==
    ASSUME BooksInv, AllotmentsApart, AllocationsAreWhole, BooksInv', NEW s \in Sessions,
           AllotClear(s)
    PROVE  AllotmentsApart' /\ AllocationsAreWhole'
<1> DEFINE one == [req[s] EXCEPT !.at = "clearing"]
           r == [one EXCEPT !.seen = Cleared]
<1>1. TypeOK /\ begun \in Nat /\ req[s] \in Requests /\ Cleared = Allotters
  BY LedgerBooksAssumption DEF BooksInv, TypeOK, Cleared, Allotters
<1>2. /\ req[s].at = "allotting" /\ req' = [req EXCEPT ![s] = r]
      /\ UNCHANGED <<principal, funding, begun>>
  BY DEF AllotClear, Untouched, loanVars
<1>3. /\ one \in Requests /\ one.at = "clearing" /\ one.row = req[s].row
      /\ one.dirty = req[s].dirty
  BY <1>1, AtChanged DEF Steps
<1> HIDE DEF one
<1>4. r.row = req[s].row /\ r.dirty = req[s].dirty /\ r.seen = Allotters
  BY <1>1, <1>3 DEF Requests
<1> HIDE DEF r
<1>5. req'[s] = r /\ \A t \in Sessions \ {s} : req'[t] = req[t]
  BY <1>1, <1>2 DEF TypeOK
<1>6. \A t \in Sessions \ {s} : Onward(t)
  BY <1>5 DEF Onward
<1>7. Allotting(s) /\ Allotters' = Allotters
  BY <1>2 DEF Allotting, Allotters
<1>8. ApartFromRows(s)'
  BY <1>4, <1>5, <1>7 DEF AllotmentsApart, ApartFromRows
<1>9. ASSUME NEW t \in Sessions \ {s}
      PROVE  ApartFrom(s, t)' /\ ApartFrom(t, s)' /\ ApartFromRows(t)'
  <2>1. ApartFrom(s, t) /\ ApartFrom(t, s) /\ ApartFromRows(t)
    BY DEF AllotmentsApart
  <2>2. QED
    BY <1>1, <1>2, <1>4, <1>5, <1>6, <1>7, <2>1, OnwardFromRows DEF ApartFrom, Allotting
<1>10. ASSUME NEW t \in Sessions \ {s}, NEW u \in Sessions \ {s}, t # u
      PROVE  ApartFrom(t, u)'
  BY <1>1, <1>6, <1>10, OnwardApart DEF AllotmentsApart
<1>11. \A t \in Sessions : ApartFromRows(t)'
  BY <1>8, <1>9
<1>12. \A t, u \in Sessions : t # u => ApartFrom(t, u)'
  BY <1>9, <1>10
<1>13. QED
  BY <1>2, <1>11, <1>12, WholeGoesOn DEF AllotmentsApart

(* The rows an allocation inserts are its funders', and add up to its      *)
(* total.                                                                  *)
LEMMA AllottedSum ==
    ASSUME NEW s \in Sessions, req[s].allotting \in Allocations,
           NEW g, \A row \in Allotted(s) : g[row] = row.amount
    PROVE  /\ IsFiniteSet(Allotted(s))
           /\ SumFunctionOnSet(g, Allotted(s)) = TotalOf(req[s].allotting)
<1> DEFINE a == req[s].allotting
           D == DOMAIN a
           image == [f \in D |-> [funder |-> f, amount |-> a[f], by |-> req[s].row]]
<1>1. Allotted(s) = {image[f] : f \in D}
  BY DEF Allotted
<1>2. IsFiniteSet(D) /\ \A f \in D : a[f] \in Int
  BY LedgerBooksAssumption
<1>3. \A f \in D : image[f].funder = f /\ image[f].amount = a[f]
  OBVIOUS
<1>4. DOMAIN image = D /\ TotalOf(a) = SumFunctionOnSet(a, D)
  BY DEF TotalOf
<1> HIDE DEF image, D, a
<1>5. IntegersOn(a, D)
  BY <1>2 DEF IntegersOn
<1>6. \A e, f \in D : image[e] = image[f] => e = f
  BY <1>3
<1>7. \A f \in D : g[image[f]] = a[f]
  BY <1>1, <1>3
<1>8. QED
  BY <1>1, <1>4, <1>5, <1>6, <1>7, SumOfImage, SMTT(30) DEF a

(* A commit replaces what it has seen by its own rows, which add up to the *)
(* principal it was checked against; what it has not seen was committed by *)
(* requests that overlapped it, and stays as it is.                        *)
LEMMA AllotCommitWhole ==
    ASSUME BooksInv, AllotmentsApart, AllocationsAreWhole, BooksInv', NEW s \in Sessions,
           AllotCommit(s)
    PROVE  AllotmentsApart' /\ AllocationsAreWhole'
<1> DEFINE own == req[s].row
           outdated == req[s].opening # principal \/ (funding.outdated /\ Kept(s) # {})
<1>1. /\ TypeOK /\ TypeOK' /\ begun \in Nat
      /\ \A t \in Sessions : req[t] \in Requests /\ HoldsFor(t)
  BY LedgerBooksAssumption DEF BooksInv, TypeOK, RequestsHold
<1>2. /\ req[s].at = "clearing" /\ req' = [req EXCEPT ![s] = Idle]
      /\ funding'.rows = Kept(s) \cup Allotted(s) /\ funding'.mixed = req[s].dirty
      /\ funding'.outdated = outdated
      /\ UNCHANGED <<principal, begun>>
  BY DEF AllotCommit, Untouched
<1>3. /\ Allotting(s) /\ req[s].allotting \in Allocations
      /\ TotalOf(req[s].allotting) = req[s].opening /\ own \in 1..begun /\ own \notin Allotters
      /\ ApartFromRows(s)
  BY <1>1, <1>2 DEF Allotting, HoldsFor, AllotmentsApart, ApartFromRows
<1>4. req'[s].at = "idle" /\ \A t \in Sessions \ {s} : req'[t] = req[t]
  BY <1>1, <1>2, IdleTyped DEF TypeOK
<1>5. /\ Kept(s) \subseteq funding.rows /\ \A row \in Kept(s) : row.by \in Allotters \ req[s].seen
      /\ \A row \in Allotted(s) : row.by = own
  BY DEF Kept, Allotted, Allotters
<1>6. IsFiniteSet(Kept(s)) /\ IsFiniteSet(Allotted(s)) /\ IsFiniteSet(funding'.rows)
  <2>1. IsFiniteSet(Kept(s))
    BY <1>5, FS_Subset DEF AllotmentsApart
  <2>2. IsFiniteSet(Allotted(s))
    <3> DEFINE g == [row \in Allotted(s) |-> row.amount]
    <3>1. \A row \in Allotted(s) : g[row] = row.amount
      OBVIOUS
    <3> HIDE DEF g
    <3>2. QED
      BY <1>3, <3>1, AllottedSum
  <2>3. QED
    BY <1>2, <2>1, <2>2, FS_Union
<1> HIDE DEF own, outdated
<1>7. AllotmentsApart'
  <2>1. \A row \in funding'.rows : row.by <= begun'
    BY <1>1, <1>2, <1>3, <1>5 DEF AllotmentsApart
  <2>2. ASSUME NEW t \in Sessions PROVE ApartFromRows(t)'
    <3>1. CASE t = s
      BY <1>4, <3>1 DEF ApartFromRows, Allotting
    <3>2. CASE t # s /\ ~Allotting(t)
      BY <1>4, <3>2 DEF ApartFromRows, Allotting
    <3>3. CASE t # s /\ Allotting(t)
      <4>1. req'[t] = req[t] /\ req[t].row # own /\ req[t].dirty
        BY <1>3, <1>4, <3>3 DEF AllotmentsApart, ApartFrom, own
      <4>2. req[t].row \notin Allotters
        BY <3>3 DEF AllotmentsApart, ApartFromRows
      <4>3. Allotters' \subseteq Allotters \cup {own}
        BY <1>2, <1>5 DEF Allotters
      <4>4. QED
        BY <4>1, <4>2, <4>3 DEF ApartFromRows
    <3>4. QED
      BY <3>1, <3>2, <3>3
  <2>3. ASSUME NEW t \in Sessions, NEW u \in Sessions, t # u PROVE ApartFrom(t, u)'
    <3>1. CASE t = s \/ u = s
      BY <1>4, <3>1 DEF ApartFrom, Allotting
    <3>2. CASE t # s /\ u # s
      <4>1. ApartFrom(t, u)
        BY <2>3 DEF AllotmentsApart
      <4>2. QED
        BY <1>4, <3>2, <4>1 DEF ApartFrom, Allotting
    <3>3. QED
      BY <3>1, <3>2
  <2>4. QED
    BY <1>6, <2>1, <2>2, <2>3 DEF AllotmentsApart
<1>8. ASSUME ~funding'.outdated, NEW b \in Allotters' PROVE AllottedBy(b)' = principal'
  <2> DEFINE g == [row \in funding'.rows |-> row.amount]
             by == {row \in funding'.rows : row.by = b}
  <2>1. AllottedBy(b)' = SumFunctionOnSet(g, by)
    BY DEF AllottedBy
  <2>2. \A row \in funding'.rows : g[row] = row.amount
    OBVIOUS
  <2>3. CASE b = own
    <3>1. by = Allotted(s)
      BY <1>2, <1>3, <1>5, <2>3
    <3>2. \A row \in Allotted(s) : g[row] = row.amount
      BY <1>2, <2>2
    <3> HIDE DEF g, by
    <3>3. SumFunctionOnSet(g, Allotted(s)) = TotalOf(req[s].allotting)
      BY <1>3, <3>2, AllottedSum
    <3>4. QED
      BY <1>2, <1>3, <1>8, <2>1, <3>1, <3>3 DEF outdated
  <2>4. CASE b # own
    <3> DEFINE f == [row \in funding.rows |-> row.amount]
               old == {row \in funding.rows : row.by = b}
    <3>1. PICK row \in Kept(s) : row.by = b
      BY <1>2, <1>5, <2>4 DEF Allotters
    <3>2. b \notin req[s].seen /\ b \in Allotters
      BY <1>5, <3>1
    <3>3. by = old
      <4>1. old \subseteq Kept(s)
        BY <3>2 DEF Kept
      <4>2. QED
        BY <1>2, <1>5, <2>4, <4>1
    <3>4. ~funding.outdated
      BY <1>2, <1>8, <3>1 DEF outdated
    <3>5. SumFunctionOnSet(f, old) = principal
      BY <3>2, <3>4 DEF AllocationsAreWhole, AllottedBy
    <3>6. \A x \in old : f[x] \in Int /\ f[x] = g[x]
      <4>1. \A x \in funding.rows : x.amount \in Int
        BY <1>1 DEF TypeOK, Funding
      <4>2. \A x \in old : f[x] = x.amount /\ x \in funding'.rows
        BY <3>3
      <4>3. QED
        BY <2>2, <4>1, <4>2
    <3>7. IsFiniteSet(old)
      BY FS_Subset DEF AllotmentsApart
    <3> HIDE DEF f, g, old, by
    <3>8. SumFunctionOnSet(f, old) = SumFunctionOnSet(g, old)
      BY <3>6, <3>7, SumOfEquals DEF IntegersOn
    <3>9. QED
      BY <1>2, <2>1, <3>3, <3>5, <3>8
  <2>5. QED
    BY <2>3, <2>4
<1>9. ASSUME ~funding'.mixed PROVE Cardinality(Allotters') <= 1
  <2>1. Kept(s) = {}
    BY <1>2, <1>3, <1>5, <1>9 DEF ApartFromRows
  <2>2. Allotters' = {} \/ Allotters' = {own}
    BY <1>2, <1>5, <2>1 DEF Allotters
  <2>3. Cardinality({}) = 0 /\ Cardinality({own}) = 1
    BY FS_EmptySet, FS_Singleton
  <2>4. QED
    BY <2>2, <2>3
<1>10. QED
  BY <1>7, <1>8, <1>9 DEF AllocationsAreWhole

(* The steps of the office: an edit makes the rows, if there are any,      *)
(* outdated.                                                               *)
LEMMA OfficeKeepsWhole ==
    ASSUME BooksInv, AllotmentsApart, AllocationsAreWhole, BooksInv',
           \/ \E i \in DOMAIN books : Reconcile(i)
           \/ \E d \in Days : LockDay(d) \/ UnlockDay(d)
           \/ DeleteLoan
           \/ \E p \in Principals : EditLoan(p)
           \/ UNCHANGED vars
    PROVE  AllotmentsApart' /\ AllocationsAreWhole'
<1>1. TypeOK /\ begun \in Nat /\ begun' \in Nat /\ funding \in Funding
  BY LedgerBooksAssumption DEF BooksInv, TypeOK
<1>2. UNCHANGED req /\ begun <= begun'
  BY <1>1 DEF Reconcile, LockDay, UnlockDay, DeleteLoan, EditLoan, NewRequest, vars
<1>3. \A t \in Sessions : Onward(t)
  BY <1>2 DEF Onward
<1>4. CASE \E p \in Principals : EditLoan(p)
  <2>1. /\ funding'.rows = funding.rows /\ funding'.mixed = funding.mixed
        /\ funding'.outdated = (funding.rows # {})
    BY <1>1, <1>4 DEF EditLoan, Funding
  <2>2. Allotters' = Allotters /\ (~funding'.outdated => Allotters = {})
    BY <2>1 DEF Allotters
  <2>3. AllocationsAreWhole'
    BY <2>1, <2>2 DEF AllocationsAreWhole
  <2>4. QED
    BY <1>1, <1>2, <1>3, <2>1, <2>3, ApartGoesOn
<1>5. CASE ~(\E p \in Principals : EditLoan(p))
  <2>1. UNCHANGED <<funding, principal>>
    BY <1>5 DEF Reconcile, LockDay, UnlockDay, DeleteLoan, vars, loanVars
  <2>2. QED
    BY <1>1, <1>2, <1>3, <2>1, ApartGoesOn, WholeGoesOn
<1>6. QED
  BY <1>4, <1>5

(***************************************************************************)
(* Whatever the requests that allocate a loan do to each other, every      *)
(* allocation that stays is whole: its rows add up to the principal, and   *)
(* there is one only unless two overlapped.                                *)
(***************************************************************************)
THEOREM AllocationsStayWhole == Spec => []AllocationsAreWhole
<1>1. Init => AllotmentsApart /\ AllocationsAreWhole
  <2> SUFFICES ASSUME Init PROVE AllotmentsApart /\ AllocationsAreWhole
    OBVIOUS
  <2>1. \A t \in Sessions : ~Allotting(t) /\ req[t].at # "clearing"
    BY IdleTyped DEF Init, Allotting
  <2>2. funding.rows = {} /\ Allotters = {}
    BY DEF Init, Allotters
  <2>3. QED
    BY <2>1, <2>2, FS_EmptySet DEF AllotmentsApart, ApartFrom, ApartFromRows, AllocationsAreWhole
<1>2. ASSUME BooksInv, AllotmentsApart, AllocationsAreWhole, [Next]_vars
      PROVE  AllotmentsApart' /\ AllocationsAreWhole'
  <2>0. BooksInv'
    BY <1>2, NextBooks
  <2>1. ASSUME NEW s \in Sessions,
               \/ \E p \in Postings, d \in Days : PostLookup(s, p, d)
               \/ PostInsert(s) \/ PostConflict(s)
               \/ \E i \in DOMAIN books : ReverseRead(s, i)
               \/ ReverseInsert(s) \/ ReverseFlip(s) \/ ReverseDies(s)
               \/ \E d \in Days : SnapshotOpening(s, d)
               \/ SnapshotMoved(s) \/ SnapshotCapital(s) \/ SnapshotCash(s) \/ SnapshotUpsert(s)
               \/ AllotFails(s)
        PROVE  AllotmentsApart' /\ AllocationsAreWhole'
    BY <1>2, <2>0, <2>1, OthersKeepWhole
  <2>2. ASSUME NEW s \in Sessions, NEW a \in Allocations, AllotRead(s, a)
        PROVE  AllotmentsApart' /\ AllocationsAreWhole'
    BY <1>2, <2>0, <2>2, AllotReadWhole
  <2>3. ASSUME NEW s \in Sessions, AllotClear(s)
        PROVE  AllotmentsApart' /\ AllocationsAreWhole'
    BY <1>2, <2>0, <2>3, AllotClearWhole
  <2>4. ASSUME NEW s \in Sessions, AllotCommit(s)
        PROVE  AllotmentsApart' /\ AllocationsAreWhole'
    BY <1>2, <2>0, <2>4, AllotCommitWhole
  <2>5. CASE \/ \E i \in DOMAIN books : Reconcile(i)
             \/ \E d \in Days : LockDay(d) \/ UnlockDay(d)
             \/ DeleteLoan
             \/ \E p \in Principals : EditLoan(p)
             \/ UNCHANGED vars
    BY <1>2, <2>0, <2>5, OfficeKeepsWhole
  <2>6. QED
    BY <1>2, <2>1, <2>2, <2>3, <2>4, <2>5 DEF Next
<1>3. QED
  BY <1>1, <1>2, BooksInvariant, PTL DEF Spec
=============================================================================
