------------------------- MODULE Collections_proofs -------------------------
(***************************************************************************)
(* Proofs about Collections, for every number of installments and of       *)
(* requests and every assignment of amounts and keys to them: its types,   *)
(* the agreement of installment status with balance and of the ledger with *)
(* the payments, what a settlement never does to an installment, and the   *)
(* sums of money: that installments hold what their live payments add up   *)
(* to, and that a collection which was overtaken by nothing is applied to  *)
(* the last rupee.                                                         *)
(***************************************************************************)
EXTENDS Collections, SumTheorems, SequenceTheorems, TLAPS

(***************************************************************************)
(* LedgerFollowsPayments without the cardinalities, and with what keeps it *)
(* true: every ledger row belongs to a payment that exists, each payment   *)
(* has one original row, and that row tells by its status whether the      *)
(* payment is live and whether a negated row stands against it.            *)
(***************************************************************************)
Original(p, i) == \A j \in DOMAIN ledger : (ledger[j].pay = p /\ ~ledger[j].reversal) <=> j = i
Reversal(p, j) == j \in DOMAIN ledger /\ ledger[j].pay = p /\ ledger[j].reversal

Accounted(p, i) ==
    /\ Original(p, i)
    /\ ledger[i].amount = payments[p].amount
    /\ ledger[i].status = "POSTED" => Live(p)
    /\ ledger[i].status = "REVERSED" =>
          /\ ~Live(p)
          /\ \E j \in DOMAIN ledger :
                /\ \A k \in DOMAIN ledger : Reversal(p, k) <=> k = j
                /\ ledger[j].amount = -ledger[i].amount
    /\ ledger[i].status # "REVERSED" => \A k \in DOMAIN ledger : ~Reversal(p, k)

PostingsHavePayments == \A i \in DOMAIN ledger : ledger[i].pay \in DOMAIN payments
LedgerAgrees ==
    /\ PostingsHavePayments
    /\ \A p \in DOMAIN payments : \E i \in DOMAIN ledger : Accounted(p, i)

IInv == TypeOK /\ StatusTellsBalance /\ LedgerAgrees

-----------------------------------------------------------------------------
(* The latest of some payments is one of them.                             *)
LEMMA LatestIsOne ==
    ASSUME NEW n \in Nat, NEW T \in SUBSET (1..n), T # {}
    PROVE  Max(T) \in T
<1>1. IsFiniteSet(1..n) /\ T \in SUBSET Int
  BY FS_Interval
<1>2. IsFiniteSet(T)
  BY <1>1, FS_Subset
<1>3. QED
  BY <1>1, <1>2, GreatestElement

-----------------------------------------------------------------------------
(* The pieces of the state, and what crediting an installment makes of it. *)

LEMMA LesserTaken ==
    ASSUME NEW a \in Int, NEW b \in Int, a - Lesser(a, b) > 0
    PROVE  Lesser(a, b) = b
BY DEF Lesser

LEMMA AskTyped ==
    ASSUME TypeOK, NEW t \in Tries
    PROVE  /\ ask[t] \in Requests
           /\ Requested(t) \in RowNumbers
           /\ Amount(t) \in 1..MaxAmount
           /\ ask[t].key \in Keys \cup {None}
BY CollectionsAssumption DEF TypeOK, Requests, Requested, Amount

LEMMA RowTyped ==
    ASSUME TypeOK, NEW r \in RowNumbers
    PROVE  /\ rows[r] \in Rows
           /\ rows[r].paid \in Nat
           /\ rows[r].status \in Unpaid \cup {"PAID", "WAIVED"}
           /\ Balance(r) \in Int
           /\ Balance(r) = Total - rows[r].paid
BY CollectionsAssumption DEF TypeOK, Rows, Balance

LEMMA StatusTyped ==
    ASSUME NEW paid \in Nat
    PROVE  /\ StatusOfBalance(paid) \in Unpaid \cup {"PAID"}
           /\ StatusOfBalance(paid) = "PAID" <=> paid >= Total
BY CollectionsAssumption DEF StatusOfBalance, Unpaid

LEMMA CreditedTyped ==
    ASSUME NEW row \in Rows, NEW amount \in Nat
    PROVE  /\ Credited(row, amount) \in Rows
           /\ Credited(row, amount).paid = row.paid + amount
           /\ Credited(row, amount).status = StatusOfBalance(row.paid + amount)
<1>1. row.paid + amount \in Nat
  BY DEF Rows
<1>2. StatusOfBalance(row.paid + amount) \in Unpaid \cup {"PAID"}
  BY <1>1, StatusTyped
<1>3. QED
  BY <1>1, <1>2 DEF Rows, Credited

(* An open installment still has something to pay. *)
LEMMA OpenOwes ==
    ASSUME TypeOK, StatusTellsBalance, NEW r \in RowNumbers, Open(r)
    PROVE  Balance(r) > 0
<1>1. rows[r].status # "WAIVED" /\ rows[r].status # "PAID"
  BY DEF Open, Unpaid
<1>2. rows[r].status = StatusOfBalance(rows[r].paid)
  BY <1>1 DEF StatusTellsBalance
<1>3. ~(rows[r].paid >= Total)
  BY <1>1, <1>2, RowTyped, StatusTyped
<1>4. QED
  BY <1>3, RowTyped, CollectionsAssumption

-----------------------------------------------------------------------------
(* The settlement loop. *)

LEMMA SettlesRow ==
    ASSUME TypeOK, StatusTellsBalance, NEW t \in Tries,
           NEW left \in [0..NumRows -> 0..MaxAmount], Settles(t, left),
           NEW r \in RowNumbers
    PROVE  /\ left[r - 1] \in 0..MaxAmount
           /\ left[r] \in 0..left[r - 1]
           /\ r \in PaidRows(left) => /\ r <= Requested(t)
                                      /\ Open(r)
                                      /\ Applied(left, r) \in 1..MaxAmount
                                      /\ Applied(left, r) <= Balance(r)
<1>1. r \in 0..NumRows /\ r - 1 \in 0..NumRows /\ NumRows \in Nat /\ MaxAmount \in Nat
  BY CollectionsAssumption DEF RowNumbers
<1>2. left[r] \in 0..MaxAmount /\ left[r - 1] \in 0..MaxAmount
  BY <1>1
<1>3. left[r] = IF r <= Requested(t) /\ Open(r)
                THEN left[r - 1] - Lesser(left[r - 1], Balance(r)) ELSE left[r - 1]
  BY DEF Settles
<1>4. Applied(left, r) = left[r - 1] - left[r]
  BY DEF Applied
<1>5. r \in PaidRows(left) <=> Applied(left, r) > 0
  BY DEF PaidRows
<1>6. CASE r <= Requested(t) /\ Open(r)
  <2>1. Balance(r) \in Int /\ Balance(r) > 0
    BY <1>6, OpenOwes, RowTyped
  <2>2. left[r] = left[r - 1] - Lesser(left[r - 1], Balance(r))
    BY <1>3, <1>6
  <2>3. QED
    BY <1>1, <1>2, <1>4, <1>5, <1>6, <2>1, <2>2 DEF Lesser
<1>7. CASE ~(r <= Requested(t) /\ Open(r))
  <2>1. left[r] = left[r - 1]
    BY <1>3, <1>7
  <2>2. QED
    BY <1>1, <1>2, <1>4, <1>5, <2>1
<1>8. QED
  BY <1>6, <1>7

LEMMA LeftDescends ==
    ASSUME TypeOK, StatusTellsBalance, NEW t \in Tries,
           NEW left \in [0..NumRows -> 0..MaxAmount], Settles(t, left),
           NEW q \in 0..NumRows, NEW r \in 0..NumRows, q <= r
    PROVE  left[r] <= left[q]
<1> DEFINE rises == {k \in q..NumRows : left[k] > left[q]}
<1>0. NumRows \in Nat /\ MaxAmount \in Nat
  BY CollectionsAssumption
<1>1. rises \in SUBSET Nat
  BY <1>0
<1>2. SUFFICES ASSUME rises # {} PROVE FALSE
  <2>1. r \in q..NumRows
    BY <1>0
  <2>2. left[r] \in Int /\ left[q] \in Int
    BY <1>0
  <2>3. rises = {} => ~(left[r] > left[q])
    BY <2>1
  <2>4. QED
    BY <1>2, <2>2, <2>3
<1>3. PICK k \in rises : \A j \in rises : k <= j
  BY <1>1, <1>2, LeastElement
<1>4. k \in RowNumbers /\ k - 1 \in q..NumRows
  BY <1>0, <1>3 DEF RowNumbers
<1>5. ~(left[k - 1] > left[q])
  BY <1>0, <1>3, <1>4
<1>6. left[k] <= left[k - 1]
  <2>1. left[k - 1] \in 0..MaxAmount /\ left[k] \in 0..left[k - 1]
    BY <1>4, SettlesRow
  <2>2. QED
    BY <1>0, <2>1
<1>7. left[k] \in Int /\ left[k - 1] \in Int /\ left[q] \in Int
  BY <1>0, <1>4 DEF RowNumbers
<1>8. QED
  BY <1>3, <1>5, <1>6, <1>7

LEMMA PaidRowsFinite ==
    ASSUME NEW left
    PROVE  Cardinality(PaidRows(left)) \in Nat
<1>1. PaidRows(left) \in SUBSET (1..NumRows)
  BY DEF PaidRows, RowNumbers
<1>2. IsFiniteSet(1..NumRows)
  BY CollectionsAssumption, FS_Interval
<1>3. IsFiniteSet(PaidRows(left))
  BY <1>1, <1>2, FS_Subset
<1>4. QED
  BY <1>3, FS_CardinalityType

-----------------------------------------------------------------------------
(* What one transaction of a settlement writes. *)

LEMMA NewPaymentTyped ==
    ASSUME TypeOK, StatusTellsBalance, NEW t \in Tries,
           NEW left \in [0..NumRows -> 0..MaxAmount], Settles(t, left),
           NEW r \in PaidRows(left)
    PROVE  /\ NewPayment(t, left, r) \in Payments
           /\ NewPayment(t, left, r).row = r
           /\ NewPayment(t, left, r).amount = Applied(left, r)
           /\ ~NewPayment(t, left, r).cancelled
           /\ NewPayment(t, left, r).by = t
           /\ Applied(left, r) \in Nat \ {0}
<1>1. r \in RowNumbers
  BY DEF PaidRows
<1>2. Applied(left, r) \in Nat \ {0}
  BY <1>1, SettlesRow, CollectionsAssumption
<1>3. ask[t].key \in Keys \cup {None}
  BY AskTyped
<1>4. QED
  BY <1>1, <1>2, <1>3 DEF NewPayment, Payments, CollectionStatuses

LEMMA PostingTyped ==
    ASSUME NEW p \in Nat \ {0}, NEW amount \in Int
    PROVE  /\ Posting(p, amount) \in LedgerRows
           /\ Posting(p, amount).pay = p
           /\ Posting(p, amount).amount = amount
           /\ Posting(p, amount).status = "POSTED"
           /\ ~Posting(p, amount).reversal
BY DEF Posting, LedgerRows

(* New payments p > m and their postings i > n leave the ledger in         *)
(* agreement: the old ones keep their rows and the new ones have theirs.   *)
LEMMA ExtendedAgree ==
    ASSUME LedgerAgrees,
           NEW m \in Nat, NEW n \in Nat, NEW d \in Nat,
           DOMAIN payments = 1..m, DOMAIN payments' = 1..(m + d),
           DOMAIN ledger = 1..n, DOMAIN ledger' = 1..(n + d),
           \A p \in 1..m : payments'[p] = payments[p],
           \A i \in 1..n : ledger'[i] = ledger[i],
           \A k \in 1..d :
               /\ ~payments'[m + k].cancelled
               /\ ledger'[n + k].pay = m + k
               /\ ledger'[n + k].amount = payments'[m + k].amount
               /\ ledger'[n + k].status = "POSTED"
               /\ ~ledger'[n + k].reversal
    PROVE  LedgerAgrees'
<1>1. /\ \A p \in 1..(m + d) : p \in 1..m \/ \E k \in 1..d : p = m + k
      /\ \A i \in 1..(n + d) : i \in 1..n \/ \E k \in 1..d : i = n + k
  <2>1. \A p \in 1..(m + d) : p \in 1..m \/ (p - m \in 1..d /\ p = m + (p - m))
    OBVIOUS
  <2>2. \A i \in 1..(n + d) : i \in 1..n \/ (i - n \in 1..d /\ i = n + (i - n))
    OBVIOUS
  <2>3. QED
    BY <2>1, <2>2
<1>2. \A i \in 1..n : ledger[i].pay \in 1..m
  BY DEF LedgerAgrees, PostingsHavePayments
<1>3. PostingsHavePayments'
  <2>1. SUFFICES ASSUME NEW i \in 1..(n + d) PROVE ledger'[i].pay \in 1..(m + d)
    BY DEF PostingsHavePayments
  <2>2. CASE i \in 1..n
    BY <1>2, <2>2
  <2>3. CASE \E k \in 1..d : i = n + k
    <3>1. PICK k \in 1..d : i = n + k
      BY <2>3
    <3>2. ledger'[n + k].pay = m + k
      OBVIOUS
    <3>3. m + k \in 1..(m + d)
      OBVIOUS
    <3>4. QED
      BY <3>1, <3>2, <3>3
  <2>4. QED
    BY <1>1, <2>2, <2>3
<1>4. ASSUME NEW p \in 1..m PROVE \E i \in 1..(n + d) : Accounted(p, i)'
  <2>1. PICK i \in 1..n : Accounted(p, i)
    BY DEF LedgerAgrees
  <2>2. ledger'[i] = ledger[i] /\ payments'[p] = payments[p] /\ i \in 1..(n + d)
    OBVIOUS
  <2>3. \A j \in 1..(n + d) : ledger'[j].pay = p => j \in 1..n /\ ledger'[j] = ledger[j]
    <3>1. TAKE j \in 1..(n + d)
    <3>2. CASE \E k \in 1..d : j = n + k
      <4>1. PICK k \in 1..d : j = n + k
        BY <3>2
      <4>2. ledger'[j].pay = m + k
        BY <4>1
      <4>3. QED
        BY <4>2
    <3>3. QED
      BY <1>1, <3>2
  <2>4. \A j \in 1..n : j \in 1..(n + d) /\ ledger'[j] = ledger[j]
    OBVIOUS
  <2>5. Original(p, i)'
    BY <2>1, <2>3, <2>4 DEF Accounted, Original
  <2>6. \A k \in 1..(n + d) : Reversal(p, k)' <=> k \in 1..n /\ Reversal(p, k)
    BY <2>3, <2>4 DEF Reversal
  <2>7. Live(p)' <=> Live(p)
    BY <2>2 DEF Live
  <2>8. ASSUME ledger[i].status = "REVERSED"
        PROVE  \E j \in 1..(n + d) : /\ \A k \in 1..(n + d) : Reversal(p, k)' <=> k = j
                                   /\ ledger'[j].amount = -ledger'[i].amount
    <3>1. PICK j \in 1..n : /\ \A k \in 1..n : Reversal(p, k) <=> k = j
                            /\ ledger[j].amount = -ledger[i].amount
      BY <2>1, <2>8 DEF Accounted
    <3>2. QED
      BY <2>2, <2>4, <2>6, <3>1
  <2>9. ledger[i].status # "REVERSED" => \A k \in 1..(n + d) : ~Reversal(p, k)'
    BY <2>1, <2>6 DEF Accounted
  <2>10. /\ ledger'[i].amount = payments'[p].amount
         /\ ledger'[i].status = "POSTED" => Live(p)'
         /\ ledger'[i].status = "REVERSED" => ~Live(p)'
    BY <2>1, <2>2, <2>7 DEF Accounted
  <2>11. ledger'[i].status = "REVERSED" <=> ledger[i].status = "REVERSED"
    BY <2>2
  <2>12. Accounted(p, i)'
    BY <2>5, <2>8, <2>9, <2>10, <2>11 DEF Accounted
  <2>13. QED
    BY <2>2, <2>12
<1>5. ASSUME NEW p, NEW k \in 1..d, p = m + k PROVE \E i \in 1..(n + d) : Accounted(p, i)'
  <2>1. n + k \in 1..(n + d)
    OBVIOUS
  <2>3. \A j \in 1..(n + d) : ledger'[j].pay = p => j = n + k
    <3>1. TAKE j \in 1..(n + d)
    <3>2. CASE j \in 1..n
      BY <1>2, <1>5, <3>2
    <3>3. CASE \E l \in 1..d : j = n + l
      <4>1. PICK l \in 1..d : j = n + l
        BY <3>3
      <4>2. ledger'[n + l].pay = m + l
        OBVIOUS
      <4>3. QED
        BY <1>5, <4>1, <4>2
    <3>4. QED
      BY <1>1, <3>2, <3>3
  <2>4. ledger'[n + k].pay = p /\ ~ledger'[n + k].reversal
    BY <1>5
  <2>5. Original(p, n + k)'
    BY <2>1, <2>3, <2>4 DEF Original
  <2>6. \A j \in 1..(n + d) : ~Reversal(p, j)'
    BY <2>3, <2>4 DEF Reversal
  <2>7. Live(p)'
    BY <1>5 DEF Live
  <2>8. ledger'[n + k].status = "POSTED" /\ ledger'[n + k].amount = payments'[p].amount
    BY <1>5
  <2>9. Accounted(p, n + k)'
    BY <2>5, <2>6, <2>7, <2>8 DEF Accounted
  <2>10. QED
    BY <2>1, <2>9
<1>6. \A p \in DOMAIN payments' : \E i \in DOMAIN ledger' : Accounted(p, i)'
  BY <1>1, <1>4, <1>5
<1>7. QED
  BY <1>3, <1>6 DEF LedgerAgrees

LEMMA Concatenated ==
    ASSUME NEW S, NEW s1 \in Seq(S), NEW s2 \in Seq(S), NEW s, s = s1 \o s2
    PROVE  /\ s \in Seq(S)
           /\ DOMAIN s1 = 1..Len(s1)
           /\ DOMAIN s = 1..(Len(s1) + Len(s2))
           /\ \A i \in 1..Len(s1) : s[i] = s1[i]
           /\ \A k \in 1..Len(s2) : s[Len(s1) + k] = s2[k]
<1>1. Len(s1) \in Nat /\ Len(s2) \in Nat /\ DOMAIN s1 = 1..Len(s1)
  BY LenProperties
<1>2. /\ s \in Seq(S)
      /\ Len(s) = Len(s1) + Len(s2)
      /\ \A i \in 1..(Len(s1) + Len(s2)) :
            s[i] = IF i <= Len(s1) THEN s1[i] ELSE s2[i - Len(s1)]
  BY ConcatProperties
<1>3. DOMAIN s = 1..(Len(s1) + Len(s2))
  BY <1>2, LenProperties
<1>4. \A i \in 1..Len(s1) : i \in 1..(Len(s1) + Len(s2)) /\ i <= Len(s1)
  BY <1>1
<1>5. ASSUME NEW k \in 1..Len(s2) PROVE s[Len(s1) + k] = s2[k]
  <2>1. /\ Len(s1) + k \in 1..(Len(s1) + Len(s2))
        /\ ~(Len(s1) + k <= Len(s1))
        /\ (Len(s1) + k) - Len(s1) = k
    BY <1>1
  <2>2. QED
    BY <1>2, <2>1
<1>6. QED
  BY <1>1, <1>2, <1>3, <1>4, <1>5

LEMMA LedgerAppended ==
    ASSUME ledger \in Seq(LedgerRows), NEW posted \in Seq(LedgerRows), ledger' = ledger \o posted
    PROVE  /\ ledger' \in Seq(LedgerRows)
           /\ DOMAIN ledger = 1..Len(ledger)
           /\ DOMAIN ledger' = 1..(Len(ledger) + Len(posted))
           /\ \A i \in 1..Len(ledger) : ledger'[i] = ledger[i]
           /\ \A k \in 1..Len(posted) : ledger'[Len(ledger) + k] = posted[k]
BY Concatenated

LEMMA PaymentsAppended ==
    ASSUME payments \in Seq(Payments), NEW new \in Seq(Payments), payments' = payments \o new
    PROVE  /\ payments' \in Seq(Payments)
           /\ DOMAIN payments = 1..Len(payments)
           /\ DOMAIN payments' = 1..(Len(payments) + Len(new))
           /\ \A k \in 1..Len(new) : payments'[Len(payments) + k] = new[k]
BY Concatenated

LEMMA AppendedAgree ==
    ASSUME TypeOK, LedgerAgrees,
           NEW new \in Seq(Payments), NEW posted \in Seq(LedgerRows),
           Len(posted) = Len(new),
           \A k \in 1..Len(new) :
               /\ ~new[k].cancelled
               /\ posted[k].pay = Len(payments) + k
               /\ posted[k].amount = new[k].amount
               /\ posted[k].status = "POSTED"
               /\ ~posted[k].reversal,
           payments' = payments \o new,
           ledger' = ledger \o posted
    PROVE  LedgerAgrees' /\ payments' \in Seq(Payments) /\ ledger' \in Seq(LedgerRows)
<1>1. payments \in Seq(Payments) /\ ledger \in Seq(LedgerRows)
  BY DEF TypeOK
<1>2. Len(payments) \in Nat /\ Len(ledger) \in Nat /\ Len(new) \in Nat
  BY <1>1, LenProperties
<1>3. /\ payments' \in Seq(Payments)
      /\ DOMAIN payments = 1..Len(payments)
      /\ DOMAIN payments' = 1..(Len(payments) + Len(new))
      /\ \A p \in 1..Len(payments) : payments'[p] = payments[p]
      /\ \A k \in 1..Len(new) : payments'[Len(payments) + k] = new[k]
  BY <1>1, Concatenated
<1>4. /\ ledger' \in Seq(LedgerRows)
      /\ DOMAIN ledger = 1..Len(ledger)
      /\ DOMAIN ledger' = 1..(Len(ledger) + Len(new))
      /\ \A i \in 1..Len(ledger) : ledger'[i] = ledger[i]
      /\ \A k \in 1..Len(new) : ledger'[Len(ledger) + k] = posted[k]
  BY <1>1, LedgerAppended
<1>5. \A k \in 1..Len(new) :
          /\ ~payments'[Len(payments) + k].cancelled
          /\ ledger'[Len(ledger) + k].pay = Len(payments) + k
          /\ ledger'[Len(ledger) + k].amount = payments'[Len(payments) + k].amount
          /\ ledger'[Len(ledger) + k].status = "POSTED"
          /\ ~ledger'[Len(ledger) + k].reversal
  BY <1>3, <1>4, Zenon
<1>6. LedgerAgrees'
  BY <1>2, <1>3, <1>4, <1>5, ExtendedAgree, Zenon
<1>7. QED
  BY <1>3, <1>4, <1>6

-----------------------------------------------------------------------------
(* Installments. *)

RowAgrees(row) ==
    /\ row \in Rows
    /\ IF row.status = "WAIVED" THEN row.paid < Total ELSE row.status = StatusOfBalance(row.paid)

LEMMA RowsAgree ==
    (rows \in [RowNumbers -> Rows] /\ StatusTellsBalance)
       <=> (rows = [r \in RowNumbers |-> rows[r]] /\ \A r \in RowNumbers : RowAgrees(rows[r]))
BY DEF StatusTellsBalance, RowAgrees

LEMMA BalancedAgrees ==
    ASSUME NEW paid \in Nat
    PROVE  RowAgrees([status |-> StatusOfBalance(paid), paid |-> paid])
BY StatusTyped DEF RowAgrees, Rows, Unpaid

LEMMA CreditedAgrees ==
    ASSUME NEW row \in Rows, NEW amount \in Nat
    PROVE  RowAgrees(Credited(row, amount))
<1>1. row.paid + amount \in Nat
  BY DEF Rows
<1>2. QED
  BY <1>1, BalancedAgrees DEF Credited

(* A waived installment comes back with the status of its balance, an open *)
(* one is waived with something still to pay.                              *)
LEMMA WaivedAgrees ==
    ASSUME NEW row \in Rows, RowAgrees(row), row.status \in Unpaid
    PROVE  RowAgrees([row EXCEPT !.status = "WAIVED"])
<1>1. row.paid \in Nat /\ row.status = StatusOfBalance(row.paid)
  BY DEF RowAgrees, Rows, Unpaid
<1>2. row.paid < Total
  BY <1>1, CollectionsAssumption DEF StatusOfBalance, Unpaid
<1>3. QED
  BY <1>1, <1>2 DEF RowAgrees, Rows

LEMMA RestoredAgrees ==
    ASSUME NEW row \in Rows
    PROVE  RowAgrees([row EXCEPT !.status = RestoredStatus(row.paid)])
<1>1. row.paid \in Nat /\ RestoredStatus(row.paid) = StatusOfBalance(row.paid)
  BY DEF Rows, RestoredStatus
<1>2. [row EXCEPT !.status = RestoredStatus(row.paid)] = [status |-> StatusOfBalance(row.paid), paid |-> row.paid]
  BY <1>1 DEF Rows
<1>3. QED
  BY <1>1, <1>2, BalancedAgrees

-----------------------------------------------------------------------------
(* The ledger under the office's steps. *)

(* Neither confirming nor reconciling changes what is owed to whom. *)
LEMMA RelabelledAgree ==
    ASSUME LedgerAgrees,
           DOMAIN payments' = DOMAIN payments, DOMAIN ledger' = DOMAIN ledger,
           \A p \in DOMAIN payments : /\ payments'[p].amount = payments[p].amount
                                      /\ payments'[p].cancelled = payments[p].cancelled,
           \A i \in DOMAIN ledger : /\ ledger'[i].pay = ledger[i].pay
                                    /\ ledger'[i].amount = ledger[i].amount
                                    /\ ledger'[i].reversal = ledger[i].reversal
                                    /\ \/ ledger'[i].status = ledger[i].status
                                       \/ /\ ledger[i].status = "POSTED"
                                          /\ ledger'[i].status = "RECONCILED"
    PROVE  LedgerAgrees'
<1>1. PostingsHavePayments'
  BY DEF LedgerAgrees, PostingsHavePayments
<1>2. ASSUME NEW p \in DOMAIN payments PROVE \E i \in DOMAIN ledger : Accounted(p, i)'
  <2>1. PICK i \in DOMAIN ledger : Accounted(p, i)
    BY DEF LedgerAgrees
  <2>2. Original(p, i)'
    BY <2>1 DEF Accounted, Original
  <2>3. \A k \in DOMAIN ledger : Reversal(p, k)' <=> Reversal(p, k)
    BY DEF Reversal
  <2>4. Live(p)' <=> Live(p)
    BY DEF Live
  <2>5. ledger'[i].amount = payments'[p].amount
    BY <2>1 DEF Accounted
  <2>6. ledger'[i].status = "POSTED" => Live(p)'
    BY <2>1, <2>4 DEF Accounted
  <2>7. ledger'[i].status = "REVERSED" <=> ledger[i].status = "REVERSED"
    OBVIOUS
  <2>8. ASSUME ledger[i].status = "REVERSED"
        PROVE  /\ ~Live(p)'
               /\ \E j \in DOMAIN ledger : /\ \A k \in DOMAIN ledger : Reversal(p, k)' <=> k = j
                                           /\ ledger'[j].amount = -ledger'[i].amount
    <3>1. PICK j \in DOMAIN ledger : /\ \A k \in DOMAIN ledger : Reversal(p, k) <=> k = j
                                     /\ ledger[j].amount = -ledger[i].amount
      BY <2>1, <2>8 DEF Accounted
    <3>2. ~Live(p)
      BY <2>1, <2>8 DEF Accounted
    <3>3. QED
      BY <2>3, <2>4, <3>1, <3>2
  <2>9. ledger[i].status # "REVERSED" => \A k \in DOMAIN ledger : ~Reversal(p, k)'
    BY <2>1, <2>3 DEF Accounted
  <2>10. Accounted(p, i)'
    BY <2>2, <2>5, <2>6, <2>7, <2>8, <2>9 DEF Accounted
  <2>11. QED
    BY <2>10
<1>3. QED
  BY <1>1, <1>2 DEF LedgerAgrees

LEMMA UnchangedAgree ==
    ASSUME LedgerAgrees, UNCHANGED <<payments, ledger>>
    PROVE  LedgerAgrees'
BY RelabelledAgree

(* Cancelling a payment whose posting was reconciled leaves its row alone. *)
LEMMA CancelledAgree ==
    ASSUME TypeOK, LedgerAgrees, NEW p \in DOMAIN payments, Live(p), Linked(p) = {},
           DOMAIN payments' = DOMAIN payments,
           \A q \in DOMAIN payments : payments'[q].amount = payments[q].amount,
           \A q \in DOMAIN payments \ {p} : payments'[q].cancelled = payments[q].cancelled,
           payments'[p].cancelled,
           ledger' = ledger
    PROVE  LedgerAgrees'
<1>1. PostingsHavePayments'
  BY DEF LedgerAgrees, PostingsHavePayments
<1>2. ASSUME NEW q \in DOMAIN payments PROVE \E i \in DOMAIN ledger : Accounted(q, i)'
  <2>1. PICK i \in DOMAIN ledger : Accounted(q, i)
    BY DEF LedgerAgrees
  <2>2. Original(q, i)' /\ \A k \in DOMAIN ledger : Reversal(q, k)' <=> Reversal(q, k)
    BY <2>1 DEF Accounted, Original, Reversal
  <2>3. ledger'[i].amount = payments'[q].amount /\ ledger'[i].status = ledger[i].status
    BY <2>1 DEF Accounted
  <2>4. CASE q # p
    <3>1. Live(q)' <=> Live(q)
      BY <2>4 DEF Live
    <3>2. QED
      BY <2>1, <2>2, <2>3, <3>1 DEF Accounted
  <2>5. CASE q = p
    <3>1. i \notin Linked(p) /\ ledger[i].pay = p /\ ~ledger[i].reversal
      BY <2>1, <2>5 DEF Accounted, Original
    <3>2. ledger[i].status # "POSTED"
      BY <3>1 DEF Linked
    <3>3. ledger[i].status # "REVERSED"
      BY <2>1, <2>5 DEF Accounted
    <3>4. QED
      BY <2>1, <2>2, <2>3, <3>2, <3>3 DEF Accounted
  <2>6. QED
    BY <2>4, <2>5
<1>3. QED
  BY <1>1, <1>2 DEF LedgerAgrees

(* Cancelling a payment and reversing its posting i by row n + 1. *)
LEMMA ReversedAgree ==
    ASSUME LedgerAgrees, NEW p \in DOMAIN payments, NEW i \in Linked(p), NEW n \in Nat,
           DOMAIN payments' = DOMAIN payments,
           \A q \in DOMAIN payments : payments'[q].amount = payments[q].amount,
           \A q \in DOMAIN payments \ {p} : payments'[q].cancelled = payments[q].cancelled,
           payments'[p].cancelled,
           DOMAIN ledger = 1..n, DOMAIN ledger' = 1..(n + 1),
           \A j \in 1..n : /\ ledger'[j].pay = ledger[j].pay
                           /\ ledger'[j].amount = ledger[j].amount
                           /\ ledger'[j].reversal = ledger[j].reversal
                           /\ j # i => ledger'[j].status = ledger[j].status,
           ledger'[i].status = "REVERSED",
           ledger'[n + 1].pay = p,
           ledger'[n + 1].amount = -ledger[i].amount,
           ledger'[n + 1].reversal
    PROVE  LedgerAgrees'
<1>1. /\ \A j \in 1..(n + 1) : j \in 1..n \/ j = n + 1
      /\ \A j \in 1..n : j \in 1..(n + 1) /\ j # n + 1
      /\ n + 1 \in 1..(n + 1)
  OBVIOUS
<1>2. i \in 1..n /\ ledger[i].pay = p /\ ledger[i].status = "POSTED" /\ ~ledger[i].reversal
  BY DEF Linked
<1>3. PostingsHavePayments'
  <2>1. SUFFICES ASSUME NEW j \in 1..(n + 1) PROVE ledger'[j].pay \in DOMAIN payments
    BY DEF PostingsHavePayments
  <2>2. CASE j \in 1..n
    BY <2>2 DEF LedgerAgrees, PostingsHavePayments
  <2>3. CASE j = n + 1
    BY <2>3
  <2>4. QED
    BY <1>1, <2>2, <2>3
<1>4. ASSUME NEW q \in DOMAIN payments, q # p PROVE \E k \in 1..(n + 1) : Accounted(q, k)'
  <2>1. PICK k \in 1..n : Accounted(q, k)
    BY DEF LedgerAgrees
  <2>2. ledger[k].pay = q
    BY <2>1 DEF Accounted, Original
  <2>3. k # i /\ ledger'[k].status = ledger[k].status
    BY <1>2, <1>4, <2>2
  <2>4. Original(q, k)'
    BY <1>1, <1>4, <2>1 DEF Accounted, Original
  <2>5. \A j \in 1..(n + 1) : Reversal(q, j)' <=> j \in 1..n /\ Reversal(q, j)
    BY <1>1, <1>4 DEF Reversal
  <2>6. Live(q)' <=> Live(q)
    BY <1>4 DEF Live
  <2>7. ledger'[k].amount = payments'[q].amount
    BY <2>1 DEF Accounted
  <2>8. ASSUME ledger[k].status = "REVERSED"
        PROVE  \E j \in 1..(n + 1) : /\ \A l \in 1..(n + 1) : Reversal(q, l)' <=> l = j
                                     /\ ledger'[j].amount = -ledger'[k].amount
    <3>1. PICK j \in 1..n : /\ \A l \in 1..n : Reversal(q, l) <=> l = j
                            /\ ledger[j].amount = -ledger[k].amount
      BY <2>1, <2>8 DEF Accounted
    <3>2. \A l \in 1..(n + 1) : Reversal(q, l)' <=> l = j
      BY <1>1, <2>5, <3>1
    <3>3. ledger'[j].amount = -ledger'[k].amount /\ j \in 1..(n + 1)
      BY <1>1, <3>1
    <3>4. QED
      BY <3>2, <3>3
  <2>9. ledger[k].status # "REVERSED" => \A j \in 1..(n + 1) : ~Reversal(q, j)'
    BY <2>1, <2>5 DEF Accounted
  <2>10. Accounted(q, k)'
    BY <2>1, <2>3, <2>4, <2>6, <2>7, <2>8, <2>9 DEF Accounted
  <2>11. QED
    BY <1>1, <2>10
<1>5. Accounted(p, i)'
  <2>1. PICK k \in 1..n : Accounted(p, k)
    BY DEF LedgerAgrees
  <2>2. k = i
    BY <1>2, <2>1 DEF Accounted, Original
  <2>3. \A j \in 1..n : ~Reversal(p, j)
    BY <1>2, <2>1, <2>2 DEF Accounted
  <2>4. Original(p, i)'
    BY <1>1, <1>2, <2>1, <2>2 DEF Accounted, Original
  <2>5. \A j \in 1..(n + 1) : Reversal(p, j)' <=> j = n + 1
    BY <1>1, <2>3 DEF Reversal
  <2>6. ~Live(p)'
    BY DEF Live
  <2>7. ledger'[i].amount = payments'[p].amount /\ ledger'[n + 1].amount = -ledger'[i].amount
    BY <1>2, <2>1, <2>2 DEF Accounted
  <2>8. QED
    BY <1>1, <2>4, <2>5, <2>6, <2>7 DEF Accounted
<1>6. QED
  BY <1>1, <1>2, <1>3, <1>4, <1>5 DEF LedgerAgrees

-----------------------------------------------------------------------------
(* The steps of the tries. *)

LEMMA StepTyped ==
    ASSUME TypeOK, NEW t \in Tries, NEW at \in TrySteps, Step(t, at)
    PROVE  tries' \in [Tries -> TryRecords]
BY DEF TypeOK, Step, TryRecords

LEMMA OnlyTriesKeepsIInv ==
    ASSUME IInv, OnlyTries, tries' \in [Tries -> TryRecords]
    PROVE  IInv'
<1>1. UNCHANGED <<loanStatus, admin, rows, payments, ledger, ask, office>>
  BY DEF OnlyTries
<1>2. LedgerAgrees'
  BY <1>1, UnchangedAgree DEF IInv
<1>3. TypeOK' /\ StatusTellsBalance'
  BY <1>1 DEF IInv, TypeOK, StatusTellsBalance
<1>4. QED
  BY <1>2, <1>3 DEF IInv

LEMMA ReadsKeepIInv ==
    ASSUME IInv, NEW t \in Tries,
           CollectLookup(t) \/ CollectRead(t) \/ CollectRefused(t) \/ RecordRead(t)
    PROVE  IInv'
<1>1. OnlyTries
  BY DEF CollectLookup, CollectRead, CollectRefused, RecordRead
<1>2. CASE \E at \in TrySteps : Step(t, at)
  BY <1>1, <1>2, StepTyped, OnlyTriesKeepsIInv DEF IInv
<1>3. CASE tries' = [tries EXCEPT ![t].at = "read", ![t].seen = rows[Requested(t)].paid]
  <2>1. rows[Requested(t)].paid \in Nat
    BY AskTyped, RowTyped DEF IInv
  <2>2. tries' \in [Tries -> TryRecords]
    BY <1>3, <2>1 DEF IInv, TypeOK, TryRecords, TrySteps
  <2>3. QED
    BY <1>1, <2>2, OnlyTriesKeepsIInv
<1>4. QED
  BY <1>2, <1>3 DEF CollectLookup, CollectRead, CollectRefused, RecordRead, TrySteps

LEMMA CollectSettleKeepsIInv ==
    ASSUME IInv, NEW t \in Tries, CollectSettle(t)
    PROVE  IInv'
<1>1. PICK left \in [0..NumRows -> 0..MaxAmount] :
          /\ Settles(t, left)
          /\ \E settled \in [1..Cardinality(PaidRows(left)) -> PaidRows(left)] :
                Settle(t, left, settled)
  BY DEF CollectSettle
<1>2. PICK n \in Nat : \E settled \in [1..n -> PaidRows(left)] : Settle(t, left, settled)
  BY <1>1, PaidRowsFinite
<1>3. PICK settled \in [1..n -> PaidRows(left)] : Settle(t, left, settled)
  BY <1>2
<1>4. ASSUME NEW r \in PaidRows(left)
       PROVE  /\ NewPayment(t, left, r) \in Payments
              /\ NewPayment(t, left, r).amount = Applied(left, r)
              /\ ~NewPayment(t, left, r).cancelled
              /\ Applied(left, r) \in Nat \ {0}
  <2>1. TypeOK /\ StatusTellsBalance /\ Settles(t, left)
    BY <1>1 DEF IInv
  <2>2. QED
    BY <2>1, NewPaymentTyped
<1> DEFINE new == [i \in 1..n |-> NewPayment(t, left, settled[i])]
           posted == [i \in 1..n |-> Posting(Len(payments) + i, Applied(left, settled[i]))]
<1>5. /\ rows' = [r \in RowNumbers |->
                     IF r \in PaidRows(left) THEN Credited(rows[r], Applied(left, r)) ELSE rows[r]]
      /\ payments' = payments \o new
      /\ ledger' = ledger \o posted
      /\ tries' = [tries EXCEPT ![t].at = "done", ![t].applied = left[0] - left[NumRows]]
      /\ UNCHANGED <<loanStatus, admin, ask, office>>
  <2>1. DOMAIN settled = 1..n
    OBVIOUS
  <2>2. QED
    BY <1>3, <2>1 DEF Settle
<1>6. Len(payments) \in Nat
  BY LenProperties DEF IInv, TypeOK
<1>7. \A i \in 1..n :
          /\ new[i] \in Payments
          /\ ~new[i].cancelled
          /\ posted[i] \in LedgerRows
          /\ posted[i].pay = Len(payments) + i
          /\ posted[i].amount = new[i].amount
          /\ posted[i].status = "POSTED"
          /\ ~posted[i].reversal
  <2>1. TAKE i \in 1..n
  <2>2. settled[i] \in PaidRows(left)
    OBVIOUS
  <2>3. /\ new[i] \in Payments
        /\ new[i].amount = Applied(left, settled[i])
        /\ ~new[i].cancelled
        /\ Applied(left, settled[i]) \in Int
    <3>1. /\ NewPayment(t, left, settled[i]) \in Payments
          /\ NewPayment(t, left, settled[i]).amount = Applied(left, settled[i])
          /\ ~NewPayment(t, left, settled[i]).cancelled
          /\ Applied(left, settled[i]) \in Nat \ {0}
      BY <1>4, <2>2
    <3>2. new[i] = NewPayment(t, left, settled[i])
      OBVIOUS
    <3>3. QED
      BY <3>1, <3>2
  <2>4. Len(payments) + i \in Nat \ {0}
    BY <1>6
  <2>5. /\ posted[i] \in LedgerRows
        /\ posted[i].pay = Len(payments) + i
        /\ posted[i].amount = Applied(left, settled[i])
        /\ posted[i].status = "POSTED"
        /\ ~posted[i].reversal
    BY <2>3, <2>4, PostingTyped
  <2>6. QED
    BY <2>3, <2>5
<1>8. new \in Seq(Payments) /\ Len(new) = n /\ posted \in Seq(LedgerRows) /\ Len(posted) = n
  <2>1. new \in [1..n -> Payments] /\ posted \in [1..n -> LedgerRows]
    BY <1>7
  <2>2. QED
    BY <2>1
<1> HIDE DEF new, posted
<1>9. LedgerAgrees' /\ payments' \in Seq(Payments) /\ ledger' \in Seq(LedgerRows)
  BY <1>5, <1>7, <1>8, AppendedAgree DEF IInv
<1>10. ASSUME NEW r \in RowNumbers PROVE RowAgrees(rows'[r])
  <2>1. rows[r] \in Rows /\ RowAgrees(rows[r])
    BY RowsAgree DEF IInv, TypeOK
  <2>2. CASE r \in PaidRows(left)
    <3>1. Applied(left, r) \in Nat
      BY <1>1, <2>2, NewPaymentTyped DEF IInv
    <3>2. QED
      BY <1>5, <2>1, <2>2, <3>1, CreditedAgrees
  <2>3. QED
    BY <1>5, <2>1, <2>2
<1>11. rows' \in [RowNumbers -> Rows] /\ StatusTellsBalance'
  BY <1>5, <1>10 DEF RowAgrees, StatusTellsBalance
<1>12. tries' \in [Tries -> TryRecords]
  <2>1. 0 \in 0..NumRows /\ NumRows \in 0..NumRows /\ 0 <= NumRows /\ MaxAmount \in Nat
    BY CollectionsAssumption
  <2>2. left[0] \in 0..MaxAmount /\ left[NumRows] \in 0..MaxAmount /\ left[NumRows] <= left[0]
    BY <1>1, <2>1, LeftDescends DEF IInv
  <2>3. left[0] - left[NumRows] \in Nat
    BY <2>1, <2>2
  <2>4. QED
    BY <1>5, <2>3 DEF IInv, TypeOK, TryRecords, TrySteps
<1>13. TypeOK'
  BY <1>5, <1>9, <1>11, <1>12 DEF IInv, TypeOK
<1>14. QED
  BY <1>9, <1>11, <1>13 DEF IInv

LEMMA RecordCommitKeepsIInv ==
    ASSUME IInv, NEW t \in Tries, RecordCommit(t)
    PROVE  IInv'
<1> DEFINE r == Requested(t)
           pay == [row |-> r, amount |-> Amount(t), status |-> "COLLECTED", cancelled |-> FALSE,
                   key |-> None, by |-> t]
           post == Posting(Len(payments) + 1, Amount(t))
<1>1. /\ rows' = [rows EXCEPT ![r] = Credited(rows[r], Amount(t))]
      /\ payments' = Append(payments, pay)
      /\ ledger' = Append(ledger, post)
      /\ tries' = [tries EXCEPT ![t].at = "done", ![t].applied = Amount(t)]
      /\ UNCHANGED <<loanStatus, admin, ask, office>>
  BY DEF RecordCommit
<1>2. r \in RowNumbers /\ Amount(t) \in Nat \ {0}
  BY AskTyped, CollectionsAssumption DEF IInv
<1>3. payments \in Seq(Payments) /\ ledger \in Seq(LedgerRows) /\ Len(payments) \in Nat
  BY LenProperties DEF IInv, TypeOK
<1>4. pay \in Payments /\ ~pay.cancelled /\ pay.amount = Amount(t)
  BY <1>2 DEF Payments, CollectionStatuses
<1>5. /\ post \in LedgerRows
      /\ post.pay = Len(payments) + 1
      /\ post.amount = Amount(t)
      /\ post.status = "POSTED"
      /\ ~post.reversal
  <2>1. Len(payments) + 1 \in Nat \ {0} /\ Amount(t) \in Int
    BY <1>2, <1>3
  <2>2. QED
    BY <2>1, PostingTyped
<1> HIDE DEF pay, post, r
<1>6. LedgerAgrees' /\ payments' \in Seq(Payments) /\ ledger' \in Seq(LedgerRows)
  <2> DEFINE new == <<pay>>
             posted == <<post>>
  <2>1. payments' = payments \o new /\ ledger' = ledger \o posted
    BY <1>1, <1>3, <1>4, <1>5, AppendIsConcat
  <2>2. /\ new \in Seq(Payments) /\ posted \in Seq(LedgerRows)
        /\ Len(new) = 1 /\ Len(posted) = 1
        /\ new[1] = pay /\ posted[1] = post
    BY <1>4, <1>5
  <2> HIDE DEF new, posted
  <2>3. ASSUME NEW k \in 1..Len(new)
        PROVE  /\ ~new[k].cancelled
               /\ posted[k].pay = Len(payments) + k
               /\ posted[k].amount = new[k].amount
               /\ posted[k].status = "POSTED"
               /\ ~posted[k].reversal
    <3>1. k = 1
      BY <2>2
    <3>2. QED
      BY <1>4, <1>5, <2>2, <3>1
  <2>4. QED
    BY <2>1, <2>2, <2>3, AppendedAgree DEF IInv
<1>7. rows' \in [RowNumbers -> Rows] /\ StatusTellsBalance'
  <2>1. RowAgrees(Credited(rows[r], Amount(t)))
    BY <1>2, CreditedAgrees DEF IInv, TypeOK
  <2>2. QED
    BY <1>1, <1>2, <2>1 DEF IInv, TypeOK, RowAgrees, StatusTellsBalance
<1>8. tries' \in [Tries -> TryRecords]
  BY <1>1, <1>2 DEF IInv, TypeOK, TryRecords, TrySteps
<1>9. TypeOK'
  BY <1>1, <1>6, <1>7, <1>8 DEF IInv, TypeOK
<1>10. QED
  BY <1>6, <1>7, <1>9 DEF IInv

-----------------------------------------------------------------------------
(* The steps of the office. *)

LEMMA OfficeTyped ==
    ASSUME TypeOK, OfficeStep
    PROVE  office' \in 0..MaxOffice /\ UNCHANGED <<tries, ask>>
BY CollectionsAssumption DEF TypeOK, OfficeStep

LEMMA ConfirmKeepsIInv ==
    ASSUME IInv, NEW p \in DOMAIN payments, ConfirmPayment(p)
    PROVE  IInv'
<1>1. /\ payments' = [payments EXCEPT ![p].status = "CONFIRMED"]
      /\ UNCHANGED <<loanStatus, admin, rows, ledger, tries, ask>>
      /\ office' \in 0..MaxOffice
  BY OfficeTyped DEF ConfirmPayment, IInv
<1>2. payments \in Seq(Payments) /\ payments[p] \in Payments
  BY DEF IInv, TypeOK
<1>3. /\ payments' \in Seq(Payments)
      /\ DOMAIN payments' = DOMAIN payments
      /\ \A q \in DOMAIN payments : /\ payments'[q].amount = payments[q].amount
                                    /\ payments'[q].cancelled = payments[q].cancelled
  <2>1. [payments[p] EXCEPT !.status = "CONFIRMED"] \in Payments
    BY <1>2 DEF Payments, CollectionStatuses
  <2>2. payments' = [payments EXCEPT ![p] = [payments[p] EXCEPT !.status = "CONFIRMED"]]
    BY <1>1
  <2>3. payments' \in Seq(Payments) /\ DOMAIN payments' = DOMAIN payments
    BY <1>2, <2>1, <2>2
  <2>4. \A q \in DOMAIN payments : payments[q] \in Payments
    BY <1>2
  <2>5. QED
    BY <2>2, <2>3, <2>4 DEF Payments
<1>4. LedgerAgrees'
  BY <1>1, <1>3, RelabelledAgree DEF IInv
<1>5. TypeOK' /\ StatusTellsBalance'
  BY <1>1, <1>3 DEF IInv, TypeOK, StatusTellsBalance
<1>6. QED
  BY <1>4, <1>5 DEF IInv

LEMMA ReconcileKeepsIInv ==
    ASSUME IInv, NEW i \in DOMAIN ledger, Reconcile(i)
    PROVE  IInv'
<1>1. /\ ledger[i].status = "POSTED"
      /\ ledger' = [ledger EXCEPT ![i].status = "RECONCILED"]
      /\ UNCHANGED <<loanStatus, admin, rows, payments, tries, ask>>
      /\ office' \in 0..MaxOffice
  BY OfficeTyped DEF Reconcile, IInv
<1>2. ledger \in Seq(LedgerRows) /\ \A j \in DOMAIN ledger : ledger[j] \in LedgerRows
  BY DEF IInv, TypeOK
<1>3. /\ ledger' \in Seq(LedgerRows)
      /\ DOMAIN ledger' = DOMAIN ledger
      /\ \A j \in DOMAIN ledger : /\ ledger'[j].pay = ledger[j].pay
                                  /\ ledger'[j].amount = ledger[j].amount
                                  /\ ledger'[j].reversal = ledger[j].reversal
                                  /\ ledger'[j].status = IF j = i THEN "RECONCILED" ELSE ledger[j].status
  <2>1. [ledger[i] EXCEPT !.status = "RECONCILED"] \in LedgerRows
    BY <1>2 DEF LedgerRows
  <2>2. ledger' = [ledger EXCEPT ![i] = [ledger[i] EXCEPT !.status = "RECONCILED"]]
    BY <1>1
  <2>3. ledger' \in Seq(LedgerRows) /\ DOMAIN ledger' = DOMAIN ledger
    BY <1>2, <2>1, <2>2
  <2>4. QED
    BY <1>2, <2>2, <2>3 DEF LedgerRows
<1>4. LedgerAgrees'
  BY <1>1, <1>3, RelabelledAgree DEF IInv
<1>5. TypeOK' /\ StatusTellsBalance'
  BY <1>1, <1>3 DEF IInv, TypeOK, StatusTellsBalance
<1>6. QED
  BY <1>4, <1>5 DEF IInv

LEMMA UndoKeepsIInv ==
    ASSUME IInv, NEW r \in RowNumbers, UndoCollection(r)
    PROVE  IInv'
<1> DEFINE p == Max(LivePaymentsOn(r))
           paid == PaidAfterUndo(r, p)
<1>1. /\ rows' = [rows EXCEPT ![r] = [status |-> StatusOfBalance(paid), paid |-> paid]]
      /\ payments' = [payments EXCEPT ![p].cancelled = TRUE]
      /\ IF Linked(p) = {} THEN UNCHANGED ledger ELSE \E i \in Linked(p) : ledger' = Reversed(i)
      /\ UNCHANGED <<loanStatus, admin, tries, ask>>
      /\ office' \in 0..MaxOffice
  BY OfficeTyped DEF UndoCollection, IInv
<1>2. /\ payments \in Seq(Payments) /\ \A q \in DOMAIN payments : payments[q] \in Payments
      /\ ledger \in Seq(LedgerRows) /\ \A j \in DOMAIN ledger : ledger[j] \in LedgerRows
  BY DEF IInv, TypeOK
<1>3. p \in DOMAIN payments /\ Live(p)
  <2>1. Len(payments) \in Nat /\ DOMAIN payments = 1..Len(payments)
    BY <1>2, LenProperties
  <2>2. LivePaymentsOn(r) \in SUBSET (1..Len(payments)) /\ LivePaymentsOn(r) # {}
    BY <2>1 DEF LivePaymentsOn, UndoCollection
  <2>3. p \in LivePaymentsOn(r)
    BY <2>1, <2>2, LatestIsOne
  <2>4. QED
    BY <2>3 DEF LivePaymentsOn
<1> HIDE DEF p
<1>4. rows' \in [RowNumbers -> Rows] /\ StatusTellsBalance'
  <2>1. payments[p].amount \in Nat
    BY <1>2, <1>3 DEF Payments
  <2>2. paid \in Nat
    BY <2>1, RowTyped DEF IInv, PaidAfterUndo
  <2>3. RowAgrees([status |-> StatusOfBalance(paid), paid |-> paid])
    BY <2>2, BalancedAgrees
  <2>4. QED
    BY <1>1, <2>3 DEF IInv, TypeOK, RowAgrees, StatusTellsBalance
<1>5. /\ payments' \in Seq(Payments)
      /\ DOMAIN payments' = DOMAIN payments
      /\ \A q \in DOMAIN payments : payments'[q].amount = payments[q].amount
      /\ \A q \in DOMAIN payments \ {p} : payments'[q].cancelled = payments[q].cancelled
      /\ payments'[p].cancelled
  <2>1. [payments[p] EXCEPT !.cancelled = TRUE] \in Payments
    BY <1>2, <1>3 DEF Payments
  <2>2. payments' = [payments EXCEPT ![p] = [payments[p] EXCEPT !.cancelled = TRUE]]
    BY <1>1
  <2>3. payments' \in Seq(Payments) /\ DOMAIN payments' = DOMAIN payments
    BY <1>2, <1>3, <2>1, <2>2
  <2>4. QED
    BY <1>2, <1>3, <2>2, <2>3 DEF Payments
<1>6. CASE Linked(p) = {}
  <2>1. ledger' = ledger
    BY <1>1, <1>6
  <2>2. LedgerAgrees'
    BY <1>3, <1>5, <1>6, <2>1, CancelledAgree DEF IInv
  <2>3. QED
    BY <1>1, <1>4, <1>5, <2>1, <2>2 DEF IInv, TypeOK
<1>7. CASE Linked(p) # {}
  <2>1. PICK i \in Linked(p) : ledger' = Reversed(i)
    BY <1>1, <1>7
  <2> DEFINE flipped == [ledger[i] EXCEPT !.status = "REVERSED"]
             first == [ledger EXCEPT ![i] = flipped]
             negated == [pay |-> ledger[i].pay, amount |-> -ledger[i].amount,
                         status |-> "POSTED", reversal |-> TRUE]
  <2>2. i \in DOMAIN ledger /\ ledger[i].pay = p /\ ledger[i] \in LedgerRows
    BY <1>2 DEF Linked
  <2>3. flipped \in LedgerRows /\ negated \in LedgerRows
    BY <2>2 DEF LedgerRows
  <2>4. ledger' = Append(first, negated)
    BY <2>1 DEF Reversed
  <2>5. first \in Seq(LedgerRows) /\ Len(first) = Len(ledger) /\ Len(ledger) \in Nat
    BY <1>2, <2>2, <2>3
  <2>6. /\ ledger' \in Seq(LedgerRows)
        /\ Len(ledger') = Len(ledger) + 1
        /\ \A j \in 1..Len(ledger) : ledger'[j] = first[j]
        /\ ledger'[Len(ledger) + 1] = negated
    BY <2>3, <2>4, <2>5, AppendProperties
  <2>7. DOMAIN ledger = 1..Len(ledger) /\ DOMAIN ledger' = 1..(Len(ledger) + 1)
    BY <1>2, <2>6, LenProperties
  <2>8. \A j \in 1..Len(ledger) : ledger'[j] = IF j = i THEN flipped ELSE ledger[j]
    BY <2>2, <2>6, <2>7
  <2>9. /\ flipped.pay = ledger[i].pay /\ flipped.amount = ledger[i].amount
        /\ flipped.reversal = ledger[i].reversal /\ flipped.status = "REVERSED"
    BY <2>2 DEF LedgerRows
  <2>10. /\ negated.pay = p /\ negated.amount = -ledger[i].amount /\ negated.reversal
    BY <2>2
  <2> HIDE DEF flipped, first, negated
  <2>11. LedgerAgrees'
    <3>1. \A j \in 1..Len(ledger) : /\ ledger'[j].pay = ledger[j].pay
                                    /\ ledger'[j].amount = ledger[j].amount
                                    /\ ledger'[j].reversal = ledger[j].reversal
                                    /\ j # i => ledger'[j].status = ledger[j].status
      BY <2>8, <2>9
    <3>2. ledger'[i].status = "REVERSED"
      BY <2>2, <2>7, <2>8, <2>9
    <3>3. /\ ledger'[Len(ledger) + 1].pay = p
          /\ ledger'[Len(ledger) + 1].amount = -ledger[i].amount
          /\ ledger'[Len(ledger) + 1].reversal
      BY <2>6, <2>10
    <3>4. QED
      BY <1>3, <1>5, <2>5, <2>7, <3>1, <3>2, <3>3, ReversedAgree DEF IInv
  <2>12. QED
    BY <1>1, <1>4, <1>5, <2>6, <2>11 DEF IInv, TypeOK
<1>8. QED
  BY <1>6, <1>7

LEMMA ClosingKeepsIInv ==
    ASSUME IInv, CloseLoan \/ WaiveRows \/ ReopenLoan \/ RestoreRows
    PROVE  IInv'
<1>1. /\ UNCHANGED <<payments, ledger, tries, ask>>
      /\ office' \in 0..MaxOffice
      /\ loanStatus' \in {"DISBURSED", "CLOSED"}
      /\ admin' \in {"idle", "waiving", "restoring"}
  BY OfficeTyped DEF CloseLoan, WaiveRows, ReopenLoan, RestoreRows, IInv, TypeOK
<1>2. LedgerAgrees'
  BY <1>1, UnchangedAgree DEF IInv
<1>3. \A r \in RowNumbers : rows[r] \in Rows /\ RowAgrees(rows[r])
  BY DEF IInv, TypeOK, StatusTellsBalance, RowAgrees
<1>4. rows' \in [RowNumbers -> Rows] /\ StatusTellsBalance'
  <2>1. CASE CloseLoan \/ ReopenLoan
    BY <2>1 DEF CloseLoan, ReopenLoan, IInv, TypeOK, StatusTellsBalance
  <2>2. CASE WaiveRows
    <3>1. \A r \in RowNumbers : RowAgrees(rows'[r])
      BY <1>3, <2>2, WaivedAgrees DEF WaiveRows, Open
    <3>2. QED
      BY <2>2, <3>1 DEF WaiveRows, RowAgrees, StatusTellsBalance
  <2>3. CASE RestoreRows
    <3>1. \A r \in RowNumbers : RowAgrees(rows'[r])
      BY <1>3, <2>3, RestoredAgrees DEF RestoreRows
    <3>2. QED
      BY <2>3, <3>1 DEF RestoreRows, RowAgrees, StatusTellsBalance
  <2>4. QED
    BY <2>1, <2>2, <2>3
<1>5. QED
  BY <1>1, <1>2, <1>4 DEF IInv, TypeOK

-----------------------------------------------------------------------------
LEMMA InitIInv ==
    ASSUME Init
    PROVE  IInv
<1>1. TypeOK
  BY CollectionsAssumption DEF Init, TypeOK, Rows, TryRecords, TrySteps, Unpaid
<1>2. StatusTellsBalance
  BY CollectionsAssumption DEF Init, StatusTellsBalance, StatusOfBalance
<1>3. LedgerAgrees
  BY DEF Init, LedgerAgrees, PostingsHavePayments
<1>4. QED
  BY <1>1, <1>2, <1>3 DEF IInv

LEMMA NextKeepsIInv ==
    ASSUME IInv, [Next]_vars
    PROVE  IInv'
<1>1. CASE UNCHANGED vars
  <2>1. LedgerAgrees'
    BY <1>1, UnchangedAgree DEF IInv, vars
  <2>2. QED
    BY <1>1, <2>1 DEF IInv, vars, TypeOK, StatusTellsBalance
<1>2. ASSUME NEW t \in Tries,
             CollectLookup(t) \/ CollectRead(t) \/ CollectRefused(t) \/ RecordRead(t)
      PROVE  IInv'
  BY <1>2, ReadsKeepIInv
<1>3. ASSUME NEW t \in Tries, CollectSettle(t) PROVE IInv'
  BY <1>3, CollectSettleKeepsIInv
<1>4. ASSUME NEW t \in Tries, RecordCommit(t) PROVE IInv'
  BY <1>4, RecordCommitKeepsIInv
<1>5. ASSUME NEW p \in DOMAIN payments, ConfirmPayment(p) PROVE IInv'
  BY <1>5, ConfirmKeepsIInv
<1>6. ASSUME NEW r \in RowNumbers, UndoCollection(r) PROVE IInv'
  BY <1>6, UndoKeepsIInv
<1>7. ASSUME NEW i \in DOMAIN ledger, Reconcile(i) PROVE IInv'
  BY <1>7, ReconcileKeepsIInv
<1>8. CASE CloseLoan \/ WaiveRows \/ ReopenLoan \/ RestoreRows
  BY <1>8, ClosingKeepsIInv
<1>9. QED
  BY <1>1, <1>2, <1>3, <1>4, <1>5, <1>6, <1>7, <1>8 DEF Next

(***************************************************************************)
(* The inductive invariant: types, the status an installment owes to its   *)
(* balance, and one ledger row per payment that tells whether it is live.  *)
(***************************************************************************)
THEOREM CollectionsInvariant == Spec => []IInv
<1>1. Init => IInv
  BY InitIInv
<1>2. IInv /\ [Next]_vars => IInv'
  BY NextKeepsIInv
<1>3. QED
  BY <1>1, <1>2, PTL DEF Spec

(***************************************************************************)
(* The types of installments, payments, ledger rows and requests hold for  *)
(* any number of them.                                                     *)
(***************************************************************************)
THEOREM CollectionsTypeCorrect == Spec => []TypeOK
<1>1. IInv => TypeOK
  BY DEF IInv
<1>2. QED
  BY <1>1, CollectionsInvariant, PTL

(***************************************************************************)
(* However collections, office payments, undos, closings and reopenings    *)
(* interleave, an installment has the status its balance implies.          *)
(***************************************************************************)
THEOREM StatusFollowsBalance == Spec => []StatusTellsBalance
<1>1. IInv => StatusTellsBalance
  BY DEF IInv
<1>2. QED
  BY <1>1, CollectionsInvariant, PTL

LEMMA AgreementCounts ==
    ASSUME TypeOK, LedgerAgrees
    PROVE  LedgerFollowsPayments
<1>1. SUFFICES ASSUME NEW p \in DOMAIN payments
               PROVE  LET postings == {i \in DOMAIN ledger : ledger[i].pay = p}
                          originals == {i \in postings : ~ledger[i].reversal}
                          reversals == postings \ originals
                      IN  /\ Cardinality(originals) = 1
                          /\ \A i \in originals :
                                /\ ledger[i].amount = payments[p].amount
                                /\ Counts(i) <=> Live(p) \/ ledger[i].status = "RECONCILED"
                                /\ Cardinality(reversals) = IF Counts(i) THEN 0 ELSE 1
                                /\ \A j \in reversals : ledger[j].amount = -ledger[i].amount
  BY DEF LedgerFollowsPayments
<1> DEFINE postings == {i \in DOMAIN ledger : ledger[i].pay = p}
           originals == {i \in postings : ~ledger[i].reversal}
           reversals == postings \ originals
<1>2. PICK i \in DOMAIN ledger : Accounted(p, i)
  BY DEF LedgerAgrees
<1>3. originals = {i}
  BY <1>2 DEF Accounted, Original
<1>4. Cardinality(originals) = 1
  BY <1>3, FS_Singleton
<1>5. \A k \in DOMAIN ledger : Reversal(p, k) <=> k \in reversals
  BY DEF Reversal
<1>6. reversals \in SUBSET DOMAIN ledger
  OBVIOUS
<1> HIDE DEF postings, originals, reversals
<1>7. ledger[i].status \in {"POSTED", "REVERSED", "RECONCILED"} /\ ~ledger[i].reversal
  <2>1. ledger[i] \in LedgerRows
    BY DEF TypeOK
  <2>2. QED
    BY <1>2, <2>1 DEF LedgerRows, Accounted, Original
<1>8. Counts(i) <=> ledger[i].status # "REVERSED"
  BY <1>7 DEF Counts
<1>9. Counts(i) <=> Live(p) \/ ledger[i].status = "RECONCILED"
  BY <1>2, <1>7, <1>8 DEF Accounted
<1>10. CASE ledger[i].status # "REVERSED"
  <2>1. reversals = {}
    BY <1>2, <1>5, <1>6, <1>10 DEF Accounted
  <2>2. Cardinality(reversals) = 0
    BY <2>1, FS_EmptySet
  <2>3. QED
    BY <1>2, <1>3, <1>4, <1>8, <1>9, <1>10, <2>1, <2>2 DEF Accounted, postings, originals, reversals
<1>11. CASE ledger[i].status = "REVERSED"
  <2>1. PICK j \in DOMAIN ledger : /\ \A k \in DOMAIN ledger : Reversal(p, k) <=> k = j
                                   /\ ledger[j].amount = -ledger[i].amount
    BY <1>2, <1>11 DEF Accounted
  <2>2. reversals = {j}
    BY <1>5, <1>6, <2>1
  <2>3. Cardinality(reversals) = 1
    BY <2>2, FS_Singleton
  <2>4. QED
    BY <1>2, <1>3, <1>4, <1>8, <1>9, <1>11, <2>1, <2>2, <2>3 DEF Accounted, postings, originals, reversals
<1>12. QED
  BY <1>10, <1>11

(***************************************************************************)
(* Every payment is on the ledger once, counted while it is live, and has  *)
(* exactly one negated row against it once it was undone, unless it had    *)
(* been reconciled before.                                                 *)
(***************************************************************************)
THEOREM LedgerTellsPayments == Spec => []LedgerFollowsPayments
<1>1. IInv => LedgerFollowsPayments
  BY AgreementCounts DEF IInv
<1>2. QED
  BY <1>1, CollectionsInvariant, PTL

-----------------------------------------------------------------------------
(* What a settlement does to the installments it has just paid. *)

(* Only collectPayment's transaction adds a payment of a collection. *)
LEMMA OnlySettlementsSettle ==
    ASSUME IInv, [Next]_vars, NEW r \in JustSettled
    PROVE  \E t \in Tries : CollectSettle(t)
<1>1. PICK p \in DOMAIN payments' \ DOMAIN payments :
          payments'[p].row = r /\ Collects(payments'[p].by)
  BY DEF JustSettled
<1>2. ASSUME NEW t \in Tries, RecordCommit(t) PROVE FALSE
  <2> DEFINE pay == [row |-> Requested(t), amount |-> Amount(t), status |-> "COLLECTED",
                     cancelled |-> FALSE, key |-> None, by |-> t]
  <2>1. payments' = Append(payments, pay) /\ ~Collects(t)
    BY <1>2 DEF RecordCommit
  <2>2. payments \in Seq(Payments) /\ Len(payments) \in Nat
    BY LenProperties DEF IInv, TypeOK
  <2>3. DOMAIN payments = 1..Len(payments) /\ DOMAIN payments' = 1..(Len(payments) + 1)
    BY <2>1, <2>2
  <2>4. p = Len(payments) + 1
    BY <1>1, <2>2, <2>3
  <2>5. payments'[p] = pay
    BY <2>1, <2>2, <2>4
  <2>6. payments'[p].by = t
    BY <2>5
  <2>7. QED
    BY <1>1, <2>1, <2>6
<1>3. ASSUME DOMAIN payments' = DOMAIN payments PROVE FALSE
  BY <1>1, <1>3
<1>4. ASSUME NEW t \in Tries,
             CollectLookup(t) \/ CollectRead(t) \/ CollectRefused(t) \/ RecordRead(t)
      PROVE  FALSE
  <2>1. payments' = payments
    BY <1>4 DEF CollectLookup, CollectRead, CollectRefused, RecordRead, OnlyTries
  <2>2. QED
    BY <1>3, <2>1
<1>5. ASSUME NEW q \in DOMAIN payments, ConfirmPayment(q) PROVE FALSE
  <2>1. DOMAIN payments' = DOMAIN payments
    BY <1>5 DEF ConfirmPayment
  <2>2. QED
    BY <1>3, <2>1
<1>6. ASSUME NEW q \in RowNumbers, UndoCollection(q) PROVE FALSE
  <2>1. DOMAIN payments' = DOMAIN payments
    BY <1>6 DEF UndoCollection
  <2>2. QED
    BY <1>3, <2>1
<1>7. ASSUME NEW i \in DOMAIN ledger, Reconcile(i) PROVE FALSE
  <2>1. payments' = payments
    BY <1>7 DEF Reconcile
  <2>2. QED
    BY <1>3, <2>1
<1>8. ASSUME CloseLoan \/ WaiveRows \/ ReopenLoan \/ RestoreRows \/ UNCHANGED vars PROVE FALSE
  <2>1. payments' = payments
    BY <1>8 DEF CloseLoan, WaiveRows, ReopenLoan, RestoreRows, vars
  <2>2. QED
    BY <1>3, <2>1
<1>9. QED
  BY <1>2, <1>4, <1>5, <1>6, <1>7, <1>8 DEF Next

LEMMA SettledRow ==
    ASSUME IInv, [Next]_vars, NEW r \in JustSettled
    PROVE  \E t \in Tries, left \in [0..NumRows -> 0..MaxAmount] :
              /\ Settles(t, left)
              /\ r \in PaidRows(left)
              /\ rows' = [q \in RowNumbers |->
                             IF q \in PaidRows(left) THEN Credited(rows[q], Applied(left, q))
                             ELSE rows[q]]
<1>1. PICK t \in Tries : CollectSettle(t)
  BY OnlySettlementsSettle
<1>2. PICK left \in [0..NumRows -> 0..MaxAmount] :
          /\ Settles(t, left)
          /\ \E settled \in [1..Cardinality(PaidRows(left)) -> PaidRows(left)] :
                Settle(t, left, settled)
  BY <1>1 DEF CollectSettle
<1>3. PICK n \in Nat : \E settled \in [1..n -> PaidRows(left)] : Settle(t, left, settled)
  BY <1>2, PaidRowsFinite
<1>4. PICK settled \in [1..n -> PaidRows(left)] : Settle(t, left, settled)
  BY <1>3
<1> DEFINE new == [i \in 1..n |-> NewPayment(t, left, settled[i])]
<1>5. /\ payments' = payments \o new
      /\ rows' = [q \in RowNumbers |->
                     IF q \in PaidRows(left) THEN Credited(rows[q], Applied(left, q)) ELSE rows[q]]
  <2>1. DOMAIN settled = 1..n
    OBVIOUS
  <2>2. QED
    BY <1>4, <2>1 DEF Settle
<1>6. TypeOK /\ StatusTellsBalance /\ Settles(t, left)
  BY <1>2 DEF IInv
<1>7. \A i \in 1..n : new[i] \in Payments /\ new[i].row \in PaidRows(left)
  <2>1. TAKE i \in 1..n
  <2>2. settled[i] \in PaidRows(left)
    OBVIOUS
  <2>3. /\ NewPayment(t, left, settled[i]) \in Payments
        /\ NewPayment(t, left, settled[i]).row = settled[i]
    BY <1>6, <2>2, NewPaymentTyped
  <2>4. QED
    BY <2>2, <2>3
<1>8. new \in Seq(Payments) /\ Len(new) = n
  <2>1. new \in [1..n -> Payments]
    BY <1>7
  <2>2. QED
    BY <2>1
<1> HIDE DEF new
<1>9. PICK p \in DOMAIN payments' \ DOMAIN payments : payments'[p].row = r
  BY DEF JustSettled
<1>10. /\ Len(payments) \in Nat
       /\ DOMAIN payments = 1..Len(payments)
       /\ DOMAIN payments' = 1..(Len(payments) + n)
       /\ \A k \in 1..n : payments'[Len(payments) + k] = new[k]
  <2>1. payments \in Seq(Payments) /\ Len(payments) \in Nat
    BY <1>6, LenProperties DEF TypeOK
  <2>2. payments' = payments \o new /\ new \in Seq(Payments) /\ Len(new) = n
    BY <1>5, <1>8
  <2>3. /\ DOMAIN payments = 1..Len(payments)
        /\ DOMAIN payments' = 1..(Len(payments) + Len(new))
        /\ \A k \in 1..Len(new) : payments'[Len(payments) + k] = new[k]
    BY <2>1, <2>2, PaymentsAppended
  <2>4. QED
    BY <2>1, <2>2, <2>3
<1>11. p - Len(payments) \in 1..n /\ p = Len(payments) + (p - Len(payments))
  BY <1>9, <1>10
<1>12. payments'[p] = new[p - Len(payments)]
  BY <1>10, <1>11
<1>13. r \in PaidRows(left)
  BY <1>7, <1>9, <1>11, <1>12
<1>14. QED
  BY <1>5, <1>6, <1>13

(***************************************************************************)
(* However many collections overlap, a settlement never takes an           *)
(* installment beyond what was due on it: the balance it applies the money *)
(* to is read under the lock.                                              *)
(***************************************************************************)
THEOREM SettlementsNeverOverpay == Spec => CollectNeverOverpays
<1>1. ASSUME IInv, [Next]_vars PROVE \A r \in JustSettled : rows'[r].paid <= Total
  <2>1. TAKE r \in JustSettled
  <2>2. PICK t \in Tries, left \in [0..NumRows -> 0..MaxAmount] :
            /\ Settles(t, left)
            /\ r \in PaidRows(left)
            /\ rows' = [q \in RowNumbers |->
                           IF q \in PaidRows(left) THEN Credited(rows[q], Applied(left, q))
                           ELSE rows[q]]
    BY <1>1, SettledRow
  <2>3. r \in RowNumbers /\ TypeOK /\ StatusTellsBalance
    BY <1>1, <2>2 DEF PaidRows, IInv
  <2>4. Applied(left, r) \in 1..MaxAmount /\ Applied(left, r) <= Balance(r)
    BY <2>2, <2>3, SettlesRow
  <2>5. rows[r] \in Rows /\ rows[r].paid \in Nat /\ Balance(r) = Total - rows[r].paid
    BY <2>3, RowTyped
  <2>6. rows'[r].paid = rows[r].paid + Applied(left, r)
    <3>1. Applied(left, r) \in Nat
      BY <2>4
    <3>2. QED
      BY <2>2, <2>3, <2>5, <3>1, CreditedTyped
  <2>7. QED
    BY <2>4, <2>5, <2>6, CollectionsAssumption
<1>2. QED
  BY <1>1, CollectionsInvariant, PTL DEF Spec, CollectNeverOverpays

(***************************************************************************)
(* Money clears the oldest debt first: if an earlier installment had been  *)
(* left open, nothing would have remained of the amount to put on a later  *)
(* one, because what remains never grows along the loop.                   *)
(***************************************************************************)
THEOREM OldestDebtClearedFirst == Spec => OldestDebtFirst
<1>1. ASSUME IInv, [Next]_vars
      PROVE  \A r \in JustSettled : \A q \in 1..r - 1 : rows'[q].status \notin Unpaid
  <2>1. TAKE r \in JustSettled
  <2>2. PICK t \in Tries, left \in [0..NumRows -> 0..MaxAmount] :
            /\ Settles(t, left)
            /\ r \in PaidRows(left)
            /\ rows' = [q \in RowNumbers |->
                           IF q \in PaidRows(left) THEN Credited(rows[q], Applied(left, q))
                           ELSE rows[q]]
    BY <1>1, SettledRow
  <2>3. r \in RowNumbers /\ TypeOK /\ StatusTellsBalance
    BY <1>1, <2>2 DEF PaidRows, IInv
  <2>4. TAKE q \in 1..r - 1
  <2>5. /\ q \in RowNumbers /\ q \in 0..NumRows /\ r - 1 \in 0..NumRows /\ q <= r - 1
        /\ NumRows \in Nat /\ Total \in Nat
    BY <2>3, CollectionsAssumption DEF RowNumbers
  <2>6. /\ r <= Requested(t) /\ Applied(left, r) > 0 /\ Applied(left, r) = left[r - 1] - left[r]
        /\ left[r - 1] \in 0..MaxAmount /\ left[r] \in 0..left[r - 1]
    BY <2>2, <2>3, SettlesRow DEF PaidRows, Applied
  <2>7. left[q] > 0
    <3>1. left[r - 1] <= left[q]
      BY <2>2, <2>3, <2>5, LeftDescends
    <3>2. left[q] \in Nat
      BY <2>5
    <3>3. QED
      BY <2>6, <3>1, <3>2, CollectionsAssumption
  <2>8. CASE ~Open(q)
    <3>1. q \notin PaidRows(left)
      BY <2>2, <2>3, <2>5, <2>8, SettlesRow
    <3>2. rows'[q] = rows[q]
      BY <2>2, <2>5, <3>1
    <3>3. QED
      BY <2>8, <3>2 DEF Open
  <2>9. CASE Open(q)
    <3>1. rows[q] \in Rows /\ rows[q].paid \in Nat /\ Balance(q) = Total - rows[q].paid /\ Balance(q) > 0
      BY <2>3, <2>5, <2>9, RowTyped, OpenOwes
    <3>2. q <= Requested(t) /\ left[q - 1] \in 0..MaxAmount /\ left[q] \in 0..left[q - 1]
      <4>1. Requested(t) \in RowNumbers
        BY <2>3, AskTyped
      <4>2. q <= Requested(t)
        BY <2>3, <2>5, <2>6, <4>1 DEF RowNumbers
      <4>3. left[q - 1] \in 0..MaxAmount /\ left[q] \in 0..left[q - 1]
        BY <2>2, <2>3, <2>5, SettlesRow
      <4>4. QED
        BY <4>2, <4>3
    <3>3. left[q] = left[q - 1] - Lesser(left[q - 1], Balance(q))
      BY <2>2, <2>5, <2>9, <3>2 DEF Settles
    <3>4. Applied(left, q) = Balance(q)
      <4>1. left[q - 1] \in Int /\ left[q] \in Int /\ Balance(q) \in Int
        BY <2>5, <3>1, <3>2, CollectionsAssumption
      <4>2. Lesser(left[q - 1], Balance(q)) = Balance(q)
        BY <2>7, <3>3, <4>1, LesserTaken
      <4>3. QED
        BY <3>3, <4>1, <4>2 DEF Applied
    <3>5. q \in PaidRows(left)
      BY <2>5, <3>1, <3>4 DEF PaidRows
    <3>6. rows'[q] = Credited(rows[q], Balance(q))
      BY <2>2, <2>5, <3>4, <3>5
    <3>7. Balance(q) \in Nat /\ rows[q].paid + Balance(q) = Total
      BY <2>5, <3>1
    <3>8. rows'[q].status = StatusOfBalance(Total)
      BY <3>1, <3>6, <3>7, CreditedTyped
    <3>9. QED
      BY <2>5, <3>8 DEF StatusOfBalance, Unpaid
  <2>10. QED
    BY <2>8, <2>9
<1>2. QED
  BY <1>1, CollectionsInvariant, PTL DEF Spec, OldestDebtFirst

-----------------------------------------------------------------------------
(* What the live payments on an installment add up to. *)

AmountsIn(pays) == [p \in DOMAIN pays |-> pays[p].amount]
LiveIn(pays, r) == {p \in DOMAIN pays : pays[p].row = r /\ ~pays[p].cancelled}
PaidIn(pays, r) == SumFunctionOnSet(AmountsIn(pays), LiveIn(pays, r))

LEMMA PaidIsSum == PaidIsLivePayments <=> \A r \in RowNumbers : rows[r].paid = PaidIn(payments, r)
BY DEF PaidIsLivePayments, SumOver, PaidIn, AmountsIn, LivePaymentsOn, LiveIn, Live

\* The later payments are those there were, perhaps changed, and perhaps more.
Continues(pays, later) ==
    /\ later \in Seq(Payments)
    /\ \A p \in DOMAIN pays : p \in DOMAIN later /\ later[p].amount = pays[p].amount

LEMMA PaymentsAddUp ==
    ASSUME NEW pays \in Seq(Payments), NEW S \in SUBSET DOMAIN pays
    PROVE  /\ IntegersOn(AmountsIn(pays), S)
           /\ \A p \in S : AmountsIn(pays)[p] = pays[p].amount /\ pays[p].amount \in Nat
           /\ SumFunctionOnSet(AmountsIn(pays), S) \in Nat
<1>1. DOMAIN pays = 1..Len(pays) /\ Len(pays) \in Nat
  OBVIOUS
<1>2. IsFiniteSet(S)
  <2>1. IsFiniteSet(1..Len(pays))
    BY <1>1, FS_Interval
  <2>2. QED
    BY <1>1, <2>1, FS_Subset
<1>3. \A p \in S : AmountsIn(pays)[p] = pays[p].amount /\ pays[p].amount \in Nat
  <2>1. TAKE p \in S
  <2>2. pays[p] \in Payments
    BY <1>1
  <2>3. QED
    BY <2>2 DEF AmountsIn, Payments
<1>4. SumFunctionOnSet(AmountsIn(pays), S) \in Nat
  BY <1>2, <1>3, SumIsNatural
<1>5. QED
  BY <1>2, <1>3, <1>4 DEF IntegersOn

(* They add up to the same as long as they are the same.                   *)
LEMMA SameSum ==
    ASSUME NEW pays \in Seq(Payments), NEW later, Continues(pays, later),
           NEW S \in SUBSET DOMAIN pays
    PROVE  SumFunctionOnSet(AmountsIn(later), S) = SumFunctionOnSet(AmountsIn(pays), S)
<1>1. /\ IntegersOn(AmountsIn(pays), S)
      /\ \A p \in S : AmountsIn(pays)[p] = AmountsIn(later)[p]
  BY PaymentsAddUp DEF Continues, AmountsIn
<1>2. QED
  BY <1>1, SumOfEquals

LEMMA PaidTheSame ==
    ASSUME NEW pays \in Seq(Payments), NEW later, Continues(pays, later),
           NEW r, LiveIn(later, r) = LiveIn(pays, r)
    PROVE  PaidIn(later, r) = PaidIn(pays, r)
<1>1. LiveIn(pays, r) \in SUBSET DOMAIN pays
  BY DEF LiveIn
<1>2. QED
  BY <1>1, SameSum DEF PaidIn

(* One that is cancelled counts no more.                                   *)
LEMMA PaidWithout ==
    ASSUME NEW pays \in Seq(Payments), NEW later, Continues(pays, later), NEW r,
           NEW p \in LiveIn(pays, r), LiveIn(later, r) = LiveIn(pays, r) \ {p}
    PROVE  /\ PaidIn(later, r) = PaidIn(pays, r) - pays[p].amount
           /\ PaidIn(later, r) \in Nat /\ PaidIn(pays, r) \in Nat /\ pays[p].amount \in Nat
<1> DEFINE L == LiveIn(pays, r)
<1>1. L \in SUBSET DOMAIN pays /\ L \ {p} \in SUBSET DOMAIN pays /\ p \in L
  BY DEF LiveIn
<1>2. PaidIn(later, r) = SumFunctionOnSet(AmountsIn(pays), L \ {p})
  BY <1>1, SameSum DEF PaidIn
<1>3. PaidIn(pays, r) = SumFunctionOnSet(AmountsIn(pays), L)
  BY DEF PaidIn
<1> HIDE DEF L
<1>4. /\ IntegersOn(AmountsIn(pays), L) /\ SumFunctionOnSet(AmountsIn(pays), L) \in Nat
      /\ AmountsIn(pays)[p] = pays[p].amount /\ pays[p].amount \in Nat
      /\ SumFunctionOnSet(AmountsIn(pays), L \ {p}) \in Nat
  BY <1>1, PaymentsAddUp
<1>5. SumFunctionOnSet(AmountsIn(pays), L \ {p}) =
          SumFunctionOnSet(AmountsIn(pays), L) - AmountsIn(pays)[p]
  BY <1>1, <1>4, SumWithout
<1>6. QED
  BY <1>2, <1>3, <1>4, <1>5

(* A new one counts.                                                       *)
LEMMA PaidWith ==
    ASSUME NEW pays \in Seq(Payments), NEW later, Continues(pays, later), NEW r,
           NEW q \in DOMAIN later, q \notin DOMAIN pays,
           LiveIn(later, r) = LiveIn(pays, r) \cup {q}
    PROVE  PaidIn(later, r) = PaidIn(pays, r) + later[q].amount
<1> DEFINE L == LiveIn(pays, r)
<1>1. /\ L \in SUBSET DOMAIN pays /\ L \in SUBSET DOMAIN later /\ {q} \in SUBSET DOMAIN later
      /\ later \in Seq(Payments) /\ q \notin L
  BY DEF LiveIn, Continues
<1>2. /\ PaidIn(later, r) = SumFunctionOnSet(AmountsIn(later), L \cup {q})
      /\ PaidIn(pays, r) = SumFunctionOnSet(AmountsIn(later), L)
  BY <1>1, SameSum DEF PaidIn
<1> HIDE DEF L
<1>3. IntegersOn(AmountsIn(later), L)
  BY <1>1, PaymentsAddUp
<1>4. AmountsIn(later)[q] = later[q].amount /\ later[q].amount \in Int
  <2>1. \A p \in {q} : AmountsIn(later)[p] = later[p].amount /\ later[p].amount \in Nat
    BY <1>1, PaymentsAddUp
  <2>2. QED
    BY <2>1
<1>5. SumFunctionOnSet(AmountsIn(later), L \cup {q}) =
          SumFunctionOnSet(AmountsIn(later), L) + AmountsIn(later)[q]
  BY <1>1, <1>3, <1>4, SumWith
<1>6. QED
  BY <1>2, <1>4, <1>5

-----------------------------------------------------------------------------
(* The settlement's payments. *)

(* A settlement records one live payment on each installment it pays, of   *)
(* the amount applied there.                                               *)
LEMMA SettlementRecorded ==
    ASSUME IInv, NEW t \in Tries, CollectSettle(t)
    PROVE  \E left \in [0..NumRows -> 0..MaxAmount] :
              /\ Settles(t, left)
              /\ rows' = [r \in RowNumbers |->
                             IF r \in PaidRows(left) THEN Credited(rows[r], Applied(left, r))
                             ELSE rows[r]]
              /\ tries' = [tries EXCEPT ![t].at = "done", ![t].applied = left[0] - left[NumRows]]
              /\ Continues(payments, payments')
              /\ \A p \in DOMAIN payments : payments'[p] = payments[p]
              /\ \A q \in DOMAIN payments' \ DOMAIN payments :
                    payments'[q].row \in PaidRows(left) /\ ~payments'[q].cancelled
              /\ \A r \in PaidRows(left) : \E q \in DOMAIN payments' \ DOMAIN payments :
                    /\ payments'[q].row = r /\ payments'[q].amount = Applied(left, r)
                    /\ \A u \in DOMAIN payments' \ DOMAIN payments : payments'[u].row = r => u = q
<1>1. PICK left \in [0..NumRows -> 0..MaxAmount] :
          /\ Settles(t, left)
          /\ \E settled \in [1..Cardinality(PaidRows(left)) -> PaidRows(left)] :
                InOrder(settled) /\ Settle(t, left, settled)
  BY DEF CollectSettle
<1> DEFINE P == PaidRows(left)
           n == Cardinality(P)
<1>2. n \in Nat /\ P \in SUBSET Int /\ IsFiniteSet(P) /\ P \in SUBSET RowNumbers
  <2>1. P \in SUBSET (1..NumRows) /\ IsFiniteSet(1..NumRows)
    BY CollectionsAssumption, FS_Interval DEF PaidRows, RowNumbers
  <2>2. IsFiniteSet(P)
    BY <2>1, FS_Subset
  <2>3. QED
    BY <2>1, <2>2, PaidRowsFinite DEF RowNumbers
<1>3. PICK settled \in [1..n -> P] : InOrder(settled) /\ Settle(t, left, settled)
  BY <1>1
<1> DEFINE new == [i \in 1..n |-> NewPayment(t, left, settled[i])]
<1>4. /\ rows' = [r \in RowNumbers |-> IF r \in P THEN Credited(rows[r], Applied(left, r)) ELSE rows[r]]
      /\ payments' = payments \o new
      /\ tries' = [tries EXCEPT ![t].at = "done", ![t].applied = left[0] - left[NumRows]]
  <2>1. DOMAIN settled = 1..n
    OBVIOUS
  <2>2. QED
    BY <1>3, <2>1 DEF Settle
<1>5. \A i \in 1..n : /\ settled[i] \in P /\ new[i] \in Payments
                      /\ new[i].row = settled[i] /\ new[i].amount = Applied(left, settled[i])
                      /\ ~new[i].cancelled
  <2>1. TAKE i \in 1..n
  <2>2. settled[i] \in P
    OBVIOUS
  <2>3. QED
    BY <1>1, <2>2, NewPaymentTyped DEF IInv
<1>6. new \in Seq(Payments) /\ Len(new) = n
  <2>1. new \in [1..n -> Payments]
    BY <1>5
  <2>2. QED
    BY <1>2, <2>1
<1>7. \A x \in P : \E i \in 1..n : settled[i] = x /\ \A j \in 1..n : settled[j] = x => j = i
  <2>1. \A i, j \in 1..n : i < j => settled[i] < settled[j]
    BY <1>3 DEF InOrder
  <2> HIDE DEF P
  <2>2. QED
    BY <1>2, <1>3, <2>1, OrderedListing
<1> HIDE DEF new, n, P
<1> DEFINE len == Len(payments)
<1>8. /\ payments \in Seq(Payments) /\ len \in Nat
      /\ payments' \in Seq(Payments) /\ DOMAIN payments = 1..len /\ DOMAIN payments' = 1..len + n
      /\ \A p \in 1..len : payments'[p] = payments[p]
      /\ \A k \in 1..n : payments'[len + k] = new[k]
  <2>1. payments \in Seq(Payments)
    BY DEF IInv, TypeOK
  <2>2. QED
    BY <1>4, <1>6, <2>1, Concatenated, LenProperties
<1> HIDE DEF len
<1>9. \A q \in DOMAIN payments' \ DOMAIN payments : \E i \in 1..n : q = len + i
  <2>1. TAKE q \in DOMAIN payments' \ DOMAIN payments
  <2>2. q - len \in 1..n /\ q = len + (q - len)
    BY <1>2, <1>8
  <2>3. QED
    BY <2>2
<1>10. \A i \in 1..n : len + i \in DOMAIN payments' \ DOMAIN payments
  BY <1>2, <1>8
<1>11. Continues(payments, payments')
  BY <1>2, <1>8 DEF Continues
<1>12. \A q \in DOMAIN payments' \ DOMAIN payments :
           payments'[q].row \in P /\ ~payments'[q].cancelled
  BY <1>5, <1>8, <1>9
<1>13. ASSUME NEW r \in P
       PROVE  \E q \in DOMAIN payments' \ DOMAIN payments :
                 /\ payments'[q].row = r /\ payments'[q].amount = Applied(left, r)
                 /\ \A u \in DOMAIN payments' \ DOMAIN payments : payments'[u].row = r => u = q
  <2>1. PICK i \in 1..n : settled[i] = r /\ \A j \in 1..n : settled[j] = r => j = i
    BY <1>7
  <2>2. payments'[len + i].row = r /\ payments'[len + i].amount = Applied(left, r)
    BY <1>5, <1>8, <2>1
  <2>3. ASSUME NEW u \in DOMAIN payments' \ DOMAIN payments, payments'[u].row = r
        PROVE  u = len + i
    <3>1. PICK j \in 1..n : u = len + j
      BY <1>9
    <3>2. payments'[u] = new[j]
      BY <1>8, <3>1
    <3>3. settled[j] = r
      BY <1>5, <2>3, <3>2
    <3>4. QED
      BY <2>1, <3>1, <3>3
  <2>4. len + i \in DOMAIN payments' \ DOMAIN payments
    BY <1>10
  <2>5. QED
    BY <2>2, <2>3, <2>4
<1>14. \A p \in DOMAIN payments : payments'[p] = payments[p]
  BY <1>8
<1>15. Settles(t, left)
  BY <1>1
<1>16. QED
  <2> WITNESS left \in [0..NumRows -> 0..MaxAmount]
  <2>1. QED
    BY <1>4, <1>11, <1>12, <1>13, <1>14, <1>15 DEF P

-----------------------------------------------------------------------------
(* Every step leaves paid_amount the sum of the live payments. *)

LEMMA SettledPaid ==
    ASSUME IInv, PaidIsLivePayments, NEW t \in Tries, CollectSettle(t)
    PROVE  PaidIsLivePayments'
<1>1. PICK left \in [0..NumRows -> 0..MaxAmount] :
          /\ rows' = [r \in RowNumbers |->
                         IF r \in PaidRows(left) THEN Credited(rows[r], Applied(left, r))
                         ELSE rows[r]]
          /\ Continues(payments, payments')
          /\ \A p \in DOMAIN payments : payments'[p] = payments[p]
          /\ \A q \in DOMAIN payments' \ DOMAIN payments :
                payments'[q].row \in PaidRows(left) /\ ~payments'[q].cancelled
          /\ \A r \in PaidRows(left) : \E q \in DOMAIN payments' \ DOMAIN payments :
                /\ payments'[q].row = r /\ payments'[q].amount = Applied(left, r)
                /\ \A u \in DOMAIN payments' \ DOMAIN payments : payments'[u].row = r => u = q
  BY SettlementRecorded
<1>2. payments \in Seq(Payments) /\ \A p \in DOMAIN payments : p \in DOMAIN payments'
  BY <1>1 DEF IInv, TypeOK, Continues
<1> SUFFICES ASSUME NEW r \in RowNumbers
             PROVE  rows'[r].paid = PaidIn(payments', r)
  BY DEF PaidIsLivePayments, SumOver, PaidIn, AmountsIn, LivePaymentsOn, LiveIn, Live
<1>3. rows[r].paid = PaidIn(payments, r)
  BY PaidIsSum
<1>4. CASE r \in PaidRows(left)
  <2>1. PICK q \in DOMAIN payments' \ DOMAIN payments :
            /\ payments'[q].row = r /\ payments'[q].amount = Applied(left, r)
            /\ \A u \in DOMAIN payments' \ DOMAIN payments : payments'[u].row = r => u = q
    BY <1>1, <1>4
  <2>2. ~payments'[q].cancelled
    BY <1>1
  <2>3. LiveIn(payments', r) = LiveIn(payments, r) \cup {q}
    BY <1>1, <1>2, <2>1, <2>2 DEF LiveIn
  <2>4. PaidIn(payments', r) = PaidIn(payments, r) + payments'[q].amount
    BY <1>1, <1>2, <2>3, PaidWith
  <2>5. rows'[r].paid = rows[r].paid + Applied(left, r)
    BY <1>1, <1>4 DEF Credited
  <2>6. QED
    BY <1>3, <2>1, <2>4, <2>5
<1>5. CASE r \notin PaidRows(left)
  <2>1. LiveIn(payments', r) = LiveIn(payments, r)
    BY <1>1, <1>2, <1>5 DEF LiveIn
  <2>2. PaidIn(payments', r) = PaidIn(payments, r)
    BY <1>1, <1>2, <2>1, PaidTheSame
  <2>3. QED
    BY <1>1, <1>3, <1>5, <2>2
<1>6. QED
  BY <1>4, <1>5

LEMMA RecordedPaid ==
    ASSUME IInv, PaidIsLivePayments, NEW t \in Tries, RecordCommit(t)
    PROVE  PaidIsLivePayments'
<1> DEFINE q == Len(payments) + 1
           pay == [row |-> Requested(t), amount |-> Amount(t), status |-> "COLLECTED",
                   cancelled |-> FALSE, key |-> None, by |-> t]
<1>1. /\ rows' = [rows EXCEPT ![Requested(t)] = Credited(rows[Requested(t)], Amount(t))]
      /\ payments' = Append(payments, pay)
  BY DEF RecordCommit
<1>2. /\ Requested(t) \in RowNumbers /\ Amount(t) \in Nat \ {0}
      /\ payments \in Seq(Payments) /\ rows \in [RowNumbers -> Rows]
  BY AskTyped, CollectionsAssumption DEF IInv, TypeOK
<1>3. pay \in Payments /\ ~pay.cancelled /\ pay.amount = Amount(t) /\ pay.row = Requested(t)
  BY <1>2 DEF Payments, CollectionStatuses
<1> HIDE DEF pay
<1>4. /\ payments' \in Seq(Payments)
      /\ DOMAIN payments' = DOMAIN payments \cup {q} /\ q \notin DOMAIN payments
      /\ payments'[q] = pay
      /\ \A p \in DOMAIN payments : payments'[p] = payments[p]
  BY <1>1, <1>2, <1>3
<1>5. Continues(payments, payments')
  BY <1>4 DEF Continues
<1> HIDE DEF q
<1> SUFFICES ASSUME NEW r \in RowNumbers
             PROVE  rows'[r].paid = PaidIn(payments', r)
  BY DEF PaidIsLivePayments, SumOver, PaidIn, AmountsIn, LivePaymentsOn, LiveIn, Live
<1>6. rows[r].paid = PaidIn(payments, r)
  BY PaidIsSum
<1>7. CASE r = Requested(t)
  <2>1. LiveIn(payments', r) = LiveIn(payments, r) \cup {q}
    BY <1>3, <1>4, <1>7 DEF LiveIn
  <2>2. PaidIn(payments', r) = PaidIn(payments, r) + payments'[q].amount
    BY <1>2, <1>4, <1>5, <2>1, PaidWith
  <2>3. rows'[r].paid = rows[r].paid + Amount(t)
    BY <1>1, <1>2, <1>7 DEF Credited
  <2>4. QED
    BY <1>3, <1>4, <1>6, <2>2, <2>3
<1>8. CASE r # Requested(t)
  <2>1. LiveIn(payments', r) = LiveIn(payments, r)
    BY <1>3, <1>4, <1>8 DEF LiveIn
  <2>2. PaidIn(payments', r) = PaidIn(payments, r)
    BY <1>2, <1>5, <2>1, PaidTheSame
  <2>3. QED
    BY <1>1, <1>2, <1>6, <1>8, <2>2
<1>9. QED
  BY <1>7, <1>8

(* The undo takes back the payment it cancels and never meets the zero at  *)
(* which it would stop: the installment's other payments are still there.  *)
LEMMA UndonePaid ==
    ASSUME IInv, PaidIsLivePayments, NEW r \in RowNumbers, UndoCollection(r)
    PROVE  PaidIsLivePayments'
<1> DEFINE p == Max(LivePaymentsOn(r))
           paid == PaidAfterUndo(r, p)
<1>1. /\ rows' = [rows EXCEPT ![r] = [status |-> StatusOfBalance(paid), paid |-> paid]]
      /\ payments' = [payments EXCEPT ![p].cancelled = TRUE]
      /\ LivePaymentsOn(r) # {}
  BY DEF UndoCollection
<1>2. /\ payments \in Seq(Payments) /\ \A q \in DOMAIN payments : payments[q] \in Payments
      /\ rows \in [RowNumbers -> Rows]
  BY DEF IInv, TypeOK
<1>3. p \in DOMAIN payments /\ Live(p) /\ payments[p].row = r
  <2>1. Len(payments) \in Nat /\ DOMAIN payments = 1..Len(payments)
    BY <1>2, LenProperties
  <2>2. LivePaymentsOn(r) \in SUBSET (1..Len(payments))
    BY <2>1 DEF LivePaymentsOn
  <2>3. p \in LivePaymentsOn(r)
    BY <1>1, <2>1, <2>2, LatestIsOne
  <2>4. QED
    BY <2>3 DEF LivePaymentsOn
<1> HIDE DEF p
<1>4. /\ payments' \in Seq(Payments)
      /\ DOMAIN payments' = DOMAIN payments
      /\ \A q \in DOMAIN payments : payments'[q].amount = payments[q].amount
      /\ \A q \in DOMAIN payments : payments'[q].row = payments[q].row
      /\ \A q \in DOMAIN payments \ {p} : payments'[q].cancelled = payments[q].cancelled
      /\ payments'[p].cancelled
  <2>1. [payments[p] EXCEPT !.cancelled = TRUE] \in Payments
    BY <1>2, <1>3 DEF Payments
  <2>2. payments' = [payments EXCEPT ![p] = [payments[p] EXCEPT !.cancelled = TRUE]]
    BY <1>1
  <2>3. payments' \in Seq(Payments) /\ DOMAIN payments' = DOMAIN payments
    BY <1>2, <1>3, <2>1, <2>2
  <2>4. QED
    BY <1>2, <1>3, <2>2, <2>3 DEF Payments
<1>5. Continues(payments, payments')
  BY <1>4 DEF Continues
<1> SUFFICES ASSUME NEW s \in RowNumbers
             PROVE  rows'[s].paid = PaidIn(payments', s)
  BY DEF PaidIsLivePayments, SumOver, PaidIn, AmountsIn, LivePaymentsOn, LiveIn, Live
<1>6. rows[s].paid = PaidIn(payments, s)
  BY PaidIsSum
<1>7. CASE s = r
  <2>1. p \in LiveIn(payments, s) /\ LiveIn(payments', s) = LiveIn(payments, s) \ {p}
    BY <1>3, <1>4, <1>7 DEF LiveIn, Live
  <2>2. /\ PaidIn(payments', s) = PaidIn(payments, s) - payments[p].amount
        /\ PaidIn(payments', s) \in Nat /\ PaidIn(payments, s) \in Nat
        /\ payments[p].amount \in Nat
    BY <1>2, <1>5, <2>1, PaidWithout
  <2>3. paid = PaidIn(payments', s)
    BY <1>6, <1>7, <2>2 DEF PaidAfterUndo
  <2>4. QED
    BY <1>1, <1>2, <1>7, <2>3
<1>8. CASE s # r
  <2>1. LiveIn(payments', s) = LiveIn(payments, s)
    BY <1>3, <1>4, <1>8 DEF LiveIn
  <2>2. PaidIn(payments', s) = PaidIn(payments, s)
    BY <1>2, <1>5, <2>1, PaidTheSame
  <2>3. QED
    BY <1>1, <1>2, <1>6, <1>8, <2>2
<1>9. QED
  BY <1>7, <1>8

LEMMA ConfirmedPaid ==
    ASSUME IInv, PaidIsLivePayments, NEW p \in DOMAIN payments, ConfirmPayment(p)
    PROVE  PaidIsLivePayments'
<1>1. payments' = [payments EXCEPT ![p].status = "CONFIRMED"] /\ UNCHANGED rows
  BY DEF ConfirmPayment
<1>2. payments \in Seq(Payments) /\ \A q \in DOMAIN payments : payments[q] \in Payments
  BY DEF IInv, TypeOK
<1>3. /\ payments' \in Seq(Payments)
      /\ DOMAIN payments' = DOMAIN payments
      /\ \A q \in DOMAIN payments : /\ payments'[q].amount = payments[q].amount
                                    /\ payments'[q].row = payments[q].row
                                    /\ payments'[q].cancelled = payments[q].cancelled
  <2>1. [payments[p] EXCEPT !.status = "CONFIRMED"] \in Payments
    BY <1>2 DEF Payments, CollectionStatuses
  <2>2. payments' = [payments EXCEPT ![p] = [payments[p] EXCEPT !.status = "CONFIRMED"]]
    BY <1>1
  <2>3. payments' \in Seq(Payments) /\ DOMAIN payments' = DOMAIN payments
    BY <1>2, <2>1, <2>2
  <2>4. QED
    BY <1>2, <2>2, <2>3 DEF Payments
<1> SUFFICES ASSUME NEW s \in RowNumbers
             PROVE  rows'[s].paid = PaidIn(payments', s)
  BY DEF PaidIsLivePayments, SumOver, PaidIn, AmountsIn, LivePaymentsOn, LiveIn, Live
<1>4. Continues(payments, payments') /\ LiveIn(payments', s) = LiveIn(payments, s)
  BY <1>3 DEF Continues, LiveIn
<1>5. PaidIn(payments', s) = PaidIn(payments, s)
  BY <1>2, <1>4, PaidTheSame
<1>6. QED
  BY <1>1, <1>5, PaidIsSum

LEMMA PaidKept ==
    ASSUME IInv, PaidIsLivePayments, UNCHANGED payments,
           \A r \in RowNumbers : rows'[r].paid = rows[r].paid
    PROVE  PaidIsLivePayments'
BY DEF PaidIsLivePayments, SumOver, LivePaymentsOn, Live

(***************************************************************************)
(* An installment's paid_amount is what its live payments add up to, for   *)
(* any number of installments, requests and payments: the increments of    *)
(* collectPayment and recordPayment are made in the transaction that       *)
(* records the payment, and undoCollection takes back what it cancels.     *)
(***************************************************************************)
THEOREM PaidIsTheSumOfPayments == Spec => []PaidIsLivePayments
<1>1. Init => PaidIsLivePayments
  <2> SUFFICES ASSUME Init, NEW r \in RowNumbers
               PROVE  rows[r].paid = SumOver(LivePaymentsOn(r))
    BY DEF PaidIsLivePayments
  <2>1. LivePaymentsOn(r) = {} /\ rows[r].paid = 0
    BY DEF Init, LivePaymentsOn
  <2>2. QED
    BY <2>1, SumOfNothing DEF SumOver
<1>2. ASSUME IInv, PaidIsLivePayments, [Next]_vars
      PROVE  PaidIsLivePayments'
  <2>1. CASE UNCHANGED vars
    BY <1>2, <2>1, PaidKept DEF vars
  <2>2. ASSUME NEW t \in Tries,
               CollectLookup(t) \/ CollectRead(t) \/ CollectRefused(t) \/ RecordRead(t)
        PROVE  PaidIsLivePayments'
    <3>1. UNCHANGED <<rows, payments>>
      BY <2>2 DEF CollectLookup, CollectRead, CollectRefused, RecordRead, OnlyTries
    <3>2. QED
      BY <1>2, <3>1, PaidKept
  <2>3. ASSUME NEW t \in Tries, CollectSettle(t) \/ RecordCommit(t) PROVE PaidIsLivePayments'
    BY <1>2, <2>3, SettledPaid, RecordedPaid
  <2>4. ASSUME NEW p \in DOMAIN payments, ConfirmPayment(p) PROVE PaidIsLivePayments'
    BY <1>2, <2>4, ConfirmedPaid
  <2>5. ASSUME NEW r \in RowNumbers, UndoCollection(r) PROVE PaidIsLivePayments'
    BY <1>2, <2>5, UndonePaid
  <2>6. ASSUME NEW i \in DOMAIN ledger, Reconcile(i) PROVE PaidIsLivePayments'
    BY <1>2, <2>6, PaidKept DEF Reconcile
  <2>7. CASE CloseLoan \/ ReopenLoan
    BY <1>2, <2>7, PaidKept DEF CloseLoan, ReopenLoan
  <2>8. CASE WaiveRows \/ RestoreRows
    <3>1. rows \in [RowNumbers -> Rows]
      BY <1>2 DEF IInv, TypeOK
    <3>2. UNCHANGED payments /\ \A r \in RowNumbers : rows'[r].paid = rows[r].paid
      BY <2>8, <3>1 DEF WaiveRows, RestoreRows, Rows
    <3>3. QED
      BY <1>2, <3>2, PaidKept
  <2>9. QED
    BY <1>2, <2>1, <2>2, <2>3, <2>4, <2>5, <2>6, <2>7, <2>8 DEF Next
<1>3. QED
  BY <1>1, <1>2, CollectionsInvariant, PTL DEF Spec

-----------------------------------------------------------------------------
(* What the settlement leaves of the amount. *)

LEMMA PendingAdds ==
    ASSUME TypeOK
    PROVE  /\ PendingBefore(1) = 0
           /\ \A k \in RowNumbers :
                 /\ PendingBefore(k) \in Int /\ PendingBefore(k + 1) \in Int
                 /\ PendingBefore(k + 1) = PendingBefore(k) + IF Open(k) THEN Balance(k) ELSE 0
<1> DEFINE owed == [q \in RowNumbers |-> Balance(q)]
           S(k) == {q \in 1..k - 1 : Open(q)}
<1>1. \A k : PendingBefore(k) = SumFunctionOnSet(owed, S(k))
  BY DEF PendingBefore
<1>2. PendingBefore(1) = 0
  <2>1. S(1) = {}
    OBVIOUS
  <2>2. QED
    BY <1>1, <2>1, SumOfNothing
<1>3. ASSUME NEW k \in RowNumbers
      PROVE  /\ PendingBefore(k) \in Int /\ PendingBefore(k + 1) \in Int
             /\ PendingBefore(k + 1) = PendingBefore(k) + IF Open(k) THEN Balance(k) ELSE 0
  <2>1. k \in Int /\ k >= 1 /\ k <= NumRows /\ NumRows \in Nat
    BY CollectionsAssumption DEF RowNumbers
  <2>2. S(k) \in SUBSET RowNumbers /\ k \notin S(k)
    BY <2>1 DEF RowNumbers
  <2>3. S(k + 1) = IF Open(k) THEN S(k) \cup {k} ELSE S(k)
    BY <2>1
  <2>4. \A q \in RowNumbers : owed[q] = Balance(q) /\ owed[q] \in Int
    BY RowTyped
  <2> HIDE DEF owed
  <2>5. IsFiniteSet(S(k))
    <3>1. IsFiniteSet(RowNumbers)
      BY CollectionsAssumption, FS_Interval DEF RowNumbers
    <3>2. QED
      BY <2>2, <3>1, FS_Subset
  <2>6. IntegersOn(owed, S(k))
    BY <2>2, <2>4, <2>5 DEF IntegersOn
  <2>7. SumFunctionOnSet(owed, S(k)) \in Int
    BY <2>6, SumIsInteger
  <2>8. Balance(k) \in Int /\ owed[k] = Balance(k)
    BY <2>4
  <2>9. CASE Open(k)
    <3>1. S(k + 1) = S(k) \cup {k}
      BY <2>3, <2>9
    <3> HIDE DEF S
    <3>2. SumFunctionOnSet(owed, S(k) \cup {k}) = SumFunctionOnSet(owed, S(k)) + owed[k]
      BY <2>2, <2>6, <2>8, SumWith
    <3>3. /\ PendingBefore(k) = SumFunctionOnSet(owed, S(k))
          /\ PendingBefore(k + 1) = SumFunctionOnSet(owed, S(k) \cup {k})
      BY <1>1, <3>1
    <3>4. QED
      BY <2>7, <2>8, <2>9, <3>2, <3>3
  <2>10. CASE ~Open(k)
    <3>1. S(k + 1) = S(k)
      BY <2>3, <2>10
    <3> HIDE DEF S
    <3>2. /\ PendingBefore(k) = SumFunctionOnSet(owed, S(k))
          /\ PendingBefore(k + 1) = SumFunctionOnSet(owed, S(k))
      BY <1>1, <3>1
    <3>3. QED
      BY <2>7, <2>10, <3>2
  <2>11. QED
    BY <2>9, <2>10
<1>4. QED
  BY <1>2, <1>3

(* Up to the requested installment, either nothing remains of the amount   *)
(* or every open installment has been paid in full.                        *)
LEMMA LeftOrCleared ==
    ASSUME TypeOK, StatusTellsBalance, NEW t \in Tries,
           NEW left \in [0..NumRows -> 0..MaxAmount], Settles(t, left),
           NEW k \in 0..NumRows, k < Requested(t)
    PROVE  left[k] = 0 \/ left[k] = Amount(t) - PendingBefore(k + 1)
<1> DEFINE Cleared(j) == left[j] = 0 \/ left[j] = Amount(t) - PendingBefore(j + 1)
<1> DEFINE wrong == {j \in 0..k : ~Cleared(j)}
<1>1. /\ NumRows \in Nat /\ MaxAmount \in Nat /\ Requested(t) \in RowNumbers
      /\ Amount(t) \in Nat /\ left[0] = Amount(t)
  BY AskTyped, CollectionsAssumption DEF Settles
<1>2. SUFFICES ASSUME wrong # {} PROVE FALSE
  <2>1. k \in 0..k
    BY <1>1
  <2>2. QED
    BY <1>2, <2>1
<1>3. PICK j \in wrong : \A i \in wrong : j <= i
  <2>1. wrong \in SUBSET Nat
    BY <1>1
  <2> HIDE DEF wrong
  <2>2. QED
    BY <1>2, <2>1, LeastElement
<1>4. j # 0
  <2>1. Cleared(0)
    BY <1>1, PendingAdds
  <2>2. QED
    BY <1>3, <2>1
<1>5. j \in RowNumbers /\ j - 1 \in 0..k /\ j <= Requested(t)
  BY <1>1, <1>3, <1>4 DEF RowNumbers
<1>6. Cleared(j - 1)
  BY <1>1, <1>3, <1>5
<1>7. /\ PendingBefore(j) \in Int /\ PendingBefore(j + 1) \in Int
      /\ PendingBefore(j + 1) = PendingBefore(j) + IF Open(j) THEN Balance(j) ELSE 0
  BY <1>5, PendingAdds
<1>8. left[j - 1] \in 0..MaxAmount /\ left[j] \in 0..left[j - 1] /\ Balance(j) \in Int
  BY <1>5, SettlesRow, RowTyped
<1>9. left[j] = IF Open(j) THEN left[j - 1] - Lesser(left[j - 1], Balance(j)) ELSE left[j - 1]
  BY <1>5 DEF Settles
<1>10. left[j - 1] = 0 \/ left[j - 1] = Amount(t) - PendingBefore(j)
  <2>1. (j - 1) + 1 = j
    BY <1>5 DEF RowNumbers
  <2>2. QED
    BY <1>6, <2>1
<1>11. Cleared(j)
  <2>1. CASE left[j - 1] = 0
    BY <1>1, <1>8, <2>1
  <2>2. CASE left[j - 1] # 0 /\ Open(j)
    BY <1>1, <1>7, <1>8, <1>9, <1>10, <2>2, SMTT(30) DEF Lesser
  <2>3. CASE left[j - 1] # 0 /\ ~Open(j)
    BY <1>1, <1>7, <1>8, <1>9, <1>10, <2>3
  <2>4. QED
    BY <2>1, <2>2, <2>3
<1>12. QED
  BY <1>3, <1>11

(* Nothing remains of an amount that is owed, when the requested           *)
(* installment still is as it was read.                                    *)
LEMMA NothingLeft ==
    ASSUME TypeOK, StatusTellsBalance, NEW t \in Tries,
           NEW left \in [0..NumRows -> 0..MaxAmount], Settles(t, left),
           Amount(t) <= TotalDue(t), Open(Requested(t)),
           rows[Requested(t)].paid = tries[t].seen
    PROVE  left[NumRows] = 0
<1> DEFINE r == Requested(t)
<1>1. /\ r \in RowNumbers /\ r - 1 \in 0..NumRows /\ r \in 0..NumRows /\ r - 1 < r
      /\ NumRows \in 0..NumRows /\ r <= NumRows /\ MaxAmount \in Nat
      /\ Amount(t) \in Nat /\ Total \in Nat
  BY AskTyped, CollectionsAssumption DEF RowNumbers
<1>2. left[r - 1] = 0 \/ left[r - 1] = Amount(t) - PendingBefore(r)
  <2>1. left[r - 1] = 0 \/ left[r - 1] = Amount(t) - PendingBefore((r - 1) + 1)
    BY <1>1, LeftOrCleared
  <2>2. (r - 1) + 1 = r
    BY <1>1
  <2>3. QED
    BY <2>1, <2>2
<1>3. /\ left[r - 1] \in 0..MaxAmount /\ left[r] \in 0..left[r - 1]
      /\ Balance(r) \in Int /\ Balance(r) = Total - tries[t].seen /\ tries[t].seen \in Int
      /\ PendingBefore(r) \in Int
  <2>1. left[r - 1] \in 0..MaxAmount /\ left[r] \in 0..left[r - 1]
    BY <1>1, SettlesRow
  <2>2. Balance(r) \in Int /\ Balance(r) = Total - tries[t].seen
    BY <1>1, RowTyped
  <2>3. tries[t].seen \in Int
    BY DEF TypeOK, TryRecords
  <2>4. PendingBefore(r) \in Int
    BY <1>1, PendingAdds
  <2>5. QED
    BY <2>1, <2>2, <2>3, <2>4
<1>4. left[r] = left[r - 1] - Lesser(left[r - 1], Balance(r))
  <2>1. r <= Requested(t) /\ Open(r)
    BY <1>1 DEF RowNumbers
  <2>2. QED
    BY <1>1, <2>1 DEF Settles
<1>5. Amount(t) - PendingBefore(r) <= Balance(r)
  BY <1>1, <1>3, SMTT(30) DEF TotalDue
<1>6. left[r] = 0
  BY <1>1, <1>2, <1>3, <1>4, <1>5, SMTT(30) DEF Lesser
<1>7. left[NumRows] <= left[r] /\ left[NumRows] \in 0..MaxAmount
  BY <1>1, LeftDescends
<1>8. QED
  BY <1>1, <1>6, <1>7

LEMMA OnlySettlementsFinish ==
    ASSUME TypeOK, [Next]_vars, NEW t \in Tries, Collects(t),
           tries[t].at = "read", tries'[t].at = "done"
    PROVE  CollectSettle(t)
<1>1. tries \in [Tries -> TryRecords]
  BY DEF TypeOK
<1>2. tries' # tries
  OBVIOUS
<1>3. ASSUME NEW s \in Tries, s # t, tries'[t] # tries[t] PROVE
          ~(\/ CollectLookup(s) \/ CollectRead(s) \/ CollectSettle(s) \/ CollectRefused(s)
            \/ RecordRead(s) \/ RecordCommit(s))
  <2>1. ASSUME NEW at, Step(s, at) PROVE FALSE
    BY <1>1, <1>3, <2>1 DEF Step
  <2>2. ASSUME CollectSettle(s) PROVE FALSE
    BY <1>1, <1>3, <2>2 DEF CollectSettle, Settle
  <2>3. ASSUME RecordCommit(s) PROVE FALSE
    BY <1>1, <1>3, <2>3 DEF RecordCommit
  <2>4. ASSUME CollectRead(s) PROVE FALSE
    BY <1>1, <1>3, <2>1, <2>4 DEF CollectRead
  <2>5. QED
    BY <2>1, <2>2, <2>3, <2>4 DEF CollectLookup, CollectRefused, RecordRead
<1>4. ~CollectLookup(t) /\ ~CollectRead(t) /\ ~RecordRead(t) /\ ~RecordCommit(t)
  BY DEF CollectLookup, CollectRead, RecordRead, RecordCommit
<1>5. ASSUME CollectRefused(t) PROVE FALSE
  <2>1. Step(t, "refused")
    BY <1>5 DEF CollectRefused
  <2>2. QED
    BY <1>1, <2>1 DEF Step
<1>6. QED
  BY <1>2, <1>3, <1>4, <1>5
     DEF Next, vars, ConfirmPayment, UndoCollection, Reconcile, CloseLoan, ReopenLoan,
         WaiveRows, RestoreRows, OfficeStep

(***************************************************************************)
(* A collection that succeeds has put the whole amount on installments     *)
(* when the requested one is as it was read: the amount is no more than    *)
(* what the open installments owe up to it, and the loop leaves none of    *)
(* them open while money remains.                                          *)
(***************************************************************************)
THEOREM WholeAmountIsApplied == Spec => WholeAmountUnlessStale
<1>1. ASSUME IInv, [Next]_vars
      PROVE  \A t \in Tries :
                (/\ Collects(t)
                 /\ tries[t].at = "read" /\ tries'[t].at = "done"
                 /\ Open(Requested(t)) /\ rows[Requested(t)].paid = tries[t].seen)
                => tries'[t].applied = Amount(t)
  <2> SUFFICES ASSUME NEW t \in Tries, Collects(t),
                      tries[t].at = "read", tries'[t].at = "done",
                      Open(Requested(t)), rows[Requested(t)].paid = tries[t].seen
               PROVE  tries'[t].applied = Amount(t)
    OBVIOUS
  <2>1. TypeOK /\ StatusTellsBalance /\ Amount(t) \in Int
    BY <1>1, AskTyped DEF IInv
  <2>2. CollectSettle(t)
    BY <1>1, <2>1, OnlySettlementsFinish
  <2>3. PICK left \in [0..NumRows -> 0..MaxAmount] :
            /\ Settles(t, left)
            /\ tries' = [tries EXCEPT ![t].at = "done", ![t].applied = left[0] - left[NumRows]]
    BY <1>1, <2>2, SettlementRecorded
  <2>4. Amount(t) <= TotalDue(t)
    BY <2>2 DEF CollectSettle
  <2>5. left[NumRows] = 0 /\ left[0] = Amount(t)
    BY <2>1, <2>3, <2>4, NothingLeft DEF Settles
  <2>6. tries'[t].applied = left[0] - left[NumRows]
    BY <2>1, <2>3 DEF TypeOK, TryRecords
  <2>7. QED
    BY <2>1, <2>5, <2>6
<1>2. QED
  BY <1>1, CollectionsInvariant, PTL DEF Spec, WholeAmountUnlessStale


-----------------------------------------------------------------------------
(* The handlers keep the ledger's contract. *)

(* A transaction that only appends postings posts all of them.             *)
LEMMA AppendingPosts ==
    ASSUME TypeOK, NEW new \in Seq(LedgerRows), ledger' = ledger \o new,
           \A k \in 1..Len(new) : new[k].status = "POSTED" /\ ~new[k].reversal
    PROVE  Books!Next
<1> DEFINE added == DOMAIN ledger' \ DOMAIN ledger
<1>1. PICK n \in Nat, m \in Nat :
          /\ n = Len(ledger) /\ m = Len(new)
          /\ DOMAIN ledger = 1..n /\ DOMAIN ledger' = 1..(n + m)
          /\ \A i \in 1..n : ledger'[i] = ledger[i]
          /\ \A k \in 1..m : ledger'[n + k] = new[k]
  <2>1. ledger \in Seq(LedgerRows) /\ Len(ledger) \in Nat /\ Len(new) \in Nat
    BY LenProperties DEF TypeOK
  <2>2. QED
    BY <2>1, LedgerAppended
<1>2. \A i \in added : ledger'[i].status = "POSTED" /\ ~ledger'[i].reversal
  <2>1. TAKE i \in added
  <2>2. i - n \in 1..m /\ i = n + (i - n)
    BY <1>1
  <2>3. ledger'[i] = new[i - n]
    BY <1>1, <2>2
  <2>4. QED
    BY <1>1, <2>2, <2>3
<1>3. DOMAIN ledger' = DOMAIN ledger \cup added /\ \A i \in DOMAIN ledger : ledger'[i] = ledger[i]
  BY <1>1
<1> HIDE DEF added
<1>4. Posted' = Posted \cup added /\ Counted' = Counted \cup added
  BY <1>2, <1>3 DEF Posted, Counted, Counts
<1>5. added \cap Posted = {}
  BY DEF added, Posted
<1>6. Posted' \ Posted = added
  BY <1>4, <1>5
<1>7. QED
  BY <1>4, <1>5, <1>6 DEF Books!Next, Books!Post

(* A settlement posts one row for each of its payments.                    *)
LEMMA SettlementPosts ==
    ASSUME IInv, NEW t \in Tries, CollectSettle(t)
    PROVE  Books!Next
<1>1. PICK left \in [0..NumRows -> 0..MaxAmount] :
          /\ Settles(t, left)
          /\ \E settled \in [1..Cardinality(PaidRows(left)) -> PaidRows(left)] :
                Settle(t, left, settled)
  BY DEF CollectSettle
<1>2. PICK n \in Nat : \E settled \in [1..n -> PaidRows(left)] : Settle(t, left, settled)
  BY <1>1, PaidRowsFinite
<1>3. PICK settled \in [1..n -> PaidRows(left)] : Settle(t, left, settled)
  BY <1>2
<1> DEFINE new == [i \in 1..n |-> Posting(Len(payments) + i, Applied(left, settled[i]))]
<1>4. ledger' = ledger \o new
  <2>1. DOMAIN settled = 1..n
    OBVIOUS
  <2>2. QED
    BY <1>3, <2>1 DEF Settle
<1>5. ASSUME NEW i \in 1..n
      PROVE  new[i] \in LedgerRows /\ new[i].status = "POSTED" /\ ~new[i].reversal
  <2>1. settled[i] \in PaidRows(left) /\ TypeOK /\ StatusTellsBalance
    BY DEF IInv
  <2>2. Applied(left, settled[i]) \in Int
    BY <1>1, <2>1, NewPaymentTyped
  <2>3. Len(payments) + i \in Nat \ {0}
    BY <2>1, LenProperties DEF TypeOK
  <2>4. QED
    BY <2>2, <2>3, PostingTyped
<1>6. new \in Seq(LedgerRows) /\ Len(new) = n
  <2>1. new \in [1..n -> LedgerRows]
    BY <1>5
  <2>2. QED
    BY <2>1
<1> HIDE DEF new
<1>7. QED
  BY <1>4, <1>5, <1>6, AppendingPosts DEF IInv

(* An undo reverses the posting it finds, which counts; its negated row    *)
(* never does.                                                             *)
LEMMA UndoReverses ==
    ASSUME TypeOK, NEW p, NEW i \in Linked(p), ledger' = Reversed(i)
    PROVE  Books!Next
<1> DEFINE first == [ledger EXCEPT ![i].status = "REVERSED"]
           negated == [pay |-> ledger[i].pay, amount |-> -ledger[i].amount,
                       status |-> "POSTED", reversal |-> TRUE]
<1>1. /\ ledger \in Seq(LedgerRows) /\ i \in DOMAIN ledger /\ ledger[i] \in LedgerRows
      /\ ledger[i].status = "POSTED" /\ ~ledger[i].reversal
  BY DEF TypeOK, Linked
<1>2. /\ first \in Seq(LedgerRows) /\ Len(first) = Len(ledger) /\ Len(ledger) \in Nat
      /\ \A j \in DOMAIN ledger : first[j] = IF j = i THEN [ledger[i] EXCEPT !.status = "REVERSED"]
                                             ELSE ledger[j]
  <2>1. [ledger[i] EXCEPT !.status = "REVERSED"] \in LedgerRows
    BY <1>1 DEF LedgerRows
  <2>2. first = [ledger EXCEPT ![i] = [ledger[i] EXCEPT !.status = "REVERSED"]]
    OBVIOUS
  <2> HIDE DEF first
  <2>3. QED
    BY <1>1, <2>1, <2>2
<1>3. negated \in LedgerRows /\ negated.reversal
  <2>1. ledger[i].pay \in Nat \ {0} /\ -ledger[i].amount \in Int
    BY <1>1 DEF LedgerRows
  <2>2. QED
    BY <2>1 DEF LedgerRows
<1>4. ledger' = Append(first, negated)
  BY DEF Reversed
<1> HIDE DEF first, negated
<1>5. PICK q \in Nat :
          /\ DOMAIN ledger' = DOMAIN ledger \cup {q} /\ q \notin DOMAIN ledger
          /\ ledger'[q] = negated /\ \A j \in DOMAIN ledger : ledger'[j] = first[j]
  <2>1. DOMAIN ledger = 1..Len(ledger) /\ DOMAIN first = 1..Len(ledger)
    BY <1>1, <1>2, LenProperties
  <2>2. /\ ledger' \in Seq(LedgerRows) /\ Len(ledger') = Len(ledger) + 1
        /\ \A j \in 1..Len(ledger) : ledger'[j] = first[j]
        /\ ledger'[Len(ledger) + 1] = negated
    BY <1>2, <1>3, <1>4, AppendProperties
  <2>3. DOMAIN ledger' = 1..(Len(ledger) + 1)
    BY <2>2, LenProperties
  <2>4. QED
    BY <1>2, <2>1, <2>2, <2>3
<1>6. /\ \A j \in DOMAIN ledger : ledger'[j].reversal = ledger[j].reversal
      /\ \A j \in DOMAIN ledger : j # i => ledger'[j] = ledger[j]
      /\ ledger'[i].status = "REVERSED"
  <2> DEFINE flipped == [ledger[i] EXCEPT !.status = "REVERSED"]
  <2>1. flipped.status = "REVERSED" /\ flipped.reversal = ledger[i].reversal
    BY <1>1 DEF LedgerRows
  <2>2. \A j \in DOMAIN ledger : ledger'[j] = IF j = i THEN flipped ELSE ledger[j]
    BY <1>2, <1>5
  <2> HIDE DEF flipped
  <2>3. QED
    BY <1>1, <2>1, <2>2
<1>7. Posted' = Posted /\ Counted' = Counted \ {i} /\ i \in Counted
  <2>1. ledger'[q].reversal
    BY <1>3, <1>5
  <2>2. DOMAIN ledger' = DOMAIN ledger \cup {q} /\ i \in DOMAIN ledger
    BY <1>1, <1>5
  <2>3. Posted' = Posted
    BY <1>6, <2>1, <2>2 DEF Posted
  <2>4. Counted' = Counted \ {i}
    BY <1>6, <2>1, <2>2 DEF Counted, Counts
  <2>5. i \in Counted
    BY <1>1 DEF Counted, Counts
  <2>6. QED
    BY <2>3, <2>4, <2>5
<1>8. QED
  BY <1>7 DEF Books!Next, Books!Reverse

(* A reconciled row counts as before: only a POSTED one is reconciled.     *)
LEMMA ReconciledCounts ==
    ASSUME TypeOK, NEW i \in DOMAIN ledger, Reconcile(i)
    PROVE  UNCHANGED <<Posted, Counted>>
<1>1. /\ ledger[i].status = "POSTED" /\ ledger[i] \in LedgerRows
      /\ ledger' = [ledger EXCEPT ![i] = [ledger[i] EXCEPT !.status = "RECONCILED"]]
  BY DEF TypeOK, Reconcile
<1>2. /\ DOMAIN ledger' = DOMAIN ledger
      /\ \A j \in DOMAIN ledger : j # i => ledger'[j] = ledger[j]
      /\ ledger'[i] = [ledger[i] EXCEPT !.status = "RECONCILED"]
  BY <1>1
<1>3. ledger'[i].status = "RECONCILED" /\ ledger'[i].reversal = ledger[i].reversal
  BY <1>1, <1>2 DEF LedgerRows
<1>4. QED
  BY <1>1, <1>2, <1>3 DEF Posted, Counted, Counts

(* Every step is one of the contract's, or changes nothing it is about.    *)
LEMMA StepsKeepContract ==
    ASSUME IInv, [Next]_vars
    PROVE  Books!Next \/ UNCHANGED <<Posted, Counted>>
<1>1. ASSUME UNCHANGED ledger PROVE UNCHANGED <<Posted, Counted>>
  BY <1>1 DEF Posted, Counted, Counts
<1>2. ASSUME NEW t \in Tries, RecordCommit(t) PROVE Books!Next
  <2> DEFINE post == Posting(Len(payments) + 1, Amount(t))
  <2>1. ledger' = Append(ledger, post)
    BY <1>2 DEF RecordCommit
  <2>2. Len(payments) + 1 \in Nat \ {0} /\ Amount(t) \in Int
    BY AskTyped, LenProperties, CollectionsAssumption DEF IInv, TypeOK
  <2>3. post \in LedgerRows /\ post.status = "POSTED" /\ ~post.reversal
    BY <2>2, PostingTyped
  <2> HIDE DEF post
  <2>4. ledger' = ledger \o <<post>>
    BY <2>1, <2>3, AppendIsConcat DEF IInv, TypeOK
  <2>5. <<post>> \in Seq(LedgerRows) /\ Len(<<post>>) = 1 /\ \A k \in 1..1 : <<post>>[k] = post
    BY <2>3
  <2>6. QED
    BY <2>3, <2>4, <2>5, AppendingPosts DEF IInv
<1>3. ASSUME NEW r \in RowNumbers, UndoCollection(r)
      PROVE  Books!Next \/ UNCHANGED <<Posted, Counted>>
  <2>1. UNCHANGED ledger \/ \E p \in {Max(LivePaymentsOn(r))} : \E i \in Linked(p) : ledger' = Reversed(i)
    BY <1>3 DEF UndoCollection
  <2>2. QED
    BY <1>1, <2>1, UndoReverses DEF IInv
<1>4. ASSUME NEW t \in Tries,
             CollectLookup(t) \/ CollectRead(t) \/ CollectRefused(t) \/ RecordRead(t)
      PROVE  UNCHANGED ledger
  BY <1>4 DEF CollectLookup, CollectRead, CollectRefused, RecordRead, OnlyTries
<1>5. ASSUME \/ \E p \in DOMAIN payments : ConfirmPayment(p)
             \/ CloseLoan \/ WaiveRows \/ ReopenLoan \/ RestoreRows \/ UNCHANGED vars
      PROVE  UNCHANGED ledger
  BY <1>5 DEF ConfirmPayment, CloseLoan, WaiveRows, ReopenLoan, RestoreRows, vars
<1>6. QED
  BY <1>1, <1>2, <1>3, <1>4, <1>5, SettlementPosts, ReconciledCounts DEF Next, IInv

(***************************************************************************)
(* The collection handlers, the undo and the reconciliation implement the  *)
(* ledger's contract: all that a settlement posts counts from its commit,  *)
(* and stops counting by one undo only.                                    *)
(***************************************************************************)
THEOREM CollectionsKeepContract == Spec => KeepsContract
<1>1. Init => Books!Init
  BY DEF Init, Books!Init, Posted, Counted
<1>2. IInv /\ [Next]_vars => [Books!Next]_<<Posted, Counted>>
  BY StepsKeepContract
<1>3. QED
  BY <1>1, <1>2, CollectionsInvariant, PTL DEF Spec, KeepsContract, Books!Spec
=============================================================================
