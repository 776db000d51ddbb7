-------------------------- MODULE LoanPayments_proofs --------------------------
(***************************************************************************)
(* Proofs about LoanPayments, for any number of requests at once, any      *)
(* length and price of the loan and any number of payments: what an        *)
(* installment shows is what its payments add up to, the schedule keeps    *)
(* its numbers, money clears the oldest debt first, and a removal spares   *)
(* the payments it saw.                                                    *)
(*                                                                         *)
(* Everything rests on one inductive invariant, IInv.  Its heart is Fresh: *)
(* as long as no other request wrote, what a request read is what it would *)
(* read now; and a request that writes nevertheless is counted.            *)
(***************************************************************************)
EXTENDS LoanPayments, SumTheorems, SequenceTheorems, TLAPS

-----------------------------------------------------------------------------
(* The inductive invariant. *)

\* The installments of the contract are all there.
ContractStands == \A n \in 1..Term : Present(n)

\* No gap in the numbers, as long as no write was overtaken.
NoGaps == \A n \in Numbers : Present(n) => \A m \in 1..n : Present(m)
NumbersRunOn == overtaken = 0 => NoGaps

\* A payment names the installment it was recorded on, or none; one it names is there;
\* and its ledger row was reversed exactly if undoCollection cancelled it.
PaymentHolds(pay) ==
    /\ pay.row \in {0, pay.to}
    /\ pay.row # 0 => Present(pay.row)
    /\ pay.book = "POSTED" <=> pay.state \in {"live", "deleted"}
PaymentsHold == \A p \in DOMAIN payments : PaymentHolds(payments[p])

\* What a request under way keeps to, whatever others have written since it read.
RequestHolds(s) ==
    /\ req[s].at = "idle" => req[s] = Idle
    /\ req[s].at = "paying" =>
          /\ req[s].cash > 0
          /\ \A n \in Given(s) : n \notin req[s].gone => Present(n)
    /\ req[s].at = "undoing" =>
          /\ req[s].row \in Numbers
          /\ req[s].status = StatusOf(req[s].left)
          /\ req[s].remove => req[s].row > Term
          /\ req[s].row \notin req[s].gone => Present(req[s].row)
    /\ req[s].at \in {"adding", "deleting"} => req[s].row \in Numbers
    /\ req[s].at = "deleting" => req[s].row > Term
RequestsHold == \A s \in Sessions : RequestHolds(s)

\* What a request has read, as it would read it now.
ReadsNow(s) ==
    /\ req[s].gone = {}
    /\ req[s].at = "paying" =>
          \/ Given(s) = {}
          \/ /\ req[s].row \in Numbers
             /\ req[s].give = [m \in Numbers |-> Allocated(m, req[s].row, req[s].cash)]
    /\ req[s].at = "undoing" =>
          /\ PaymentsOn(req[s].row) # {}
          /\ req[s].pay = LastPayment(req[s].row)
          /\ req[s].left = LeftAfterUndo(req[s].row, req[s].pay)
          /\ req[s].remove => req[s].left = 0 /\ RemovableExtra(req[s].row)
    /\ req[s].at = "adding" => req[s].row = NextNumber
    /\ req[s].at = "deleting" => Removable(req[s].row)
Fresh == \A s \in Sessions : req[s].at # "idle" /\ ~req[s].stale => ReadsNow(s)

IInv ==
    /\ TypeOK /\ ContractStands /\ NumbersRunOn /\ StatusTellsBalance /\ PaymentsHold
    /\ RequestsHold /\ Fresh /\ PaidIsLivePayments

-----------------------------------------------------------------------------
(* What the payments on an installment add up to. *)

AmountsIn(pays) == [p \in DOMAIN pays |-> pays[p].amount]
SumIn(pays, S) == SumFunctionOnSet(AmountsIn(pays), S)
LiveIn(pays, n) == {p \in DOMAIN pays : pays[p].row = n /\ pays[p].state = "live"}
ErasedIn(pays, n) == {p \in DOMAIN pays : pays[p].row = n /\ pays[p].state = "erased"}
\* PaidIsLivePayments, of one installment that shows the amount paid.
Balanced(pays, n, paid) ==
    /\ paid <= SumIn(pays, LiveIn(pays, n))
    /\ ErasedIn(pays, n) = {} => paid = SumIn(pays, LiveIn(pays, n))

\* The same payments, with another state and perhaps without their installment.
SameAmounts(pays, later) ==
    /\ later \in Seq(Payments)
    /\ \A p \in DOMAIN pays : p \in DOMAIN later /\ later[p].amount = pays[p].amount

LEMMA PaidIsBalance ==
    PaidIsLivePayments <=>
        (overtaken = 0 => \A n \in Numbers : Balanced(payments, n, rows[n].paid))
BY DEF PaidIsLivePayments, Balanced, SumOver, SumIn, AmountsIn, LivePaymentsOn, LiveIn,
       Erased, ErasedIn

(* Any payments add up to an amount of money.                              *)
LEMMA PaymentsAddUp ==
    ASSUME NEW pays \in Seq(Payments), NEW S \in SUBSET DOMAIN pays
    PROVE  /\ IsFiniteSet(S)
           /\ IntegersOn(AmountsIn(pays), S)
           /\ \A p \in S : AmountsIn(pays)[p] = pays[p].amount /\ pays[p].amount \in Nat \ {0}
           /\ SumIn(pays, S) \in Nat
<1>1. DOMAIN pays = 1..Len(pays) /\ Len(pays) \in Nat
  OBVIOUS
<1>2. IsFiniteSet(S)
  <2>1. IsFiniteSet(1..Len(pays))
    BY <1>1, FS_Interval
  <2> QED BY <1>1, <2>1, FS_Subset
<1>3. \A p \in S : AmountsIn(pays)[p] = pays[p].amount /\ pays[p].amount \in Nat \ {0}
  <2> SUFFICES ASSUME NEW p \in S PROVE pays[p] \in Payments
    BY DEF AmountsIn, Payments
  <2> QED BY <1>1
<1>4. SumFunctionOnSet(AmountsIn(pays), S) \in Nat
  BY <1>2, <1>3, SumIsNatural
<1> QED BY <1>2, <1>3, <1>4 DEF IntegersOn, SumIn

(* The state of a payment does not change what it counts for.              *)
LEMMA SameSum ==
    ASSUME NEW pays \in Seq(Payments), NEW later, SameAmounts(pays, later),
           NEW S \in SUBSET DOMAIN pays
    PROVE  SumIn(later, S) = SumIn(pays, S)
<1>1. /\ IntegersOn(AmountsIn(pays), S)
      /\ \A p \in S : AmountsIn(pays)[p] = AmountsIn(later)[p]
  BY PaymentsAddUp DEF SameAmounts, AmountsIn
<1> QED BY <1>1, SumOfEquals DEF SumIn

(* An installment whose live payments are the same is still in balance,    *)
(* whatever else is erased.                                                *)
LEMMA BalanceKept ==
    ASSUME NEW pays \in Seq(Payments), NEW later, SameAmounts(pays, later),
           NEW n, NEW paid \in Nat, NEW less \in Nat, Balanced(pays, n, paid),
           LiveIn(later, n) = LiveIn(pays, n), less <= paid,
           ErasedIn(later, n) = {} => ErasedIn(pays, n) = {} /\ less = paid
    PROVE  Balanced(later, n, less)
<1>1. SumIn(later, LiveIn(pays, n)) = SumIn(pays, LiveIn(pays, n))
  BY SameSum, LiveIn(pays, n) \in SUBSET DOMAIN pays DEF LiveIn
<1>2. SumIn(pays, LiveIn(pays, n)) \in Nat
  BY PaymentsAddUp, LiveIn(pays, n) \in SUBSET DOMAIN pays DEF LiveIn
<1> QED BY <1>1, <1>2 DEF Balanced

(* Without one of its live payments it is, less the amount of that one.    *)
LEMMA BalanceWithout ==
    ASSUME NEW pays \in Seq(Payments), NEW later, SameAmounts(pays, later),
           NEW n, NEW paid \in Nat, Balanced(pays, n, paid),
           NEW p \in LiveIn(pays, n), LiveIn(later, n) = LiveIn(pays, n) \ {p},
           ErasedIn(later, n) = {} => ErasedIn(pays, n) = {}
    PROVE  Balanced(later, n, IF paid > pays[p].amount THEN paid - pays[p].amount ELSE 0)
<1> DEFINE L == LiveIn(pays, n)
<1>1. L \in SUBSET DOMAIN pays /\ L \ {p} \in SUBSET DOMAIN pays
  BY DEF LiveIn
<1>2. SumIn(later, L \ {p}) = SumIn(pays, L \ {p})
  BY <1>1, SameSum
<1>3. /\ IntegersOn(AmountsIn(pays), L) /\ SumIn(pays, L) \in Nat
      /\ AmountsIn(pays)[p] = pays[p].amount /\ pays[p].amount \in Nat
      /\ SumIn(pays, L \ {p}) \in Nat
  BY <1>1, PaymentsAddUp
<1>4. SumIn(pays, L \ {p}) = SumIn(pays, L) - pays[p].amount
  <2> HIDE DEF L
  <2>1. SumFunctionOnSet(AmountsIn(pays), L \ {p}) =
            SumFunctionOnSet(AmountsIn(pays), L) - AmountsIn(pays)[p]
    BY <1>3, SumWithout, p \in L DEF L
  <2> QED BY <2>1, <1>3 DEF SumIn
<1> QED BY <1>2, <1>3, <1>4 DEF Balanced

(* With one more live payment it is, plus the amount of that one.          *)
LEMMA BalanceWith ==
    ASSUME NEW pays \in Seq(Payments), NEW later, SameAmounts(pays, later),
           NEW n, NEW paid \in Nat, Balanced(pays, n, paid),
           NEW q \in DOMAIN later, q \notin DOMAIN pays,
           LiveIn(later, n) = LiveIn(pays, n) \cup {q},
           ErasedIn(later, n) = ErasedIn(pays, n)
    PROVE  Balanced(later, n, paid + later[q].amount)
<1> DEFINE L == LiveIn(pays, n)
<1>1. L \in SUBSET DOMAIN pays /\ L \in SUBSET DOMAIN later /\ later \in Seq(Payments)
  BY DEF LiveIn, SameAmounts
<1>2. SumIn(later, L) = SumIn(pays, L)
  BY <1>1, SameSum
<1>3. /\ IntegersOn(AmountsIn(later), L) /\ SumIn(pays, L) \in Nat
      /\ AmountsIn(later)[q] = later[q].amount /\ later[q].amount \in Nat
  <2>1. {q} \in SUBSET DOMAIN later
    OBVIOUS
  <2> QED BY <1>1, <2>1, PaymentsAddUp
<1>4. SumIn(later, L \cup {q}) = SumIn(later, L) + later[q].amount
  <2> HIDE DEF L
  <2>1. SumFunctionOnSet(AmountsIn(later), L \cup {q}) =
            SumFunctionOnSet(AmountsIn(later), L) + AmountsIn(later)[q]
    BY <1>1, <1>3, SumWith, q \notin L
  <2> QED BY <2>1, <1>3 DEF SumIn
<1> QED BY <1>2, <1>3, <1>4 DEF Balanced

(* One that no payment names shows nothing.                                *)
LEMMA BalanceOfNothing ==
    ASSUME NEW pays \in Seq(Payments), NEW n, LiveIn(pays, n) = {}
    PROVE  Balanced(pays, n, 0)
BY SumOfNothing DEF Balanced, SumIn

-----------------------------------------------------------------------------
(* The operators the handlers read with. *)

LEMMA NumbersAre == Numbers \in SUBSET Nat /\ IsFiniteSet(Numbers) /\ 0 \notin Numbers
BY LoanPaymentsAssumption, FS_Interval DEF Numbers

(* The last number is that of an installment there is, and none is later.  *)
LEMMA LastIsLast ==
    ASSUME TypeOK, ContractStands
    PROVE  /\ LastNumber \in Numbers /\ Present(LastNumber)
           /\ \A m \in Numbers : Present(m) => m <= LastNumber
<1> DEFINE S == {n \in Numbers : Present(n)}
<1>1. S \in SUBSET Int /\ IsFiniteSet(S)
  <2>1. S \in SUBSET Numbers
    OBVIOUS
  <2> HIDE DEF S
  <2>2. IsFiniteSet(S)
    BY <2>1, NumbersAre, FS_Subset
  <2> QED BY <2>1, <2>2, NumbersAre
<1>2. 1 \in S
  BY LoanPaymentsAssumption DEF ContractStands, Numbers
<1>3. Max(S) \in S /\ \A m \in S : m <= Max(S)
  <2> HIDE DEF S
  <2> QED BY <1>1, <1>2, GreatestElement
<1> QED BY <1>3 DEF LastNumber

(* The latest of some payments is one of them.                             *)
LEMMA LatestIsOne ==
    ASSUME TypeOK, NEW S \in SUBSET DOMAIN payments, S # {}
    PROVE  Max(S) \in S
<1>1. IsFiniteSet(S)
  BY PaymentsAddUp DEF TypeOK
<1>2. S \in SUBSET Int
  BY DEF TypeOK
<1> QED BY <1>1, <1>2, GreatestElement

LEMMA StatusOfType == ASSUME NEW paid \in Nat PROVE StatusOf(paid) \in Unpaid \cup {"PAID"}
BY DEF StatusOf, Unpaid

LEMMA LeftIsLess ==
    ASSUME TypeOK, NEW n \in Numbers, NEW p \in DOMAIN payments
    PROVE  LeftAfterUndo(n, p) \in Nat /\ LeftAfterUndo(n, p) <= rows[n].paid
<1>1. payments[p].amount \in Nat \ {0}
  <2>1. payments[p] \in Payments
    BY DEF TypeOK
  <2> QED BY <2>1 DEF Payments
<1>2. rows[n].paid \in Nat
  BY DEF TypeOK, Rows
<1> QED BY <1>1, <1>2 DEF LeftAfterUndo

(* Money goes to installments the payment takes, and to no other.          *)
LEMMA AllocatedIsTaken ==
    ASSUME TypeOK, NEW n \in Numbers, NEW clicked \in Numbers, NEW amount
    PROVE  /\ Allocated(n, clicked, amount) \in Nat
           /\ Allocated(n, clicked, amount) > 0 =>
                 /\ Takes(n, clicked)
                 /\ OwedBefore(n, clicked) + Dust < amount
                 /\ Owed(n) > 0
<1> DEFINE units == {unit \in 1..Owed(n) : /\ Takes(n, clicked)
                                           /\ OwedBefore(n, clicked) + Dust < amount
                                           /\ OwedBefore(n, clicked) + unit <= amount}
<1>0. Owed(n) \in Int
  BY LoanPaymentsAssumption DEF Owed, TypeOK, Rows
<1>1. IsFiniteSet(units)
  <2>1. IsFiniteSet(1..Owed(n))
    BY <1>0, FS_Interval
  <2> QED BY <2>1, FS_Subset
<1>2. Cardinality(units) \in Nat /\ (Cardinality(units) = 0 <=> units = {})
  <2> HIDE DEF units
  <2> QED BY <1>1, FS_CardinalityType, FS_EmptySet
<1>3. units # {} => /\ Takes(n, clicked) /\ OwedBefore(n, clicked) + Dust < amount /\ Owed(n) > 0
  BY <1>0
<1> QED BY <1>2, <1>3 DEF Allocated

-----------------------------------------------------------------------------
(* What a write does to the requests under way. *)

LEMMA RequestType ==
    ASSUME TypeOK, NEW s \in Sessions
    PROVE  /\ req[s] \in Requests
           /\ req[s].at \in Steps /\ req[s].row \in Numbers \cup {0}
           /\ req[s].give \in [Numbers -> Nat] /\ req[s].cash \in Nat
           /\ req[s].pay \in Nat /\ req[s].left \in Nat
           /\ req[s].status \in Unpaid \cup {"PAID"} /\ req[s].remove \in BOOLEAN
           /\ req[s].stale \in BOOLEAN /\ req[s].gone \in SUBSET Numbers
           /\ req[s].known \in Nat /\ req[s].misled \in BOOLEAN
           /\ Given(s) \in SUBSET Numbers
<1>1. req[s] \in Requests
  BY DEF TypeOK
<1> QED BY <1>1 DEF Requests, Given

LEMMA IdleType == Idle \in Requests
BY LoanPaymentsAssumption DEF Idle, Requests, Steps, Unpaid

\* Another request has written, or a day has passed, while this one was under way: it
\* goes on with all it has read, and may have to do without some installments.
Disturbed(r, u) ==
    /\ u \in Requests
    /\ u.at = r.at /\ u.row = r.row /\ u.give = r.give /\ u.cash = r.cash
    /\ u.pay = r.pay /\ u.left = r.left /\ u.status = r.status /\ u.remove = r.remove
    /\ u.known = r.known /\ u.misled = r.misled
    /\ u.stale = TRUE /\ r.gone \in SUBSET u.gone

LEMMA MarkedStale ==
    ASSUME NEW r \in Requests, NEW u, u = [r EXCEPT !.stale = TRUE]
    PROVE  Disturbed(r, u) /\ u.gone = r.gone
BY DEF Requests, Disturbed

LEMMA StaleRequest ==
    ASSUME NEW r \in Requests, NEW gone \in SUBSET Numbers,
           NEW u, u = [r EXCEPT !.stale = TRUE, !.gone = @ \cup gone]
    PROVE  Disturbed(r, u) /\ u.gone = r.gone \cup gone
<1> DEFINE v == [r EXCEPT !.stale = TRUE]
<1>1. v \in Requests /\ Disturbed(r, v) /\ v.gone = r.gone
  BY MarkedStale DEF Disturbed
<1>2. u = [v EXCEPT !.gone = r.gone \cup gone]
  OBVIOUS
<1> HIDE DEF v
<1> QED BY <1>1, <1>2 DEF Requests, Disturbed

(* A write leaves the other requests where they are, but disturbed.        *)
LEMMA OthersStayAtTheirStep ==
    ASSUME TypeOK, NEW s \in Sessions, NEW gone \in SUBSET Numbers, Written(s, gone),
           NEW t \in Sessions, t # s
    PROVE  IF req[t].at = "idle"
           THEN req'[t] = req[t]
           ELSE Disturbed(req[t], req'[t]) /\ req'[t].gone = req[t].gone \cup gone
<1> DEFINE later == req'[t]
<1>1. req[t] \in Requests
  BY RequestType
<1>2. req[t].at # "idle" => later = [req[t] EXCEPT !.stale = TRUE, !.gone = @ \cup gone]
  BY DEF Written
<1>3. req[t].at = "idle" => later = req[t]
  BY DEF Written
<1> HIDE DEF later
<1>4. ASSUME req[t].at # "idle"
      PROVE  Disturbed(req[t], later) /\ later.gone = req[t].gone \cup gone
  BY <1>1, <1>2, <1>4, StaleRequest
<1>5. IF req[t].at = "idle"
      THEN later = req[t]
      ELSE Disturbed(req[t], later) /\ later.gone = req[t].gone \cup gone
  BY <1>3, <1>4
<1> QED BY <1>5 DEF later

(* Whoever else is under way is stale now, and has noted what is gone.     *)
LEMMA WrittenKeeps ==
    ASSUME TypeOK, RequestsHold, NEW s \in Sessions, NEW gone \in SUBSET Numbers,
           Written(s, gone),
           \A n \in Numbers \ gone : Present(n) => Present(n)'
    PROVE  /\ req' \in [Sessions -> Requests] /\ RequestsHold' /\ Fresh'
           /\ overtaken' \in Nat
           /\ overtaken' = 0 => overtaken = 0 /\ ~req[s].stale
<1>1. req'[s] = Idle
  BY DEF Written
<1>2. ASSUME NEW t \in Sessions
      PROVE  /\ req'[t] \in Requests
             /\ RequestHolds(t)'
             /\ req'[t].at # "idle" => req'[t].stale
  <2>1. CASE t = s
    <3>1. req'[t] = Idle
      BY <1>1, <2>1
    <3> QED BY <3>1, IdleType DEF RequestHolds, Idle
  <2>2. CASE t # s /\ req[t].at = "idle"
    <3>1. req'[t] = req[t] /\ req[t] = Idle
      BY <2>2 DEF Written, RequestsHold, RequestHolds
    <3> QED BY <3>1, IdleType DEF RequestHolds, Idle
  <2>3. CASE t # s /\ req[t].at # "idle"
    <3>1. Disturbed(req[t], req'[t]) /\ req'[t].gone = req[t].gone \cup gone
      BY <2>3, OthersStayAtTheirStep
    <3>2. /\ req'[t].at = req[t].at /\ req'[t].row = req[t].row /\ req'[t].give = req[t].give
          /\ req'[t].cash = req[t].cash /\ req'[t].left = req[t].left
          /\ req'[t].status = req[t].status /\ req'[t].remove = req[t].remove
          /\ req'[t].stale = TRUE /\ req'[t].gone = req[t].gone \cup gone
          /\ req'[t] \in Requests
      BY <3>1 DEF Disturbed
    <3>3. RequestHolds(t)
      BY DEF RequestsHold
    <3>4. Given(t)' = Given(t) /\ Given(t) \in SUBSET Numbers
      BY <3>2 DEF Given
    <3>5. RequestHolds(t)'
      BY <2>3, <3>2, <3>3, <3>4 DEF RequestHolds
    <3> QED BY <3>2, <3>5
  <2> QED BY <2>1, <2>2, <2>3
<1>3. req' \in [Sessions -> Requests]
  <2>1. req' = [t \in Sessions |-> req'[t]]
    BY DEF Written
  <2> QED BY <1>2, <2>1
<1>4. overtaken' = overtaken + (IF req[s].stale THEN 1 ELSE 0) /\ overtaken \in Nat
  BY DEF Written, TypeOK
<1> QED BY <1>2, <1>3, <1>4, RequestType DEF RequestsHold, Fresh

-----------------------------------------------------------------------------
(* Steps that leave the loan alone. *)

(* What is read depends on the loan and the day alone.                     *)
LEMMA SameReads ==
    ASSUME rows' = rows, payments' = payments, today' = today
    PROVE  /\ \A n : Present(n)' = Present(n) /\ PaymentsOn(n)' = PaymentsOn(n)
           /\ \A n : LastPayment(n)' = LastPayment(n)
           /\ \A n, p : LeftAfterUndo(n, p)' = LeftAfterUndo(n, p)
           /\ LastNumber' = LastNumber /\ NextNumber' = NextNumber
           /\ \A n : RemovableExtra(n)' = RemovableExtra(n) /\ Removable(n)' = Removable(n)
           /\ \A n, c, a : Allocated(n, c, a)' = Allocated(n, c, a)
<1>1. \A n : /\ Present(n)' = Present(n) /\ PaymentsOn(n)' = PaymentsOn(n)
             /\ Owed(n)' = Owed(n)
             /\ \A p : LeftAfterUndo(n, p)' = LeftAfterUndo(n, p)
             /\ \A c : Takes(n, c)' = Takes(n, c)
  BY DEF Present, PaymentsOn, Owed, Takes, LeftAfterUndo
<1>2. LastNumber' = LastNumber /\ \A n : LastPayment(n)' = LastPayment(n)
  BY DEF LastNumber, Present, LastPayment, PaymentsOn
<1>3. \A n, c : OwedBefore(n, c)' = OwedBefore(n, c)
  BY DEF OwedBefore, Takes, Owed
<1>4. \A n, c, a : Allocated(n, c, a)' = Allocated(n, c, a)
  BY <1>1, <1>3 DEF Allocated
<1> QED BY <1>1, <1>2, <1>4 DEF NextNumber, RemovableExtra, Removable

(* A read, or a refusal: the loan is as it was, and the other requests too. *)
LEMMA RequestAlone ==
    ASSUME IInv, UNCHANGED <<rows, payments, today, overtaken>>,
           NEW s \in Sessions, NEW r \in Requests, req' = [req EXCEPT ![s] = r],
           RequestHolds(s)', r.at # "idle" /\ ~r.stale => ReadsNow(s)'
    PROVE  IInv'
<1>1. /\ TypeOK /\ ContractStands /\ NumbersRunOn /\ StatusTellsBalance /\ PaymentsHold
      /\ RequestsHold /\ Fresh /\ PaidIsLivePayments
  BY DEF IInv
<1>2. TypeOK'
  BY <1>1 DEF TypeOK
<1>3. ASSUME NEW t \in Sessions, t # s
      PROVE  req'[t] = req[t]
  BY <1>1, <1>3 DEF TypeOK
<1>4. req'[s] = r
  BY <1>1 DEF TypeOK
<1>5. RequestsHold'
  <2> SUFFICES ASSUME NEW t \in Sessions, t # s PROVE RequestHolds(t)'
    BY DEF RequestsHold
  <2>1. RequestHolds(t) /\ req'[t] = req[t] /\ Given(t)' = Given(t)
    BY <1>1, <1>3 DEF RequestsHold, Given
  <2> QED BY <2>1, SameReads DEF RequestHolds
<1>6. Fresh'
  <2> SUFFICES ASSUME NEW t \in Sessions, t # s, req[t].at # "idle", ~req[t].stale
               PROVE  ReadsNow(t)'
    BY <1>3, <1>4 DEF Fresh
  <2>1. ReadsNow(t) /\ req'[t] = req[t] /\ Given(t)' = Given(t)
    BY <1>1, <1>3 DEF Fresh, Given
  <2> QED BY <2>1, SameReads DEF ReadsNow
<1>7. ContractStands' /\ NumbersRunOn' /\ StatusTellsBalance' /\ PaymentsHold'
  BY <1>1 DEF ContractStands, NumbersRunOn, NoGaps, StatusTellsBalance, PaymentsHold, PaymentHolds, Present
<1>8. PaidIsLivePayments'
  BY <1>1 DEF PaidIsLivePayments, SumOver, LivePaymentsOn, Erased
<1> QED BY <1>2, <1>5, <1>6, <1>7, <1>8 DEF IInv

LEMMA RefusedKeeps ==
    ASSUME IInv, NEW s \in Sessions, Refused(s)
    PROVE  IInv'
<1>1. req'[s] = Idle
  BY DEF IInv, TypeOK, Refused
<1>2. RequestHolds(s)'
  BY <1>1 DEF RequestHolds, Idle
<1>3. Idle.at = "idle"
  BY DEF Idle
<1> QED BY <1>2, <1>3, IdleType, RequestAlone DEF Refused

LEMMA NextDayKeeps ==
    ASSUME IInv, NextDay
    PROVE  IInv'
<1>1. /\ TypeOK /\ ContractStands /\ NumbersRunOn /\ StatusTellsBalance /\ PaymentsHold
      /\ RequestsHold /\ Fresh /\ PaidIsLivePayments
  BY DEF IInv
<1>2. rows' = rows /\ payments' = payments /\ overtaken' = overtaken /\ today' \in 1..LastDay
  BY <1>1, LoanPaymentsAssumption DEF NextDay, TypeOK
<1>3. \A t \in Sessions :
          req'[t] = IF req[t].at = "idle" THEN req[t] ELSE [req[t] EXCEPT !.stale = TRUE]
  BY DEF NextDay
<1>4. ASSUME NEW t \in Sessions
      PROVE  /\ req'[t] \in Requests /\ RequestHolds(t)'
             /\ req'[t].at # "idle" => req'[t].stale
  <2>1. req[t] \in Requests /\ RequestHolds(t)
    BY <1>1 DEF TypeOK, RequestsHold
  <2>2. IF req[t].at = "idle"
        THEN req'[t] = req[t]
        ELSE Disturbed(req[t], req'[t]) /\ req'[t].gone = req[t].gone
    <3> DEFINE later == req'[t]
    <3>1. later = IF req[t].at = "idle" THEN req[t] ELSE [req[t] EXCEPT !.stale = TRUE]
      BY <1>3
    <3> HIDE DEF later
    <3>2. IF req[t].at = "idle"
          THEN later = req[t]
          ELSE Disturbed(req[t], later) /\ later.gone = req[t].gone
      BY <2>1, <3>1, MarkedStale
    <3> QED BY <3>2 DEF later
  <2>3. Given(t)' = Given(t)
    BY <2>2 DEF Given, Disturbed
  <2>4. \A n : Present(n)' = Present(n)
    BY <1>2 DEF Present
  <2>5. CASE req[t].at = "idle"
    BY <2>1, <2>2, <2>3, <2>4, <2>5 DEF RequestHolds
  <2>6. CASE req[t].at # "idle"
    BY <2>1, <2>2, <2>3, <2>4, <2>6 DEF RequestHolds, Disturbed
  <2> QED BY <2>5, <2>6
<1>5. RequestsHold' /\ Fresh'
  BY <1>4 DEF RequestsHold, Fresh
<1>6. TypeOK'
  <2>1. req' = [t \in Sessions |-> req'[t]]
    BY DEF NextDay
  <2> QED BY <1>1, <1>2, <1>4, <2>1 DEF TypeOK
<1>7. ContractStands' /\ NumbersRunOn' /\ StatusTellsBalance' /\ PaymentsHold'
  BY <1>1, <1>2
     DEF ContractStands, NumbersRunOn, NoGaps, StatusTellsBalance, PaymentsHold, PaymentHolds, Present
<1>8. PaidIsLivePayments'
  BY <1>1, <1>2 DEF PaidIsLivePayments, SumOver, LivePaymentsOn, Erased
<1> QED BY <1>5, <1>6, <1>7, <1>8 DEF IInv

-----------------------------------------------------------------------------
(* The reads. *)

LEMMA ReadPaymentKeeps ==
    ASSUME IInv, NEW s \in Sessions, NEW n \in Numbers, NEW a \in Amounts, ReadPayment(s, n, a)
    PROVE  IInv'
<1> DEFINE give == [m \in Numbers |-> Allocated(m, n, a)]
<1> DEFINE r == [Idle EXCEPT !.at = "paying", !.row = n, !.cash = a, !.give = give]
<1>0. TypeOK /\ rows' = rows /\ payments' = payments /\ today' = today
  BY DEF IInv, ReadPayment, Read
<1>1. give \in [Numbers -> Nat]
  BY <1>0, AllocatedIsTaken
<1>2. a \in Nat \ {0}
  BY LoanPaymentsAssumption
<1>3. req' = [req EXCEPT ![s] = r]
  BY DEF ReadPayment, Read
<1>4. ASSUME NEW m \in Numbers, give[m] > 0 PROVE Present(m)
  <2>1. Takes(m, n)
    BY <1>0, <1>4, AllocatedIsTaken
  <2> QED BY <2>1 DEF Takes, Present, Unpaid, ReadPayment
<1>5. /\ r.at = "paying" /\ r.row = n /\ r.cash = a /\ r.give = give /\ r.gone = {}
      /\ r \in Requests
  <2> HIDE DEF give
  <2> QED BY <1>1, <1>2, IdleType DEF Idle, Requests, Steps
<1>6. req'[s] = r
  BY <1>0, <1>3 DEF TypeOK
<1>7. Given(s)' = {m \in Numbers : give[m] > 0}
  BY <1>5, <1>6 DEF Given
<1>8. \A m : Present(m)' = Present(m)
  BY <1>0, SameReads
<1> HIDE DEF give, r
<1>9. RequestHolds(s)'
  BY <1>2, <1>4, <1>5, <1>6, <1>7, <1>8 DEF RequestHolds
<1>10. ReadsNow(s)'
  <2>1. \A m : Allocated(m, n, a)' = Allocated(m, n, a)
    BY <1>0, SameReads
  <2>2. give = [m \in Numbers |-> Allocated(m, n, a)']
    BY <2>1 DEF give
  <2> QED BY <1>5, <1>6, <2>2 DEF ReadsNow
<1> QED BY <1>3, <1>5, <1>9, <1>10, RequestAlone DEF ReadPayment, Read

LEMMA ReadUnallocatedKeeps ==
    ASSUME IInv, NEW s \in Sessions, NEW a \in Amounts, ReadUnallocated(s, a)
    PROVE  IInv'
<1> DEFINE r == [Idle EXCEPT !.at = "paying", !.cash = a]
<1>1. a \in Nat \ {0}
  BY LoanPaymentsAssumption
<1>2. req' = [req EXCEPT ![s] = r]
  BY DEF ReadUnallocated, Read
<1>3. /\ r.at = "paying" /\ r.cash = a /\ r.give = [n \in Numbers |-> 0] /\ r.gone = {}
      /\ r \in Requests
  BY <1>1, IdleType DEF Idle, Requests, Steps
<1>4. req'[s] = r
  BY <1>2 DEF IInv, TypeOK
<1>5. Given(s)' = {}
  BY <1>3, <1>4 DEF Given
<1> HIDE DEF r
<1>6. RequestHolds(s)'
  BY <1>1, <1>3, <1>4, <1>5 DEF RequestHolds
<1>7. ReadsNow(s)'
  BY <1>3, <1>4, <1>5 DEF ReadsNow
<1> QED BY <1>2, <1>3, <1>6, <1>7, RequestAlone DEF ReadUnallocated, Read

LEMMA ReadUndoKeeps ==
    ASSUME IInv, NEW s \in Sessions, NEW n \in Numbers, ReadUndo(s, n)
    PROVE  IInv'
<1> DEFINE p == LastPayment(n)
<1> DEFINE left == LeftAfterUndo(n, p)
<1> DEFINE status == StatusOf(left)
<1> DEFINE remove == (left = 0 /\ RemovableExtra(n))
<1> DEFINE known == Len(payments)
<1> DEFINE misled == overtaken > 0
<1> DEFINE r == [Idle EXCEPT !.at = "undoing", !.row = n, !.pay = p, !.left = left,
                 !.status = status, !.remove = remove,
                 !.known = known, !.misled = misled]
<1>0. TypeOK /\ known \in Nat /\ misled \in BOOLEAN /\ rows' = rows /\ payments' = payments /\ today' = today
  BY DEF IInv, TypeOK, ReadUndo, Read
<1>1. p \in DOMAIN payments /\ p \in Nat
  <2>1. PaymentsOn(n) \in SUBSET DOMAIN payments
    BY DEF PaymentsOn
  <2>2. p \in PaymentsOn(n)
    BY <1>0, <2>1, LatestIsOne DEF ReadUndo, LastPayment
  <2> QED BY <1>0, <2>1, <2>2 DEF TypeOK
<1>2. left \in Nat
  <2> HIDE DEF p
  <2> QED BY <1>0, <1>1, LeftIsLess
<1>3. status \in Unpaid \cup {"PAID"}
  <2> HIDE DEF left
  <2> QED BY <1>2, StatusOfType
<1>4. Present(n) /\ PaymentsOn(n) # {} /\ Read(s, r)
  BY DEF ReadUndo
<1>5. remove \in BOOLEAN /\ (remove => n > Term /\ left = 0 /\ RemovableExtra(n))
  BY DEF RemovableExtra
<1>6. status = StatusOf(left) /\ left = LeftAfterUndo(n, p) /\ p = LastPayment(n)
  OBVIOUS
<1> HIDE DEF p, left, status, remove, known, misled
<1>7. /\ r.at = "undoing" /\ r.row = n /\ r.pay = p /\ r.left = left /\ r.status = status
      /\ r.remove = remove /\ r.gone = {} /\ r \in Requests
  <2> DEFINE half == [Idle EXCEPT !.at = "undoing", !.row = n, !.pay = p, !.left = left,
                      !.status = status, !.remove = remove]
  <2>1. /\ half.at = "undoing" /\ half.row = n /\ half.pay = p /\ half.left = left
        /\ half.status = status /\ half.remove = remove /\ half.gone = {} /\ half \in Requests
    BY <1>0, <1>1, <1>2, <1>3, <1>5, IdleType DEF Idle, Requests, Steps
  <2>2. r = [half EXCEPT !.known = known, !.misled = misled]
    OBVIOUS
  <2> HIDE DEF r, half
  <2> QED BY <1>0, <2>1, <2>2 DEF Requests
<1>8. req' = [req EXCEPT ![s] = r]
  BY <1>4 DEF Read
<1>9. req'[s] = r
  BY <1>0, <1>8 DEF TypeOK
<1>10. /\ \A m : Present(m)' = Present(m) /\ PaymentsOn(m)' = PaymentsOn(m)
       /\ \A m : LastPayment(m)' = LastPayment(m)
       /\ \A m, q : LeftAfterUndo(m, q)' = LeftAfterUndo(m, q)
       /\ \A m : RemovableExtra(m)' = RemovableExtra(m)
  BY <1>0, SameReads
<1> HIDE DEF r
<1>11. RequestHolds(s)'
  BY <1>4, <1>5, <1>6, <1>7, <1>9, <1>10 DEF RequestHolds
<1>12. ReadsNow(s)'
  BY <1>4, <1>5, <1>6, <1>7, <1>9, <1>10 DEF ReadsNow
<1> QED BY <1>4, <1>7, <1>8, <1>11, <1>12, RequestAlone DEF Read

LEMMA ReadAddKeeps ==
    ASSUME IInv, NEW s \in Sessions, ReadAdd(s)
    PROVE  IInv'
<1> DEFINE n == NextNumber
<1> DEFINE r == [Idle EXCEPT !.at = "adding", !.row = n]
<1>0. TypeOK /\ rows' = rows /\ payments' = payments /\ today' = today
  BY DEF IInv, ReadAdd, Read
<1>1. n \in Numbers /\ n = NextNumber /\ NextNumber' = NextNumber /\ Read(s, r)
  BY <1>0, SameReads DEF ReadAdd
<1> HIDE DEF n
<1>2. r.at = "adding" /\ r.row = n /\ r.gone = {} /\ r \in Requests
  BY <1>1, IdleType DEF Idle, Requests, Steps
<1>3. req' = [req EXCEPT ![s] = r]
  BY <1>1 DEF Read
<1>4. req'[s] = r
  BY <1>0, <1>3 DEF TypeOK
<1> HIDE DEF r
<1>5. RequestHolds(s)'
  BY <1>1, <1>2, <1>4 DEF RequestHolds
<1>6. ReadsNow(s)'
  BY <1>1, <1>2, <1>4 DEF ReadsNow
<1> QED BY <1>1, <1>2, <1>3, <1>5, <1>6, RequestAlone DEF Read

LEMMA ReadDeleteKeeps ==
    ASSUME IInv, NEW s \in Sessions, NEW n \in Numbers, ReadDelete(s, n)
    PROVE  IInv'
<1> DEFINE r == [Idle EXCEPT !.at = "deleting", !.row = n, !.known = Len(payments)]
<1>0. TypeOK /\ Len(payments) \in Nat /\ rows' = rows /\ payments' = payments /\ today' = today
  BY DEF IInv, TypeOK, ReadDelete, Read
<1>1. Removable(n) /\ n > Term /\ Read(s, r) /\ Removable(n)' = Removable(n)
  BY <1>0, SameReads DEF ReadDelete, Removable, RemovableExtra
<1>2. r.at = "deleting" /\ r.row = n /\ r.gone = {} /\ r \in Requests
  BY <1>0, IdleType DEF Idle, Requests, Steps
<1>3. req' = [req EXCEPT ![s] = r]
  BY <1>1 DEF Read
<1>4. req'[s] = r
  BY <1>0, <1>3 DEF TypeOK
<1> HIDE DEF r
<1>5. RequestHolds(s)'
  BY <1>1, <1>2, <1>4 DEF RequestHolds
<1>6. ReadsNow(s)'
  BY <1>1, <1>2, <1>4 DEF ReadsNow
<1> QED BY <1>1, <1>2, <1>3, <1>5, <1>6, RequestAlone DEF Read

-----------------------------------------------------------------------------
(* The writes. *)

AllBalanced == \A n \in Numbers : Balanced(payments, n, rows[n].paid)

(* What a write has to keep; what depends on nothing having been overtaken *)
(* it keeps if what it had read still is so.                               *)
LEMMA WriteKeeps ==
    ASSUME IInv, NEW s \in Sessions, NEW gone \in SUBSET Numbers, Written(s, gone),
           today' = today, rows' \in [Numbers -> Rows], payments' \in Seq(Payments),
           \A n \in Numbers \ gone : Present(n) => Present(n)',
           \A n \in gone : n > Term,
           StatusTellsBalance', PaymentsHold',
           overtaken = 0 /\ ~req[s].stale => NoGaps' /\ AllBalanced'
    PROVE  IInv'
<1>1. TypeOK /\ RequestsHold /\ ContractStands
  BY DEF IInv
<1>2. /\ req' \in [Sessions -> Requests] /\ RequestsHold' /\ Fresh' /\ overtaken' \in Nat
      /\ overtaken' = 0 => overtaken = 0 /\ ~req[s].stale
  BY <1>1, WrittenKeeps
<1>3. TypeOK'
  BY <1>1, <1>2 DEF TypeOK
<1>4. ContractStands'
  <2> SUFFICES ASSUME NEW n \in 1..Term PROVE Present(n)'
    BY DEF ContractStands
  <2>1. n \in Numbers /\ n \notin gone
    BY LoanPaymentsAssumption DEF Numbers
  <2> QED BY <1>1, <2>1 DEF ContractStands
<1>5. NumbersRunOn'
  BY <1>2 DEF NumbersRunOn
<1>6. PaidIsLivePayments'
  <2>1. overtaken' = 0 => \A n \in Numbers : Balanced(payments', n, rows'[n].paid)
    BY <1>2 DEF AllBalanced
  <2> QED BY <2>1 DEF PaidIsLivePayments, Balanced, SumOver, SumIn, AmountsIn,
                      LivePaymentsOn, LiveIn, Erased, ErasedIn
<1> QED BY <1>2, <1>3, <1>4, <1>5, <1>6 DEF IInv

(* The parts of the invariant a write starts from.                         *)
LEMMA Before ==
    ASSUME IInv
    PROVE  /\ TypeOK /\ ContractStands /\ StatusTellsBalance /\ PaymentsHold
           /\ RequestsHold /\ Fresh
           /\ rows \in [Numbers -> Rows] /\ payments \in Seq(Payments)
           /\ \A n \in Numbers : rows[n].paid \in Nat
           /\ overtaken = 0 => NoGaps /\ AllBalanced
<1>1. \A n \in Numbers : rows[n].paid \in Nat
  BY DEF IInv, TypeOK, Rows
<1> QED BY <1>1, PaidIsBalance DEF IInv, TypeOK, NumbersRunOn, AllBalanced

LEMMA AddInstallmentKeeps ==
    ASSUME IInv, NEW s \in Sessions, AddInstallment(s)
    PROVE  IInv'
<1> DEFINE n == req[s].row
<1>0. /\ TypeOK /\ ContractStands /\ StatusTellsBalance /\ PaymentsHold
      /\ RequestsHold /\ Fresh
      /\ rows \in [Numbers -> Rows] /\ payments \in Seq(Payments)
      /\ \A m \in Numbers : rows[m].paid \in Nat
      /\ overtaken = 0 => NoGaps /\ AllBalanced
  BY Before
<1>1. /\ n \in Numbers /\ ~Present(n) /\ payments' = payments
      /\ rows' = [rows EXCEPT ![n] = [status |-> "PENDING", paid |-> 0]]
      /\ Written(s, {}) /\ today' = today /\ req[s].at = "adding"
  BY <1>0 DEF AddInstallment, RequestsHold, RequestHolds
<1> HIDE DEF n
<1>2. rows' \in [Numbers -> Rows]
  BY <1>0, <1>1 DEF Rows, Unpaid
<1>3. \A m \in Numbers : Present(m) \/ m = n <=> Present(m)'
  BY <1>0, <1>1 DEF Present
<1>4. StatusTellsBalance'
  BY <1>0, <1>1, LoanPaymentsAssumption DEF StatusTellsBalance, Present, StatusOf
<1>5. PaymentsHold'
  <2>1. \A p \in DOMAIN payments : payments[p].row \in Numbers \cup {0}
    <3> SUFFICES ASSUME NEW p \in DOMAIN payments PROVE payments[p] \in Payments
      BY DEF Payments
    <3> QED BY <1>0
  <2> QED BY <1>0, <1>1, <1>3, <2>1 DEF PaymentsHold, PaymentHolds
<1>6. ASSUME overtaken = 0, ~req[s].stale
      PROVE  NoGaps'
  <2>1. n = LastNumber + 1
    BY <1>0, <1>1, <1>6, NumbersAre DEF Fresh, ReadsNow, NextNumber, n
  <2>2. LastNumber \in Numbers /\ Present(LastNumber) /\ \A m \in Numbers : Present(m) => m <= LastNumber
    BY <1>0, LastIsLast
  <2> SUFFICES ASSUME NEW m \in Numbers, Present(m)', NEW k \in 1..m
               PROVE  Present(k)'
    BY DEF NoGaps
  <2>3. m <= LastNumber + 1 /\ k \in Numbers /\ Numbers \in SUBSET Nat
    BY <1>1, <1>3, <2>1, <2>2, LoanPaymentsAssumption DEF Numbers
  <2>4. CASE k = n
    BY <1>1, <1>3, <2>4
  <2>5. CASE k # n
    <3>1. k \in 1..LastNumber
      BY <2>1, <2>2, <2>3, <2>5
    <3> QED BY <1>0, <1>3, <1>6, <2>2, <2>3, <3>1 DEF NoGaps
  <2> QED BY <2>4, <2>5
<1>7. ASSUME overtaken = 0
      PROVE  AllBalanced'
  <2> SUFFICES ASSUME NEW m \in Numbers PROVE Balanced(payments, m, rows'[m].paid)
    BY <1>1 DEF AllBalanced
  <2>1. CASE m # n
    BY <1>0, <1>1, <1>7, <2>1 DEF AllBalanced
  <2>2. CASE m = n
    <3>1. LiveIn(payments, n) = {}
      BY <1>0, <1>1, NumbersAre DEF LiveIn, PaymentsHold, PaymentHolds
    <3>2. rows'[n].paid = 0
      BY <1>0, <1>1
    <3> QED BY <1>0, <2>2, <3>1, <3>2, BalanceOfNothing
  <2> QED BY <2>1, <2>2
<1> QED BY <1>0, <1>1, <1>2, <1>3, <1>4, <1>5, <1>6, <1>7, WriteKeeps

LEMMA PaymentFields ==
    ASSUME TypeOK, NEW p \in DOMAIN payments
    PROVE  /\ payments[p] \in Payments
           /\ payments[p].row \in Numbers \cup {0} /\ payments[p].to \in Numbers \cup {0}
           /\ payments[p].amount \in Nat \ {0}
           /\ payments[p].state \in {"live", "cancelled", "deleted", "erased"}
           /\ payments[p].book \in {"POSTED", "REVERSED"}
<1>1. payments[p] \in Payments
  BY DEF TypeOK
<1> QED BY <1>1 DEF Payments

(* An orphaned payment is the same payment but for its installment.        *)
LEMMA OrphanedFields ==
    ASSUME NEW pay \in Payments, NEW n
    PROVE  /\ Orphaned(pay, n) \in Payments
           /\ Orphaned(pay, n).row = IF pay.row = n THEN 0 ELSE pay.row
           /\ Orphaned(pay, n).to = pay.to /\ Orphaned(pay, n).amount = pay.amount
           /\ Orphaned(pay, n).state = pay.state /\ Orphaned(pay, n).book = pay.book
BY DEF Orphaned, Payments

\* The payments as a write leaves them: each one the same but for its installment, its
\* state and its ledger row.
Revised(later) ==
    /\ DOMAIN later = DOMAIN payments
    /\ \A p \in DOMAIN payments : /\ later[p] \in Payments
                                  /\ later[p].amount = payments[p].amount
                                  /\ later[p].to = payments[p].to

LEMMA RevisedIsSequence ==
    ASSUME TypeOK, NEW later, later = [p \in DOMAIN payments |-> later[p]], Revised(later)
    PROVE  later \in Seq(Payments) /\ SameAmounts(payments, later)
<1>1. DOMAIN payments = 1..Len(payments) /\ Len(payments) \in Nat
  BY DEF TypeOK
<1>2. later \in [1..Len(payments) -> Payments]
  BY <1>1 DEF Revised
<1>3. later \in Seq(Payments)
  BY <1>1, <1>2, SeqDef
<1> QED BY <1>1, <1>3 DEF Revised, SameAmounts

(* The removal of an installment leaves the payments on it without one.    *)
LEMMA PaymentsAfterDelete ==
    ASSUME TypeOK, NEW s \in Sessions, DeleteInstallment(s)
    PROVE  /\ DOMAIN payments' = DOMAIN payments
           /\ \A p \in DOMAIN payments :
                 /\ payments'[p] \in Payments
                 /\ payments'[p].row = IF /\ req[s].row \notin req[s].gone
                                          /\ payments[p].row = req[s].row
                                       THEN 0 ELSE payments[p].row
                 /\ payments'[p].to = payments[p].to /\ payments'[p].amount = payments[p].amount
                 /\ payments'[p].state = payments[p].state /\ payments'[p].book = payments[p].book
<1>1. payments' = [p \in DOMAIN payments |->
                     IF req[s].row \notin req[s].gone
                     THEN Orphaned(payments[p], req[s].row) ELSE payments[p]]
  BY DEF DeleteInstallment
<1> QED BY <1>1, PaymentFields, OrphanedFields

LEMMA DeleteInstallmentKeeps ==
    ASSUME IInv, NEW s \in Sessions, DeleteInstallment(s)
    PROVE  IInv'
<1> DEFINE n == req[s].row
<1> DEFINE removed == IF n \in req[s].gone THEN {} ELSE {n}
<1>0. /\ TypeOK /\ ContractStands /\ StatusTellsBalance /\ PaymentsHold
      /\ RequestsHold /\ Fresh
      /\ rows \in [Numbers -> Rows] /\ payments \in Seq(Payments)
      /\ \A m \in Numbers : rows[m].paid \in Nat
      /\ overtaken = 0 => NoGaps /\ AllBalanced
  BY Before
<1>1. /\ n \in Numbers /\ n > Term /\ n # 0 /\ req[s].at = "deleting"
      /\ removed \in SUBSET {n}
      /\ ~req[s].stale => Removable(n)
      /\ Written(s, removed) /\ today' = today
      /\ rows' = [m \in Numbers |-> IF m \in removed THEN NoRow ELSE rows[m]]
      /\ payments' = [p \in DOMAIN payments |->
                         IF n \in removed THEN Orphaned(payments[p], n) ELSE payments[p]]
  BY <1>0, NumbersAre DEF DeleteInstallment, RequestsHold, RequestHolds, Fresh, ReadsNow
<1> HIDE DEF n, removed
<1>2. rows' \in [Numbers -> Rows]
  BY <1>0, <1>1 DEF Rows, NoRow
<1>3. /\ \A p \in DOMAIN payments :
            /\ payments'[p] \in Payments
            /\ payments'[p].row = IF n \in removed /\ payments[p].row = n
                                  THEN 0 ELSE payments[p].row
            /\ payments'[p].to = payments[p].to /\ payments'[p].amount = payments[p].amount
            /\ payments'[p].state = payments[p].state /\ payments'[p].book = payments[p].book
      /\ DOMAIN payments' = DOMAIN payments
  BY <1>0, PaymentsAfterDelete DEF n, removed
<1>4. payments' \in Seq(Payments) /\ SameAmounts(payments, payments')
  <2>1. payments' = [p \in DOMAIN payments |-> payments'[p]]
    BY <1>1
  <2> QED BY <1>0, <1>3, <2>1, RevisedIsSequence DEF Revised
<1>5. \A m \in Numbers : Present(m)' <=> Present(m) /\ m \notin removed
  BY <1>0, <1>1 DEF Present, NoRow
<1>6. StatusTellsBalance'
  BY <1>0, <1>1, <1>5 DEF StatusTellsBalance, StatusOf
<1>7. PaymentsHold'
  <2> SUFFICES ASSUME NEW p \in DOMAIN payments PROVE PaymentHolds(payments[p])'
    BY <1>3 DEF PaymentsHold
  <2>1. PaymentHolds(payments[p]) /\ payments[p].row \in Numbers \cup {0}
    BY <1>0, PaymentFields DEF PaymentsHold
  <2> QED BY <1>1, <1>3, <1>5, <2>1 DEF PaymentHolds
<1>8. ASSUME overtaken = 0, ~req[s].stale
      PROVE  NoGaps' /\ AllBalanced'
  <2>1. n = LastNumber /\ PaymentsOn(n) = {}
    BY <1>1, <1>8 DEF Removable, RemovableExtra
  <2>2. \A m \in Numbers : Present(m) => m <= n
    BY <1>0, <2>1, LastIsLast
  <2>3. NoGaps'
    <3> SUFFICES ASSUME NEW m \in Numbers, Present(m)', NEW k \in 1..m
                 PROVE  Present(k)'
      BY DEF NoGaps
    <3>1. k \in Numbers /\ Numbers \in SUBSET Nat
      BY LoanPaymentsAssumption DEF Numbers
    <3>2. Present(m) /\ m \notin removed /\ m <= n
      BY <1>5, <2>2
    <3>3. Present(k)
      BY <1>0, <1>8, <3>2 DEF NoGaps
    <3>4. k = n => m = n
      BY <1>1, <3>1, <3>2
    <3>5. k \notin removed
      BY <1>1, <3>2, <3>4
    <3> QED BY <1>5, <3>1, <3>3, <3>5
  <2>4. AllBalanced'
    <3> SUFFICES ASSUME NEW m \in Numbers PROVE Balanced(payments', m, rows'[m].paid)
      BY DEF AllBalanced
    <3>1. CASE m \in removed
      <4>1. rows'[m].paid = 0
        BY <1>1, <3>1 DEF NoRow
      <4>2. LiveIn(payments', m) = {}
        BY <1>1, <1>3, <3>1 DEF LiveIn
      <4> QED BY <1>4, <4>1, <4>2, BalanceOfNothing
    <3>2. CASE m \notin removed
      <4>1. /\ LiveIn(payments', m) = LiveIn(payments, m)
            /\ ErasedIn(payments', m) = ErasedIn(payments, m)
        BY <1>1, <1>3, <3>2, NumbersAre DEF LiveIn, ErasedIn
      <4>2. rows'[m].paid = rows[m].paid /\ rows[m].paid \in Nat
        BY <1>0, <1>1, <3>2
      <4>3. Balanced(payments, m, rows[m].paid)
        BY <1>0, <1>8 DEF AllBalanced
      <4> QED BY <1>0, <1>4, <4>1, <4>2, <4>3, BalanceKept
    <3> QED BY <3>1, <3>2
  <2> QED BY <2>3, <2>4
<1>9. \A m \in removed : m > Term
  BY <1>1
<1> QED BY <1>1, <1>2, <1>4, <1>5, <1>6, <1>7, <1>8, <1>9, WriteKeeps

(* An undo takes a payment of installment n back, live or cancelled.       *)
TakenBack(later, n, p) ==
    /\ SameAmounts(payments, later) /\ DOMAIN later = DOMAIN payments
    /\ p \in DOMAIN payments /\ payments[p].row = n /\ later[p].row = n
    /\ \/ payments[p].state = "live" /\ later[p].state \in {"cancelled", "deleted"}
       \/ payments[p].state = "cancelled" /\ later[p].state = "erased"
    /\ \A q \in DOMAIN payments \ {p} :
          later[q].row = payments[q].row /\ later[q].state = payments[q].state

(* With its amount taken off, the installment is in balance still; the     *)
(* others are not touched.                                                 *)
LEMMA BalanceAfterUndo ==
    ASSUME TypeOK, NEW later, NEW n \in Numbers, NEW p, TakenBack(later, n, p), AllBalanced
    PROVE  /\ Balanced(later, n, LeftAfterUndo(n, p))
           /\ \A m \in Numbers \ {n} : Balanced(later, m, rows[m].paid)
<1>0. payments \in Seq(Payments) /\ \A m \in Numbers : rows[m].paid \in Nat
  BY DEF TypeOK, Rows
<1>1. Balanced(later, n, LeftAfterUndo(n, p))
  <2>0. Balanced(payments, n, rows[n].paid)
    BY DEF AllBalanced
  <2>1. CASE payments[p].state = "live"
    <3>1. p \in LiveIn(payments, n) /\ LiveIn(later, n) = LiveIn(payments, n) \ {p}
      BY <2>1 DEF TakenBack, LiveIn
    <3>2. ErasedIn(later, n) = ErasedIn(payments, n)
      BY <2>1 DEF TakenBack, ErasedIn
    <3> QED BY <1>0, <2>0, <3>1, <3>2, BalanceWithout DEF TakenBack, LeftAfterUndo
  <2>2. CASE payments[p].state = "cancelled"
    <3>1. LiveIn(later, n) = LiveIn(payments, n)
      BY <2>2 DEF TakenBack, LiveIn
    <3>2. p \in ErasedIn(later, n)
      BY <2>2 DEF TakenBack, ErasedIn
    <3>3. LeftAfterUndo(n, p) \in Nat /\ LeftAfterUndo(n, p) <= rows[n].paid
      BY LeftIsLess DEF TakenBack
    <3> QED BY <1>0, <2>0, <3>1, <3>2, <3>3, BalanceKept DEF TakenBack
  <2> QED BY <2>1, <2>2 DEF TakenBack
<1>2. ASSUME NEW m \in Numbers \ {n}
      PROVE  Balanced(later, m, rows[m].paid)
  <2>1. LiveIn(later, m) = LiveIn(payments, m) /\ ErasedIn(later, m) = ErasedIn(payments, m)
    BY DEF TakenBack, LiveIn, ErasedIn
  <2>2. Balanced(payments, m, rows[m].paid)
    BY DEF AllBalanced
  <2> QED BY <1>0, <2>1, <2>2, BalanceKept DEF TakenBack
<1> QED BY <1>1, <1>2

LEMMA CancelledFields ==
    ASSUME TypeOK, NEW p \in DOMAIN payments, NEW pay \in Payments,
           pay.row = payments[p].row, pay.to = payments[p].to,
           pay.amount = payments[p].amount, pay.state = "cancelled", pay.book = "REVERSED",
           NEW later, later = [payments EXCEPT ![p] = pay]
    PROVE  /\ later \in Seq(Payments) /\ SameAmounts(payments, later)
           /\ DOMAIN later = DOMAIN payments
           /\ \A q \in DOMAIN payments :
                 /\ later[q].row = payments[q].row /\ later[q].to = payments[q].to
                 /\ later[q].state = IF q = p THEN "cancelled" ELSE payments[q].state
                 /\ later[q].book = IF q = p THEN "REVERSED" ELSE payments[q].book
<1>2. /\ DOMAIN later = DOMAIN payments
      /\ \A q \in DOMAIN payments : later[q] = IF q = p THEN pay ELSE payments[q]
      /\ later = [q \in DOMAIN payments |-> later[q]]
  OBVIOUS
<1>3. later \in Seq(Payments) /\ SameAmounts(payments, later)
  BY <1>2, PaymentFields, RevisedIsSequence DEF Revised
<1> QED BY <1>2, <1>3

(* undoCollection cancels one payment, and takes nothing from the others.  *)
LEMMA PaymentsAfterCancel ==
    ASSUME TypeOK, NEW p \in DOMAIN payments,
           payments' = [payments EXCEPT ![p].state = "cancelled", ![p].book = "REVERSED"]
    PROVE  /\ payments' \in Seq(Payments) /\ SameAmounts(payments, payments')
           /\ DOMAIN payments' = DOMAIN payments
           /\ \A q \in DOMAIN payments :
                 /\ payments'[q].row = payments[q].row /\ payments'[q].to = payments[q].to
                 /\ payments'[q].state = IF q = p THEN "cancelled" ELSE payments[q].state
                 /\ payments'[q].book = IF q = p THEN "REVERSED" ELSE payments[q].book
<1> DEFINE pay == [payments[p] EXCEPT !.state = "cancelled", !.book = "REVERSED"]
<1> DEFINE half == [payments EXCEPT ![p].state = "cancelled"]
<1>1. half[p] = [payments[p] EXCEPT !.state = "cancelled"]
  OBVIOUS
<1>2. payments' = [half EXCEPT ![p] = [half[p] EXCEPT !.book = "REVERSED"]]
  OBVIOUS
<1>3. payments' = [payments EXCEPT ![p] = pay]
  BY <1>1, <1>2
<1>4. /\ pay \in Payments /\ pay.row = payments[p].row /\ pay.to = payments[p].to
      /\ pay.amount = payments[p].amount /\ pay.state = "cancelled" /\ pay.book = "REVERSED"
  BY PaymentFields DEF Payments
<1> HIDE DEF pay, half
<1> QED BY <1>3, <1>4, CancelledFields

LEMMA UndoCollectionKeeps ==
    ASSUME IInv, NEW s \in Sessions, NEW n \in Numbers, UndoCollection(s, n)
    PROVE  IInv'
<1> DEFINE p == Max(LivePaymentsOn(n))
<1> DEFINE left == LeftAfterUndo(n, p)
<1> DEFINE row == [status |-> StatusOf(left), paid |-> left]
<1>0. /\ TypeOK /\ ContractStands /\ StatusTellsBalance /\ PaymentsHold
      /\ RequestsHold /\ Fresh
      /\ rows \in [Numbers -> Rows] /\ payments \in Seq(Payments)
      /\ \A m \in Numbers : rows[m].paid \in Nat
      /\ overtaken = 0 => NoGaps /\ AllBalanced
  BY Before
<1>1. p \in DOMAIN payments /\ payments[p].row = n /\ payments[p].state = "live"
  <2>1. LivePaymentsOn(n) \in SUBSET DOMAIN payments
    BY DEF LivePaymentsOn
  <2>2. p \in LivePaymentsOn(n)
    BY <1>0, <2>1, LatestIsOne DEF UndoCollection
  <2> QED BY <2>2 DEF LivePaymentsOn
<1>2. /\ payments' = [payments EXCEPT ![p].state = "cancelled", ![p].book = "REVERSED"]
      /\ rows' = [rows EXCEPT ![n] = row]
      /\ Written(s, {}) /\ today' = today /\ left = LeftAfterUndo(n, p)
  BY DEF UndoCollection, BookAfterCancel
<1> HIDE DEF p
<1>3. left \in Nat
  BY <1>0, <1>1, LeftIsLess
<1>4. row \in Rows /\ row.paid = left /\ row.status = StatusOf(left) /\ row.status # "none"
  BY <1>3, StatusOfType DEF Rows, Unpaid
<1> HIDE DEF left, row
<1>5. /\ payments' \in Seq(Payments) /\ SameAmounts(payments, payments')
      /\ DOMAIN payments' = DOMAIN payments
      /\ \A q \in DOMAIN payments :
            /\ payments'[q].row = payments[q].row /\ payments'[q].to = payments[q].to
            /\ payments'[q].state = IF q = p THEN "cancelled" ELSE payments[q].state
            /\ payments'[q].book = IF q = p THEN "REVERSED" ELSE payments[q].book
  BY <1>0, <1>1, <1>2, PaymentsAfterCancel
<1>6. /\ rows' \in [Numbers -> Rows]
      /\ \A m \in Numbers : rows'[m] = IF m = n THEN row ELSE rows[m]
  BY <1>0, <1>2, <1>4
<1>7. Present(n)
  BY <1>0, <1>1, NumbersAre DEF PaymentsHold, PaymentHolds
<1>8. \A m \in Numbers : Present(m)' <=> Present(m)
  BY <1>4, <1>6, <1>7 DEF Present
<1>9. StatusTellsBalance'
  BY <1>0, <1>4, <1>6, <1>8 DEF StatusTellsBalance, StatusOf
<1>10. PaymentsHold'
  <2> SUFFICES ASSUME NEW q \in DOMAIN payments PROVE PaymentHolds(payments[q])'
    BY <1>5 DEF PaymentsHold
  <2>1. PaymentHolds(payments[q]) /\ payments[q].row \in Numbers \cup {0}
    BY <1>0, PaymentFields DEF PaymentsHold
  <2> QED BY <1>5, <1>8, <2>1 DEF PaymentHolds
<1>11. ASSUME overtaken = 0
       PROVE  NoGaps' /\ AllBalanced'
  <2>1. NoGaps'
    <3>1. \A m \in Numbers : 1..m \in SUBSET Numbers
      BY LoanPaymentsAssumption DEF Numbers
    <3> QED BY <1>0, <1>8, <1>11, <3>1 DEF NoGaps
  <2>2. AllBalanced'
    <3>1. TakenBack(payments', n, p)
      BY <1>1, <1>5 DEF TakenBack
    <3>2. /\ Balanced(payments', n, left)
          /\ \A m \in Numbers \ {n} : Balanced(payments', m, rows[m].paid)
      BY <1>0, <1>2, <1>11, <3>1, BalanceAfterUndo
    <3>3. \A m \in Numbers : Balanced(payments', m, rows'[m].paid)
      BY <1>4, <1>6, <3>2
    <3> QED BY <3>3 DEF AllBalanced
  <2> QED BY <2>1, <2>2
<1>12. {} \in SUBSET Numbers /\ \A m \in {} : m > Term
  OBVIOUS
<1> QED BY <1>0, <1>2, <1>5, <1>6, <1>8, <1>9, <1>10, <1>11, <1>12, WriteKeeps

LEMMA DeletedFields ==
    ASSUME TypeOK, NEW p \in DOMAIN payments
    PROVE  /\ Deleted(p) \in Payments
           /\ Deleted(p).row = payments[p].row /\ Deleted(p).to = payments[p].to
           /\ Deleted(p).amount = payments[p].amount /\ Deleted(p).book = payments[p].book
           /\ payments[p].state = "live" => Deleted(p).state = "deleted"
           /\ payments[p].state = "cancelled" => Deleted(p).state = "erased"
           /\ payments[p].state \in {"deleted", "erased"} => Deleted(p).state = payments[p].state
<1> DEFINE state == CASE payments[p].state = "live" -> "deleted"
                      [] payments[p].state = "cancelled" -> "erased"
                      [] OTHER -> payments[p].state
<1>1. /\ payments[p].state = "live" => state = "deleted"
      /\ payments[p].state = "cancelled" => state = "erased"
      /\ payments[p].state \in {"deleted", "erased"} => state = payments[p].state
  OBVIOUS
<1>2. Deleted(p) = [payments[p] EXCEPT !.state = state]
  BY DEF Deleted
<1>3. state \in {"live", "cancelled", "deleted", "erased"}
  BY <1>1, PaymentFields
<1> HIDE DEF state
<1> QED BY <1>1, <1>2, <1>3, PaymentFields DEF Payments

(* Two live payments on an installment leave something of its balance when *)
(* one is taken off.                                                       *)
LEMMA TwoPaymentsLeaveSome ==
    ASSUME TypeOK, NEW n \in Numbers, Balanced(payments, n, rows[n].paid),
           ErasedIn(payments, n) = {},
           NEW p \in LiveIn(payments, n), NEW q \in LiveIn(payments, n), p # q
    PROVE  LeftAfterUndo(n, p) > 0
<1>1. /\ LiveIn(payments, n) \in SUBSET DOMAIN payments /\ payments \in Seq(Payments)
      /\ {p, q} \in SUBSET LiveIn(payments, n) /\ {p} \in SUBSET DOMAIN payments
      /\ p \in DOMAIN payments /\ q \in DOMAIN payments
  BY DEF LiveIn, TypeOK
<1>2. /\ AmountsIn(payments)[p] = payments[p].amount /\ AmountsIn(payments)[q] = payments[q].amount
      /\ payments[p].amount \in Nat \ {0} /\ payments[q].amount \in Nat \ {0}
      /\ IsFiniteSet(LiveIn(payments, n)) /\ SumIn(payments, LiveIn(payments, n)) \in Nat
      /\ \A r \in LiveIn(payments, n) : AmountsIn(payments)[r] \in Nat
      /\ IntegersOn(AmountsIn(payments), {p}) /\ IsFiniteSet({p})
  BY <1>1, PaymentsAddUp
<1>3. SumFunctionOnSet(AmountsIn(payments), {p}) = payments[p].amount
  <2>1. SumFunctionOnSet(AmountsIn(payments), {p} \ {p}) =
            SumFunctionOnSet(AmountsIn(payments), {p}) - AmountsIn(payments)[p]
    BY <1>2, SumWithout
  <2>2. SumFunctionOnSet(AmountsIn(payments), {p} \ {p}) = 0
    <3>1. {p} \ {p} = {}
      OBVIOUS
    <3> QED BY <3>1, SumOfNothing
  <2>3. SumFunctionOnSet(AmountsIn(payments), {p}) \in Int
    BY <1>2, SumIsInteger
  <2> QED BY <1>2, <2>1, <2>2, <2>3
<1>4. SumFunctionOnSet(AmountsIn(payments), {p, q}) =
          SumFunctionOnSet(AmountsIn(payments), {p}) + AmountsIn(payments)[q]
  <2>1. {p, q} = {p} \cup {q}
    OBVIOUS
  <2> QED BY <1>2, <2>1, SumWith
<1>5. SumFunctionOnSet(AmountsIn(payments), {p, q}) <= SumIn(payments, LiveIn(payments, n))
  BY <1>1, <1>2, SumOfPart DEF SumIn
<1>6. rows[n].paid = SumIn(payments, LiveIn(payments, n))
  BY DEF Balanced
<1>7. rows[n].paid > payments[p].amount /\ rows[n].paid \in Nat
  BY <1>2, <1>3, <1>4, <1>5, <1>6
<1> QED BY <1>2, <1>7 DEF LeftAfterUndo

(* The loan page's undo deletes its payment, and leaves the others as they *)
(* are but for the installment it removes.                                 *)
LEMMA PaymentsAfterUndo ==
    ASSUME TypeOK, NEW s \in Sessions, CommitUndo(s)
    PROVE  /\ DOMAIN payments' = DOMAIN payments
           /\ \A q \in DOMAIN payments :
                 /\ payments'[q] \in Payments
                 /\ payments'[q].row = IF /\ req[s].remove /\ req[s].row \notin req[s].gone
                                          /\ payments[q].row = req[s].row
                                       THEN 0 ELSE payments[q].row
                 /\ payments'[q].to = payments[q].to /\ payments'[q].amount = payments[q].amount
                 /\ payments'[q].book = payments[q].book
                 /\ q # req[s].pay => payments'[q].state = payments[q].state
                 /\ q = req[s].pay =>
                       /\ payments[q].state = "live" => payments'[q].state = "deleted"
                       /\ payments[q].state = "cancelled" => payments'[q].state = "erased"
                       /\ payments[q].state \in {"deleted", "erased"} =>
                             payments'[q].state = payments[q].state
<1> DEFINE n == req[s].row
<1> DEFINE p == req[s].pay
<1> DEFINE removed == req[s].remove /\ n \notin req[s].gone
<1> DEFINE pay(q) == IF q = p THEN Deleted(q) ELSE payments[q]
<1>1. /\ DOMAIN payments' = DOMAIN payments
      /\ \A q \in DOMAIN payments :
            payments'[q] = IF removed THEN Orphaned(pay(q), n) ELSE pay(q)
  BY DEF CommitUndo
<1> HIDE DEF n, p, removed
<1>2. ASSUME NEW q \in DOMAIN payments
      PROVE  /\ pay(q) \in Payments /\ pay(q).row = payments[q].row /\ pay(q).to = payments[q].to
             /\ pay(q).amount = payments[q].amount /\ pay(q).book = payments[q].book
             /\ q # p => pay(q).state = payments[q].state
             /\ q = p =>
                   /\ payments[q].state = "live" => pay(q).state = "deleted"
                   /\ payments[q].state = "cancelled" => pay(q).state = "erased"
                   /\ payments[q].state \in {"deleted", "erased"} => pay(q).state = payments[q].state
  BY PaymentFields, DeletedFields
<1> HIDE DEF pay
<1>3. \A q \in DOMAIN payments :
          /\ payments'[q] \in Payments
          /\ payments'[q].row = IF removed /\ payments[q].row = n THEN 0 ELSE payments[q].row
          /\ payments'[q].to = payments[q].to /\ payments'[q].amount = payments[q].amount
          /\ payments'[q].book = payments[q].book /\ payments'[q].state = pay(q).state
  BY <1>1, <1>2, OrphanedFields
<1> QED BY <1>1, <1>2, <1>3 DEF n, p, removed

LEMMA CommitUndoKeeps ==
    ASSUME IInv, NEW s \in Sessions, CommitUndo(s)
    PROVE  IInv'
<1> DEFINE n == req[s].row
<1> DEFINE p == req[s].pay
<1> DEFINE there == n \notin req[s].gone
<1> DEFINE removed == IF req[s].remove /\ there THEN {n} ELSE {}
<1> DEFINE row == IF req[s].remove THEN NoRow
                  ELSE [status |-> req[s].status, paid |-> req[s].left]
<1>0. /\ TypeOK /\ ContractStands /\ StatusTellsBalance /\ PaymentsHold
      /\ RequestsHold /\ Fresh
      /\ rows \in [Numbers -> Rows] /\ payments \in Seq(Payments)
      /\ \A m \in Numbers : rows[m].paid \in Nat
      /\ overtaken = 0 => NoGaps /\ AllBalanced
  BY Before
<1>1. /\ n \in Numbers /\ n # 0 /\ req[s].status = StatusOf(req[s].left)
      /\ req[s].remove => n > Term
      /\ there => Present(n)
  BY <1>0, NumbersAre DEF CommitUndo, RequestsHold, RequestHolds
<1>2. /\ req[s].left \in Nat /\ req[s].status \in Unpaid \cup {"PAID"}
  BY <1>0, RequestType
<1>3. /\ rows' = [rows EXCEPT ![n] = IF there THEN row ELSE @]
      /\ Written(s, removed) /\ today' = today
      /\ DOMAIN payments' = DOMAIN payments
      /\ payments' = [q \in DOMAIN payments |-> payments'[q]]
      /\ \A q \in DOMAIN payments :
            payments'[q] = IF n \in removed
                           THEN Orphaned(IF q = p THEN Deleted(q) ELSE payments[q], n)
                           ELSE IF q = p THEN Deleted(q) ELSE payments[q]
  BY DEF CommitUndo
<1>4. ~req[s].stale =>
          /\ there /\ PaymentsOn(n) # {} /\ p = LastPayment(n)
          /\ req[s].left = LeftAfterUndo(n, p)
          /\ req[s].remove => req[s].left = 0 /\ n = LastNumber
  BY <1>0 DEF CommitUndo, Fresh, ReadsNow, RemovableExtra
<1>5. /\ row \in Rows
      /\ row.status = "none" <=> req[s].remove
      /\ row.paid = IF req[s].remove THEN 0 ELSE req[s].left
      /\ ~req[s].remove => row.status = StatusOf(row.paid)
  BY <1>1, <1>2 DEF Rows, NoRow, Unpaid
<1>6. /\ removed \in SUBSET {n} /\ (n \in removed <=> req[s].remove /\ there)
  OBVIOUS
<1> HIDE DEF n, p, there, removed, row
<1>7. /\ rows' \in [Numbers -> Rows]
      /\ \A m \in Numbers : rows'[m] = IF m = n /\ there THEN row ELSE rows[m]
  BY <1>0, <1>1, <1>3, <1>5
<1>8. \A m \in Numbers : Present(m)' <=> Present(m) /\ m \notin removed
  BY <1>1, <1>5, <1>6, <1>7 DEF Present
<1>9. \A q \in DOMAIN payments :
          /\ payments'[q] \in Payments
          /\ payments'[q].row = IF n \in removed /\ payments[q].row = n
                                THEN 0 ELSE payments[q].row
          /\ payments'[q].to = payments[q].to /\ payments'[q].amount = payments[q].amount
          /\ payments'[q].book = payments[q].book
          /\ q # p => payments'[q].state = payments[q].state
          /\ q = p => /\ payments[q].state = "live" => payments'[q].state = "deleted"
                      /\ payments[q].state = "cancelled" => payments'[q].state = "erased"
                      /\ payments[q].state \in {"deleted", "erased"} =>
                            payments'[q].state = payments[q].state
  BY <1>0, <1>6, PaymentsAfterUndo DEF n, p, there
<1>10. payments' \in Seq(Payments) /\ SameAmounts(payments, payments')
  BY <1>0, <1>3, <1>9, RevisedIsSequence DEF Revised
<1>11. StatusTellsBalance'
  BY <1>0, <1>5, <1>7, <1>8 DEF StatusTellsBalance, StatusOf, Present
<1>12. PaymentsHold'
  <2> SUFFICES ASSUME NEW q \in DOMAIN payments PROVE PaymentHolds(payments[q])'
    BY <1>3 DEF PaymentsHold
  <2>1. /\ PaymentHolds(payments[q]) /\ payments[q].row \in Numbers \cup {0}
        /\ payments[q].state \in {"live", "cancelled", "deleted", "erased"}
    BY <1>0, PaymentFields DEF PaymentsHold
  <2> QED BY <1>1, <1>6, <1>8, <1>9, <2>1 DEF PaymentHolds
<1>13. ASSUME overtaken = 0, ~req[s].stale
       PROVE  NoGaps' /\ AllBalanced'
  <2>1. /\ p \in DOMAIN payments /\ payments[p].row = n
        /\ payments[p].state \in {"live", "cancelled"}
    <3>1. PaymentsOn(n) \in SUBSET DOMAIN payments
      BY DEF PaymentsOn
    <3>2. p \in PaymentsOn(n)
      BY <1>0, <1>4, <1>13, <3>1, LatestIsOne DEF LastPayment
    <3> QED BY <3>2 DEF PaymentsOn
  <2>2. NoGaps'
    <3>1. \A m \in Numbers : Present(m) => m <= LastNumber
      BY <1>0, LastIsLast
    <3> SUFFICES ASSUME NEW m \in Numbers, Present(m)', NEW k \in 1..m
                 PROVE  Present(k)'
      BY DEF NoGaps
    <3>2. k \in Numbers /\ Numbers \in SUBSET Nat
      BY LoanPaymentsAssumption DEF Numbers
    <3>3. removed # {} => n = LastNumber
      BY <1>4, <1>6, <1>13
    <3> QED BY <1>0, <1>1, <1>6, <1>8, <1>13, <3>1, <3>2, <3>3 DEF NoGaps
  <2>3. AllBalanced'
    <3> SUFFICES ASSUME NEW m \in Numbers PROVE Balanced(payments', m, rows'[m].paid)
      BY DEF AllBalanced
    <3>1. CASE n \notin removed
      <4>1. TakenBack(payments', n, p)
        BY <1>3, <1>9, <1>10, <2>1, <3>1 DEF TakenBack
      <4>2. rows'[m].paid = IF m = n THEN LeftAfterUndo(n, p) ELSE rows[m].paid
        BY <1>4, <1>5, <1>6, <1>7, <1>13, <3>1
      <4>3. /\ Balanced(payments', n, LeftAfterUndo(n, p))
            /\ \A k \in Numbers \ {n} : Balanced(payments', k, rows[k].paid)
        BY <1>0, <1>1, <1>13, <4>1, BalanceAfterUndo
      <4> QED BY <4>2, <4>3
    <3>2. CASE n \in removed /\ m = n
      <4>1. rows'[m].paid = 0
        BY <1>1, <1>5, <1>6, <1>7, <3>2
      <4>2. LiveIn(payments', m) = {}
        BY <1>1, <1>3, <1>9, <3>2 DEF LiveIn
      <4> QED BY <1>10, <4>1, <4>2, BalanceOfNothing
    <3>3. CASE n \in removed /\ m # n
      <4>1. LiveIn(payments', m) = LiveIn(payments, m) /\ ErasedIn(payments', m) = ErasedIn(payments, m)
        BY <1>3, <1>9, <2>1, <3>3, NumbersAre DEF LiveIn, ErasedIn
      <4>2. rows'[m].paid = rows[m].paid /\ rows[m].paid \in Nat
        BY <1>0, <1>7, <3>3
      <4>3. Balanced(payments, m, rows[m].paid)
        BY <1>0, <1>13 DEF AllBalanced
      <4> QED BY <1>0, <1>10, <4>1, <4>2, <4>3, BalanceKept
    <3> QED BY <3>1, <3>2, <3>3
  <2> QED BY <2>2, <2>3
<1>14. removed \in SUBSET Numbers /\ \A m \in removed : m > Term
  BY <1>1, <1>6
<1>15. \A m \in Numbers \ removed : Present(m) => Present(m)'
  BY <1>8
<1> QED BY <1>3, <1>7, <1>10, <1>11, <1>12, <1>13, <1>14, <1>15, WriteKeeps

(* A payment records one row per installment that it gives money, after    *)
(* the rows there are.                                                     *)
LEMMA PaymentsRecorded ==
    ASSUME TypeOK, RequestsHold, NEW s \in Sessions, CommitPayment(s)
    PROVE  /\ payments' \in Seq(Payments) /\ SameAmounts(payments, payments')
           /\ Len(payments') > Len(payments)
           /\ \A p \in DOMAIN payments : p \in DOMAIN payments' /\ payments'[p] = payments[p]
           /\ \A q \in DOMAIN payments' \ DOMAIN payments :
                 /\ payments'[q].row \in Given(s) \cup {0}
                 /\ payments'[q].to = payments'[q].row
                 /\ payments'[q].state = "live" /\ payments'[q].book = "POSTED"
           /\ \A n \in Given(s) : \E q \in DOMAIN payments' \ DOMAIN payments :
                 /\ payments'[q].row = n /\ payments'[q].amount = req[s].give[n]
                 /\ \A r \in DOMAIN payments' \ DOMAIN payments : payments'[r].row = n => r = q
<1> DEFINE G == Given(s)
<1> DEFINE len == Len(payments)
<1>0. /\ payments \in Seq(Payments) /\ len \in Nat /\ DOMAIN payments = 1..len
      /\ G \in SUBSET Numbers /\ req[s].give \in [Numbers -> Nat]
      /\ req[s].cash \in Nat \ {0}
  BY RequestType DEF TypeOK, CommitPayment, RequestsHold, RequestHolds
<1>1. ASSUME NEW n \in Numbers \cup {0}, NEW amount \in Nat \ {0}
      PROVE  /\ NewPayment(n, amount) \in Payments
             /\ NewPayment(n, amount).row = n /\ NewPayment(n, amount).to = n
             /\ NewPayment(n, amount).amount = amount
             /\ NewPayment(n, amount).state = "live" /\ NewPayment(n, amount).book = "POSTED"
  BY DEF NewPayment, Payments
<1>2. CASE G = {}
  <2> DEFINE new == NewPayment(0, req[s].cash)
  <2>1. payments' = Append(payments, new)
    BY <1>2 DEF CommitPayment
  <2>2. new \in Payments /\ new.row = 0 /\ new.to = 0 /\ new.state = "live" /\ new.book = "POSTED"
    BY <1>0, <1>1, ZenonT(30)
  <2> HIDE DEF new
  <2>3. /\ payments' \in Seq(Payments) /\ Len(payments') = len + 1
        /\ \A p \in 1..len : payments'[p] = payments[p]
        /\ payments'[len + 1] = new /\ DOMAIN payments' = 1..len + 1
    BY <1>0, <2>1, <2>2
  <2> QED BY <1>0, <1>2, <2>2, <2>3 DEF SameAmounts
<1>3. CASE G # {}
  <2> DEFINE N == Cardinality(G)
  <2>1. IsFiniteSet(G) /\ N \in Nat /\ N # 0 /\ G \in SUBSET Int
    <3> HIDE DEF G
    <3>0. G \in SUBSET Numbers
      BY <1>0
    <3>1. G \in SUBSET Numbers /\ G \in SUBSET Int
      BY <3>0, NumbersAre
    <3>2. IsFiniteSet(G)
      BY <3>1, NumbersAre, FS_Subset
    <3> QED BY <1>3, <3>1, <3>2, FS_CardinalityType, FS_EmptySet
  <2>2. PICK settled \in [1..N -> G] :
            /\ InOrder(settled)
            /\ payments' = payments \o [i \in DOMAIN settled |->
                              NewPayment(settled[i], req[s].give[settled[i]])]
    BY <1>3 DEF CommitPayment
  <2> DEFINE new == [i \in 1..N |-> NewPayment(settled[i], req[s].give[settled[i]])]
  <2>3. \A i \in 1..N : /\ settled[i] \in G /\ settled[i] \in Numbers
                        /\ req[s].give[settled[i]] \in Nat \ {0}
    <3>1. \A n \in G : n \in Numbers /\ req[s].give[n] \in Nat \ {0}
      BY <1>0 DEF Given
    <3> HIDE DEF G, N
    <3> QED BY <2>2, <3>1
  <2>4. /\ new \in [1..N -> Payments]
        /\ \A i \in 1..N : /\ new[i].row = settled[i] /\ new[i].to = settled[i]
                           /\ new[i].amount = req[s].give[settled[i]]
                           /\ new[i].state = "live" /\ new[i].book = "POSTED"
    BY <1>1, <2>3
  <2>5. payments' = payments \o new
    BY <2>2
  <2>6. \A x \in G : \E i \in 1..N : settled[i] = x /\ \A j \in 1..N : settled[j] = x => j = i
    <3>1. \A i, j \in 1..N : i < j => settled[i] < settled[j]
      BY <2>2 DEF InOrder
    <3> QED BY <2>1, <2>2, <3>1, OrderedListing
  <2>7. new \in Seq(Payments) /\ Len(new) = N
    <3> HIDE DEF new
    <3>1. new \in Seq(Payments)
      BY <2>1, <2>4, SeqDef
    <3> QED BY <2>1, <2>4, <3>1, LenProperties
  <2> HIDE DEF new, N
  <2>8. /\ payments' \in Seq(Payments) /\ Len(payments') = len + N
        /\ \A p \in 1..len : payments'[p] = payments[p]
        /\ \A i \in 1..N : payments'[len + i] = new[i]
        /\ DOMAIN payments' = 1..len + N
    <3>1. /\ payments' \in Seq(Payments) /\ Len(payments') = len + N
          /\ \A i \in 1..len + N : payments'[i] = IF i <= len THEN payments[i] ELSE new[i - len]
      BY <1>0, <2>5, <2>7, ConcatProperties
    <3>2. \A i \in 1..N : len + i \in 1..len + N /\ ~(len + i <= len) /\ (len + i) - len = i
      BY <1>0, <2>1
    <3>3. \A p \in 1..len : p \in 1..len + N /\ p <= len
      BY <1>0, <2>1
    <3> QED BY <3>1, <3>2, <3>3, LenProperties
  <2>9. \A q \in DOMAIN payments' \ DOMAIN payments : \E i \in 1..N : q = len + i
    <3> SUFFICES ASSUME NEW q \in 1..len + N, q \notin 1..len
                 PROVE  \E i \in 1..N : q = len + i
      BY <1>0, <2>8
    <3>1. q - len \in 1..N /\ q = len + (q - len)
      BY <1>0, <2>1
    <3> QED BY <3>1
  <2>10. \A i \in 1..N : len + i \in DOMAIN payments' \ DOMAIN payments
    BY <1>0, <2>1, <2>8
  <2>11. SameAmounts(payments, payments')
    BY <1>0, <2>1, <2>8 DEF SameAmounts
  <2>12. \A q \in DOMAIN payments' \ DOMAIN payments :
             /\ payments'[q].row \in G \cup {0} /\ payments'[q].to = payments'[q].row
             /\ payments'[q].state = "live" /\ payments'[q].book = "POSTED"
    BY <2>3, <2>4, <2>8, <2>9
  <2>13. ASSUME NEW n \in G
         PROVE  \E q \in DOMAIN payments' \ DOMAIN payments :
                   /\ payments'[q].row = n /\ payments'[q].amount = req[s].give[n]
                   /\ \A r \in DOMAIN payments' \ DOMAIN payments : payments'[r].row = n => r = q
    <3>1. PICK i \in 1..N : settled[i] = n /\ \A j \in 1..N : settled[j] = n => j = i
      BY <2>6
    <3>2. payments'[len + i].row = n /\ payments'[len + i].amount = req[s].give[n]
      BY <2>4, <2>8, <3>1
    <3>3. \A r \in DOMAIN payments' \ DOMAIN payments : payments'[r].row = n => r = len + i
      BY <2>4, <2>8, <2>9, <3>1
    <3> QED BY <2>10, <3>2, <3>3
  <2> QED BY <1>0, <2>1, <2>8, <2>11, <2>12, <2>13
<1> QED BY <1>2, <1>3

LEMMA CommitPaymentKeeps ==
    ASSUME IInv, NEW s \in Sessions, CommitPayment(s)
    PROVE  IInv'
<1> DEFINE G == Given(s)
<1> DEFINE New == DOMAIN payments' \ DOMAIN payments
<1>0. /\ TypeOK /\ ContractStands /\ StatusTellsBalance /\ PaymentsHold
      /\ RequestsHold /\ Fresh
      /\ rows \in [Numbers -> Rows] /\ payments \in Seq(Payments)
      /\ \A m \in Numbers : rows[m].paid \in Nat
      /\ overtaken = 0 => NoGaps /\ AllBalanced
  BY Before
<1>1. /\ G \in SUBSET Numbers /\ Written(s, {}) /\ today' = today
      /\ rows' = [n \in Numbers |-> IF n \in G THEN Credited(rows[n], req[s].give[n]) ELSE rows[n]]
      /\ \A n \in G : Present(n) /\ req[s].give[n] \in Nat \ {0}
  BY <1>0, RequestType DEF CommitPayment, RequestsHold, RequestHolds, Given
<1>2. /\ payments' \in Seq(Payments) /\ SameAmounts(payments, payments')
      /\ \A p \in DOMAIN payments : p \in DOMAIN payments' /\ payments'[p] = payments[p]
      /\ \A q \in New : /\ payments'[q].row \in G \cup {0}
                        /\ payments'[q].to = payments'[q].row
                        /\ payments'[q].state = "live" /\ payments'[q].book = "POSTED"
      /\ \A n \in G : \E q \in New : /\ payments'[q].row = n /\ payments'[q].amount = req[s].give[n]
                                     /\ \A r \in New : payments'[r].row = n => r = q
  BY <1>0, PaymentsRecorded
<1>3. \A q \in DOMAIN payments' : q \in DOMAIN payments \/ q \in New
  OBVIOUS
<1>4. New \cap DOMAIN payments = {} /\ New \in SUBSET DOMAIN payments'
  OBVIOUS
<1> HIDE DEF G, New
<1>5. ASSUME NEW n \in Numbers
      PROVE  /\ rows'[n] \in Rows
             /\ n \notin G => rows'[n] = rows[n]
             /\ n \in G => /\ rows'[n].paid = rows[n].paid + req[s].give[n]
                           /\ rows'[n].status = StatusOf(rows'[n].paid)
             /\ Present(n)' <=> Present(n)
  <2>1. CASE n \notin G
    BY <1>0, <1>1, <2>1 DEF Present
  <2>2. CASE n \in G
    <3> DEFINE paid == rows[n].paid + req[s].give[n]
    <3>1. paid \in Nat
      BY <1>0, <1>1, <2>2
    <3>2. rows'[n] = [status |-> StatusOf(paid), paid |-> paid]
      BY <1>1, <2>2 DEF Credited
    <3>3. StatusOf(paid) \in Unpaid \cup {"PAID"}
      BY <3>1, StatusOfType
    <3> HIDE DEF paid
    <3>4. rows'[n] \in Rows /\ Present(n)'
      BY <3>1, <3>2, <3>3 DEF Rows, Unpaid, Present
    <3> QED BY <1>1, <2>2, <3>2, <3>4 DEF paid
  <2> QED BY <2>1, <2>2
<1>6. rows' \in [Numbers -> Rows]
  BY <1>1, <1>5
<1>7. StatusTellsBalance'
  BY <1>0, <1>5 DEF StatusTellsBalance, StatusOf
<1>8. PaymentsHold'
  <2> SUFFICES ASSUME NEW q \in DOMAIN payments' PROVE PaymentHolds(payments[q])'
    BY DEF PaymentsHold
  <2>1. CASE q \in DOMAIN payments
    <3>1. PaymentHolds(payments[q]) /\ payments[q].row \in Numbers \cup {0}
      BY <1>0, <2>1, PaymentFields DEF PaymentsHold
    <3> QED BY <1>2, <1>5, <2>1, <3>1 DEF PaymentHolds
  <2>2. CASE q \in New
    <3>1. payments'[q].row \in G => Present(payments[q].row)'
      BY <1>1, <1>5
    <3> QED BY <1>2, <2>2, <3>1 DEF PaymentHolds
  <2> QED BY <1>3, <2>1, <2>2
<1>9. ASSUME overtaken = 0
      PROVE  NoGaps' /\ AllBalanced'
  <2>1. NoGaps'
    <3>1. \A m \in Numbers : 1..m \in SUBSET Numbers
      BY LoanPaymentsAssumption DEF Numbers
    <3> QED BY <1>0, <1>5, <1>9, <3>1 DEF NoGaps
  <2>2. AllBalanced'
    <3> SUFFICES ASSUME NEW n \in Numbers PROVE Balanced(payments', n, rows'[n].paid)
      BY DEF AllBalanced
    <3>1. Balanced(payments, n, rows[n].paid) /\ rows[n].paid \in Nat /\ n # 0
      BY <1>0, <1>9, NumbersAre DEF AllBalanced
    <3>2. ErasedIn(payments', n) = ErasedIn(payments, n)
      BY <1>2, <1>3, <1>4 DEF ErasedIn
    <3>3. CASE n \notin G
      <4>1. LiveIn(payments', n) = LiveIn(payments, n)
        BY <1>2, <1>3, <3>1, <3>3 DEF LiveIn
      <4>2. rows'[n].paid = rows[n].paid
        BY <1>5, <3>3
      <4> QED BY <1>0, <1>2, <3>1, <3>2, <4>1, <4>2, BalanceKept
    <3>4. CASE n \in G
      <4>1. PICK q \in New : /\ payments'[q].row = n /\ payments'[q].amount = req[s].give[n]
                             /\ \A r \in New : payments'[r].row = n => r = q
        BY <1>2, <3>4
      <4>2. q \in DOMAIN payments' /\ q \notin DOMAIN payments
        BY <1>4, <4>1
      <4>3. LiveIn(payments', n) = LiveIn(payments, n) \cup {q}
        BY <1>2, <1>3, <4>1, <4>2 DEF LiveIn
      <4>4. Balanced(payments', n, rows[n].paid + payments'[q].amount)
        BY <1>0, <1>2, <3>1, <3>2, <4>2, <4>3, BalanceWith
      <4> QED BY <1>5, <3>4, <4>1, <4>4
    <3> QED BY <3>3, <3>4
  <2> QED BY <2>1, <2>2
<1>10. /\ {} \in SUBSET Numbers /\ \A m \in {} : m > Term
       /\ \A n \in Numbers \ {} : Present(n) => Present(n)'
  BY <1>5
<1> QED BY <1>1, <1>2, <1>6, <1>7, <1>8, <1>9, <1>10, WriteKeeps

-----------------------------------------------------------------------------
(* The invariant. *)

LEMMA InitHolds == Init => IInv
<1> SUFFICES ASSUME Init PROVE IInv
  OBVIOUS
<1>0. /\ \A n \in Numbers : rows[n] = IF n <= Term THEN [status |-> "PENDING", paid |-> 0] ELSE NoRow
      /\ payments = <<>> /\ \A s \in Sessions : req[s] = Idle
      /\ Numbers \in SUBSET Nat /\ overtaken = 0
  BY NumbersAre DEF Init
<1>1. TypeOK
  <2>1. rows \in [Numbers -> Rows]
    BY DEF Init, Rows, NoRow, Unpaid
  <2> QED BY <2>1, IdleType, LoanPaymentsAssumption DEF Init, TypeOK
<1>2. \A n \in Numbers : Present(n) <=> n <= Term
  BY <1>0, LoanPaymentsAssumption DEF Present, NoRow
<1>3. ContractStands /\ NumbersRunOn
  BY <1>0, <1>2, LoanPaymentsAssumption DEF ContractStands, NumbersRunOn, NoGaps, Numbers
<1>4. StatusTellsBalance
  BY <1>0, <1>2, LoanPaymentsAssumption DEF StatusTellsBalance, StatusOf
<1>5. PaymentsHold
  BY <1>0 DEF PaymentsHold
<1>6. RequestsHold /\ Fresh
  <2>1. Idle.at = "idle"
    BY DEF Idle
  <2> QED BY <1>0, <2>1 DEF RequestsHold, RequestHolds, Fresh
<1>7. PaidIsLivePayments
  <2> SUFFICES ASSUME NEW n \in Numbers PROVE Balanced(payments, n, rows[n].paid)
    BY PaidIsBalance
  <2>1. rows[n].paid = 0
    BY <1>0 DEF NoRow
  <2>2. LiveIn(payments, n) = {} /\ payments \in Seq(Payments)
    BY <1>0 DEF LiveIn
  <2> QED BY <2>1, <2>2, BalanceOfNothing
<1> QED BY <1>1, <1>3, <1>4, <1>5, <1>6, <1>7 DEF IInv

LEMMA StutterKeeps == IInv /\ UNCHANGED vars => IInv'
<1> SUFFICES ASSUME IInv, UNCHANGED vars PROVE IInv'
  OBVIOUS
<1>1. /\ rows' = rows /\ payments' = payments /\ req' = req /\ today' = today
      /\ overtaken' = overtaken
  BY DEF vars
<1>2. \A s : Given(s)' = Given(s)
  BY <1>1 DEF Given
<1>3. RequestsHold'
  BY <1>1, <1>2, SameReads DEF IInv, RequestsHold, RequestHolds
<1>4. Fresh'
  <2> SUFFICES ASSUME NEW s \in Sessions, req[s].at # "idle", ~req[s].stale PROVE ReadsNow(s)'
    BY <1>1 DEF Fresh
  <2>1. ReadsNow(s)
    BY DEF IInv, Fresh
  <2> QED BY <1>1, <1>2, <2>1, SameReads DEF ReadsNow
<1>5. TypeOK' /\ ContractStands' /\ NumbersRunOn' /\ StatusTellsBalance' /\ PaymentsHold'
  BY <1>1 DEF IInv, TypeOK, ContractStands, NumbersRunOn, NoGaps, StatusTellsBalance,
              PaymentsHold, PaymentHolds, Present
<1>6. PaidIsLivePayments'
  BY <1>1 DEF IInv, PaidIsLivePayments, SumOver, LivePaymentsOn, Erased
<1> QED BY <1>3, <1>4, <1>5, <1>6 DEF IInv

LEMMA NextKeeps == IInv /\ [Next]_vars => IInv'
<1> SUFFICES ASSUME IInv, [Next]_vars PROVE IInv'
  OBVIOUS
<1>1. ASSUME NEW s \in Sessions, NEW n \in Numbers, NEW a \in Amounts, ReadPayment(s, n, a)
      PROVE  IInv'
  BY <1>1, ReadPaymentKeeps
<1>2. ASSUME NEW s \in Sessions, NEW n \in Numbers,
             ReadUndo(s, n) \/ UndoCollection(s, n) \/ ReadDelete(s, n)
      PROVE  IInv'
  BY <1>2, ReadUndoKeeps, UndoCollectionKeeps, ReadDeleteKeeps
<1>3. ASSUME NEW s \in Sessions, NEW a \in Amounts, ReadUnallocated(s, a)
      PROVE  IInv'
  BY <1>3, ReadUnallocatedKeeps
<1>4. ASSUME NEW s \in Sessions, CommitPayment(s) \/ CommitUndo(s)
      PROVE  IInv'
  BY <1>4, CommitPaymentKeeps, CommitUndoKeeps
<1>5. ASSUME NEW s \in Sessions, ReadAdd(s) \/ AddInstallment(s) \/ DeleteInstallment(s)
      PROVE  IInv'
  BY <1>5, ReadAddKeeps, AddInstallmentKeeps, DeleteInstallmentKeeps
<1>6. ASSUME NEW s \in Sessions, PaymentRefused(s) \/ AddConflict(s)
      PROVE  IInv'
  BY <1>6, RefusedKeeps DEF PaymentRefused, AddConflict
<1>7. CASE NextDay
  BY <1>7, NextDayKeeps
<1>8. CASE UNCHANGED vars
  BY <1>8, StutterKeeps
<1> QED BY <1>1, <1>2, <1>3, <1>4, <1>5, <1>6, <1>7, <1>8 DEF Next

(* The inductive invariant: types, the order of the numbers, the status of *)
(* each installment, and what its payments and the ledger add up to, with  *)
(* what the requests between their read and their write still owe to it.   *)
THEOREM InvariantHolds == Spec => []IInv
BY InitHolds, NextKeeps, PTL DEF Spec

(* Every state is of its type.                                             *)
THEOREM TypeCorrect == Spec => []TypeOK
<1>1. IInv => TypeOK
  BY DEF IInv
<1> QED BY <1>1, InvariantHolds, PTL

(* As long as no request wrote over another's write, an installment's      *)
(* paid_amount is what its live payments add up to, and never more even    *)
(* where the loan page's undo subtracted a cancelled payment again.        *)
THEOREM BalancesAddUp == Spec => []PaidIsLivePayments
<1>1. IInv => PaidIsLivePayments
  BY DEF IInv
<1> QED BY <1>1, InvariantHolds, PTL

(* The installments of the contract stay, whatever interleaves, and the    *)
(* numbers run on without a gap as long as no write was overtaken.         *)
THEOREM NumbersStay == Spec => []ScheduleHasNoGaps
<1>1. IInv => ScheduleHasNoGaps
  BY DEF IInv, ContractStands, NumbersRunOn, NoGaps, ScheduleHasNoGaps
<1> QED BY <1>1, InvariantHolds, PTL

(* Whatever interleaves, an installment has the status its paid_amount     *)
(* implies.                                                                *)
THEOREM StatusIsTheBalance == Spec => []StatusTellsBalance
<1>1. IInv => StatusTellsBalance
  BY DEF IInv
<1> QED BY <1>1, InvariantHolds, PTL

(* What the ledger counts beyond the live payments is what the loan page's *)
(* undo deleted, payment by payment.                                       *)
THEOREM LedgerIsOffByDeletions == Spec => []LedgerExceedsByDeleted
<1>1. IInv => LedgerExceedsByDeleted
  <2> SUFFICES ASSUME IInv PROVE LedgerExceedsByDeleted
    OBVIOUS
  <2>1. {p \in DOMAIN payments : payments[p].book = "POSTED"} =
            {p \in DOMAIN payments : payments[p].state \in {"live", "deleted"}}
    BY DEF IInv, PaymentsHold, PaymentHolds
  <2> QED BY <2>1 DEF LedgerExceedsByDeleted
<1> QED BY <1>1, InvariantHolds, PTL

-----------------------------------------------------------------------------
(* Money clears the oldest debt first. *)

(* What is owed before installment n counts an earlier one that the        *)
(* payment takes, with all that is owed before it.                         *)
LEMMA OwedBeforeGrows ==
    ASSUME TypeOK, NEW n \in Numbers, NEW m \in 1..n - 1, NEW clicked,
           Takes(m, clicked), Owed(m) > 0
    PROVE  /\ OwedBefore(m, clicked) \in Nat /\ OwedBefore(n, clicked) \in Nat
           /\ OwedBefore(n, clicked) >= OwedBefore(m, clicked) + Owed(m)
<1> DEFINE O == [k \in Numbers |-> Owed(k)]
<1> DEFINE B(k) == {x \in 1..k - 1 : Takes(x, clicked) /\ Owed(x) > 0}
<1>1. /\ m \in Nat /\ n \in Nat /\ m < n /\ m \in Numbers /\ 1..n - 1 \in SUBSET Numbers
      /\ \A k \in Numbers : Owed(k) \in Int
  <2>1. \A k \in Numbers : Owed(k) \in Int
    BY LoanPaymentsAssumption DEF TypeOK, Rows, Owed
  <2> QED BY <2>1, LoanPaymentsAssumption DEF Numbers
<1>2. B(m) \cup {m} \in SUBSET B(n) /\ m \notin B(m) /\ B(m) \in SUBSET B(n)
  BY <1>1
<1>3. \A x \in B(n) : O[x] \in Nat
  BY <1>1
<1>4. O[m] = Owed(m)
  BY <1>1
<1>5. B(n) \in SUBSET (1..n - 1)
  OBVIOUS
<1>6. /\ OwedBefore(m, clicked) = SumFunctionOnSet(O, B(m))
      /\ OwedBefore(n, clicked) = SumFunctionOnSet(O, B(n))
  BY DEF OwedBefore
<1> HIDE DEF O, B
<1>7. IsFiniteSet(B(n))
  <2>1. IsFiniteSet(1..n - 1)
    BY <1>1, FS_Interval
  <2> QED BY <1>5, <2>1, FS_Subset
<1>8. IsFiniteSet(B(m)) /\ \A x \in B(m) : O[x] \in Nat
  BY <1>2, <1>3, <1>7, FS_Subset
<1>9. SumFunctionOnSet(O, B(m)) \in Nat /\ SumFunctionOnSet(O, B(n)) \in Nat
  BY <1>3, <1>7, <1>8, SumIsNatural
<1>10. SumFunctionOnSet(O, B(m) \cup {m}) = SumFunctionOnSet(O, B(m)) + O[m]
  <2>1. IntegersOn(O, B(m)) /\ O[m] \in Int
    BY <1>1, <1>4, <1>8 DEF IntegersOn
  <2> QED BY <1>2, <2>1, SumWith
<1>11. SumFunctionOnSet(O, B(m) \cup {m}) <= SumFunctionOnSet(O, B(n))
  BY <1>2, <1>3, <1>7, SumOfPart
<1> QED BY <1>1, <1>4, <1>6, <1>9, <1>10, <1>11

(* An installment that the money reaches past is paid in full.             *)
LEMMA AllocatedInFull ==
    ASSUME TypeOK, NEW n \in Numbers, NEW m \in 1..n - 1, NEW clicked \in Numbers,
           NEW amount \in Nat, Allocated(n, clicked, amount) > 0,
           Takes(m, clicked), Owed(m) > 0
    PROVE  Allocated(m, clicked, amount) = Owed(m)
<1>0. Owed(m) \in Nat /\ Dust \in Nat /\ m \in Numbers
  <2>1. m \in Numbers
    BY LoanPaymentsAssumption DEF Numbers
  <2> QED BY <2>1, LoanPaymentsAssumption DEF TypeOK, Rows, Owed
<1>1. OwedBefore(n, clicked) + Dust < amount
  BY AllocatedIsTaken
<1>2. /\ OwedBefore(m, clicked) \in Nat /\ OwedBefore(n, clicked) \in Nat
      /\ OwedBefore(n, clicked) >= OwedBefore(m, clicked) + Owed(m)
  BY OwedBeforeGrows
<1>3. \A unit \in 1..Owed(m) : /\ OwedBefore(m, clicked) + Dust < amount
                               /\ OwedBefore(m, clicked) + unit <= amount
  BY <1>0, <1>1, <1>2
<1>4. {unit \in 1..Owed(m) : /\ Takes(m, clicked)
                             /\ OwedBefore(m, clicked) + Dust < amount
                             /\ OwedBefore(m, clicked) + unit <= amount} = 1..Owed(m)
  BY <1>3
<1>5. Cardinality(1..Owed(m)) = Owed(m)
  BY <1>0, FS_Interval
<1> QED BY <1>4, <1>5 DEF Allocated

(* Only the commit of a payment records any.                               *)
LEMMA PaidIsCommitted ==
    ASSUME IInv, Next, NEW s \in JustPaid
    PROVE  s \in Sessions /\ CommitPayment(s)
<1>0. /\ s \in Sessions /\ req[s].at = "paying" /\ Len(payments') > Len(payments)
      /\ req'[s].at = "idle"
  BY DEF JustPaid
<1>1. payments \in Seq(Payments) /\ payments' \in Seq(Payments)
  BY NextKeeps DEF IInv, TypeOK
<1>2. DOMAIN payments' # DOMAIN payments
  <2>1. /\ DOMAIN payments = 1..Len(payments) /\ DOMAIN payments' = 1..Len(payments')
        /\ Len(payments) \in Nat /\ Len(payments') \in Nat
    BY <1>1, LenProperties
  <2>2. Len(payments') \in 1..Len(payments') /\ Len(payments') \notin 1..Len(payments)
    BY <1>0, <2>1
  <2> QED BY <2>1, <2>2
<1>3. ASSUME NEW t \in Sessions, CommitPayment(t), t # s
      PROVE  FALSE
  <2>1. TypeOK /\ Written(t, {}) /\ {} \in SUBSET Numbers
    BY <1>3 DEF IInv, CommitPayment
  <2>2. req'[s].at = req[s].at
    BY <1>0, <1>3, <2>1, OthersStayAtTheirStep DEF Disturbed
  <2> QED BY <1>0, <2>2
<1>4. ASSUME NEW t \in Sessions, NEW n \in Numbers
      PROVE  ~(\E a \in Amounts : ReadPayment(t, n, a)) /\ ~ReadUndo(t, n) /\ ~ReadDelete(t, n)
  BY <1>2 DEF ReadPayment, ReadUndo, ReadDelete, Read
<1>5. ASSUME NEW t \in Sessions
      PROVE  /\ ~(\E a \in Amounts : ReadUnallocated(t, a)) /\ ~PaymentRefused(t) /\ ~ReadAdd(t)
             /\ ~AddInstallment(t) /\ ~AddConflict(t)
  BY <1>2 DEF ReadUnallocated, PaymentRefused, ReadAdd, AddInstallment, AddConflict, Read, Refused
<1>6. ASSUME NEW t \in Sessions
      PROVE  ~CommitUndo(t) /\ ~DeleteInstallment(t)
  BY <1>2 DEF CommitUndo, DeleteInstallment
<1>7. ASSUME NEW t \in Sessions, NEW n \in Numbers
      PROVE  ~UndoCollection(t, n)
  BY <1>2 DEF UndoCollection
<1>8. ~NextDay
  BY <1>2 DEF NextDay
<1>9. \E t \in Sessions : CommitPayment(t)
  BY <1>4, <1>5, <1>6, <1>7, <1>8 DEF Next
<1> QED BY <1>0, <1>3, <1>9

(* A payment that nothing overtook leaves no installment due by today open *)
(* before any it pays.                                                     *)
THEOREM OldestDebtFirst == Spec => ArrearsFirst
<1>1. ASSUME IInv, [Next]_vars
      PROVE  [\A s \in JustPaid : ~req[s].stale =>
                 \A n \in JustSettled : \A m \in 1..n - 1 :
                     m <= today => rows'[m].status \notin Unpaid]_vars
  <2> SUFFICES ASSUME Next, NEW s \in JustPaid, ~req[s].stale,
                      NEW n \in JustSettled, NEW m \in 1..n - 1, m <= today,
                      rows'[m].status \in Unpaid
               PROVE  FALSE
    BY <1>1
  <2>0. TypeOK /\ StatusTellsBalance /\ RequestsHold /\ Fresh
    BY <1>1 DEF IInv
  <2>1. s \in Sessions /\ CommitPayment(s)
    BY <1>1, PaidIsCommitted
  <2> DEFINE c == req[s].row
  <2> DEFINE a == req[s].cash
  <2>2. n \in Given(s)
    <3>1. PICK q \in DOMAIN payments' \ DOMAIN payments : payments'[q].to = n /\ n # 0
      BY DEF JustSettled
    <3> QED BY <2>0, <2>1, <3>1, PaymentsRecorded
  <2>3. /\ Given(s) \in SUBSET Numbers /\ n \in Numbers /\ m \in Numbers
        /\ a \in Nat /\ req[s].give \in [Numbers -> Nat]
    <3>1. n \in Numbers
      BY <2>0, <2>1, <2>2, RequestType
    <3>2. m \in Numbers
      BY <3>1, LoanPaymentsAssumption DEF Numbers
    <3> QED BY <2>0, <2>1, <3>1, <3>2, RequestType
  <2>4. req[s].give = [k \in Numbers |-> Allocated(k, c, a)]
    BY <2>0, <2>1, <2>2 DEF Fresh, ReadsNow, CommitPayment
  <2>5. c \in Numbers
    <3>1. c \in Numbers \cup {0}
      BY <2>0, <2>1, RequestType
    <3> QED BY <2>0, <2>1, <2>2, <3>1 DEF Fresh, ReadsNow, CommitPayment
  <2> HIDE DEF c, a
  <2>6. Allocated(n, c, a) > 0
    BY <2>2, <2>3, <2>4 DEF Given
  <2>7. rows'[m] = IF m \in Given(s) THEN Credited(rows[m], req[s].give[m]) ELSE rows[m]
    BY <2>1, <2>3 DEF CommitPayment
  <2>8. rows[m].paid \in Nat /\ Owed(m) = Total - rows[m].paid /\ Total \in Nat \ {0}
    BY <2>0, <2>3, LoanPaymentsAssumption DEF TypeOK, Rows, Owed
  <2>9. CASE m \in Given(s)
    <3>1. Allocated(m, c, a) > 0 /\ req[s].give[m] = Allocated(m, c, a)
      BY <2>3, <2>4, <2>9 DEF Given
    <3>2. Takes(m, c) /\ Owed(m) > 0
      BY <2>0, <2>3, <2>5, <3>1, AllocatedIsTaken
    <3>3. Allocated(m, c, a) = Owed(m)
      BY <2>0, <2>3, <2>5, <2>6, <3>2, AllocatedInFull
    <3>4. rows'[m].status = StatusOf(Total)
      BY <2>7, <2>8, <2>9, <3>1, <3>3 DEF Credited
    <3> QED BY <2>8, <3>4 DEF StatusOf, Unpaid
  <2>10. CASE m \notin Given(s)
    <3>1. Present(m) /\ rows[m].status = StatusOf(rows[m].paid) /\ rows[m].status \in Unpaid
      BY <2>0, <2>3, <2>7, <2>10 DEF StatusTellsBalance, Present, Unpaid
    <3>2. Takes(m, c)
      BY <3>1 DEF Takes
    <3>3. Owed(m) > 0
      BY <2>8, <3>1 DEF StatusOf, Unpaid
    <3>4. Allocated(m, c, a) = Owed(m)
      BY <2>0, <2>3, <2>5, <2>6, <3>2, <3>3, AllocatedInFull
    <3> QED BY <2>3, <2>4, <2>10, <3>3, <3>4 DEF Given
  <2> QED BY <2>9, <2>10
<1> QED BY <1>1, InvariantHolds, PTL DEF Spec, ArrearsFirst

-----------------------------------------------------------------------------
(* A removal spares the payments it saw. *)

\* A payment counts for less as time goes by: it may lose its installment, be cancelled
\* or deleted, and never comes back.
PaymentsGoOn ==
    /\ DOMAIN payments \in SUBSET DOMAIN payments'
    /\ \A p \in DOMAIN payments :
          /\ payments'[p].to = payments[p].to
          /\ payments'[p].row \in {0, payments[p].row}
          /\ payments'[p].state = "live" => payments[p].state = "live"
          /\ payments[p].state \in {"cancelled", "erased"} =>
                payments'[p].state \in {"cancelled", "erased"}
          /\ payments[p].state = "erased" => payments'[p].state = "erased"

\* The payment that s undoes was cancelled before, and so is subtracted twice.
UndoesCancelled(s) ==
    /\ req[s].pay \in DOMAIN payments
    /\ payments[req[s].pay].to = req[s].row
    /\ payments[req[s].pay].state \in {"cancelled", "erased"}

LiveSeen(s) == {p \in LivePaymentsOn(req[s].row) : p <= req[s].known}

\* What a removal under way knew of its installment, for good: the deletion that there
\* was no live payment on it, the undo that there was none but the one it takes back.
SeenHolds(s) ==
    /\ req[s].at \in {"deleting", "undoing"} => req[s].known <= Len(payments)
    /\ req[s].at = "deleting" => LiveSeen(s) = {}
    /\ req[s].at = "undoing" /\ req[s].remove /\ ~req[s].misled =>
          \/ LiveSeen(s) \in SUBSET {req[s].pay}
          \/ Retaken(req[s].row)
          \/ UndoesCancelled(s)
Seen == \A s \in Sessions : SeenHolds(s)

\* One of the two, by s.
RemovalBegins(s) == \E n \in Numbers : ReadUndo(s, n) \/ ReadDelete(s, n)
Removal(s) == DeleteInstallment(s) \/ CommitUndo(s)

LEMMA SamePaymentsGoOn == ASSUME TypeOK, payments' = payments PROVE PaymentsGoOn
BY DEF PaymentsGoOn

(* No step but a removal takes a payment's installment away.               *)
LEMMA StepKeepsPayments ==
    ASSUME IInv, [Next]_vars
    PROVE  /\ PaymentsGoOn
           /\ \/ \E s \in Sessions : Removal(s)
              \/ \A p \in DOMAIN payments : payments'[p].row = payments[p].row
<1>0. TypeOK /\ RequestsHold
  BY DEF IInv
<1>1. ASSUME NEW s \in Sessions, CommitPayment(s)
      PROVE  PaymentsGoOn /\ \A p \in DOMAIN payments : payments'[p].row = payments[p].row
  <2>1. \A p \in DOMAIN payments : p \in DOMAIN payments' /\ payments'[p] = payments[p]
    BY <1>0, <1>1, PaymentsRecorded
  <2> QED BY <2>1 DEF PaymentsGoOn
<1>2. ASSUME NEW s \in Sessions, NEW n \in Numbers, UndoCollection(s, n)
      PROVE  PaymentsGoOn /\ \A p \in DOMAIN payments : payments'[p].row = payments[p].row
  <2> DEFINE c == Max(LivePaymentsOn(n))
  <2>1. c \in DOMAIN payments /\ payments[c].state = "live"
    <3>1. LivePaymentsOn(n) \in SUBSET DOMAIN payments
      BY DEF LivePaymentsOn
    <3>2. c \in LivePaymentsOn(n)
      BY <1>0, <1>2, <3>1, LatestIsOne DEF UndoCollection
    <3> QED BY <3>2 DEF LivePaymentsOn
  <2>2. payments' = [payments EXCEPT ![c].state = "cancelled", ![c].book = "REVERSED"]
    BY <1>2 DEF UndoCollection, BookAfterCancel
  <2> HIDE DEF c
  <2> QED BY <1>0, <2>1, <2>2, PaymentsAfterCancel DEF PaymentsGoOn
<1>3. ASSUME NEW s \in Sessions, DeleteInstallment(s)
      PROVE  PaymentsGoOn
  BY <1>0, <1>3, PaymentsAfterDelete DEF PaymentsGoOn
<1>4. ASSUME NEW s \in Sessions, CommitUndo(s)
      PROVE  PaymentsGoOn
  BY <1>0, <1>4, PaymentFields, PaymentsAfterUndo DEF PaymentsGoOn
<1>5. ASSUME payments' = payments
      PROVE  PaymentsGoOn /\ \A p \in DOMAIN payments : payments'[p].row = payments[p].row
  BY <1>0, <1>5, SamePaymentsGoOn
<1>6. ASSUME NEW s \in Sessions, NEW n \in Numbers,
             \/ \E a \in Amounts : ReadPayment(s, n, a)
             \/ ReadUndo(s, n) \/ ReadDelete(s, n)
      PROVE  payments' = payments
  BY <1>6 DEF ReadPayment, ReadUndo, ReadDelete, Read
<1>7. ASSUME NEW s \in Sessions,
             \/ \E a \in Amounts : ReadUnallocated(s, a)
             \/ PaymentRefused(s) \/ ReadAdd(s) \/ AddInstallment(s) \/ AddConflict(s)
      PROVE  payments' = payments
  BY <1>7 DEF ReadUnallocated, PaymentRefused, ReadAdd, AddInstallment, AddConflict, Read, Refused
<1>8. NextDay \/ UNCHANGED vars => payments' = payments
  BY DEF NextDay, vars
<1> QED BY <1>1, <1>2, <1>3, <1>4, <1>5, <1>6, <1>7, <1>8 DEF Next, Removal

(* A removal under way goes on with what it saw, until it ends; another    *)
(* one begins only where its request reads.                                *)
LEMMA StepKeepsRemovals ==
    ASSUME IInv, [Next]_vars, NEW s \in Sessions, req'[s].at \in {"deleting", "undoing"}
    PROVE  \/ RemovalBegins(s)
           \/ /\ req'[s].at = req[s].at /\ req'[s].row = req[s].row
              /\ req'[s].pay = req[s].pay /\ req'[s].remove = req[s].remove
              /\ req'[s].known = req[s].known /\ req'[s].misled = req[s].misled
<1> DEFINE Same == /\ req'[s].at = req[s].at /\ req'[s].row = req[s].row
                   /\ req'[s].pay = req[s].pay /\ req'[s].remove = req[s].remove
                   /\ req'[s].known = req[s].known /\ req'[s].misled = req[s].misled
<1>0. TypeOK /\ req \in [Sessions -> Requests]
  BY DEF IInv, TypeOK
<1>1. ASSUME NEW t \in Sessions, NEW gone \in SUBSET Numbers, Written(t, gone)
      PROVE  Same
  <2>1. t # s
    <3>1. req'[t] = Idle
      BY <1>1 DEF Written
    <3> QED BY <3>1 DEF Idle
  <2>2. IF req[s].at = "idle" THEN req'[s] = req[s] ELSE Disturbed(req[s], req'[s])
    BY <1>0, <1>1, <2>1, OthersStayAtTheirStep
  <2> QED BY <2>2 DEF Disturbed
<1>2. ASSUME NEW t \in Sessions, NEW r, req' = [req EXCEPT ![t] = r], t # s
      PROVE  Same
  <2>1. req'[s] = req[s]
    BY <1>0, <1>2
  <2> QED BY <2>1
<1>3. ASSUME NEW r, req' = [req EXCEPT ![s] = r]
      PROVE  r.at \in {"deleting", "undoing"}
  BY <1>0, <1>3
<1>4. ASSUME NEW t \in Sessions, NEW n \in Numbers, NEW a \in Amounts, ReadPayment(t, n, a)
      PROVE  Same
  <2> DEFINE r == [Idle EXCEPT !.at = "paying", !.row = n, !.cash = a,
                   !.give = [m \in Numbers |-> Allocated(m, n, a)]]
  <2>1. req' = [req EXCEPT ![t] = r] /\ r.at = "paying"
    BY <1>4 DEF ReadPayment, Read, Idle
  <2> HIDE DEF r
  <2> QED BY <1>2, <1>3, <2>1
<1>5. ASSUME NEW t \in Sessions, NEW a \in Amounts, ReadUnallocated(t, a)
      PROVE  Same
  <2> DEFINE r == [Idle EXCEPT !.at = "paying", !.cash = a]
  <2>1. req' = [req EXCEPT ![t] = r] /\ r.at = "paying"
    BY <1>5 DEF ReadUnallocated, Read, Idle
  <2> HIDE DEF r
  <2> QED BY <1>2, <1>3, <2>1
<1>6. ASSUME NEW t \in Sessions, ReadAdd(t)
      PROVE  Same
  <2> DEFINE r == [Idle EXCEPT !.at = "adding", !.row = NextNumber]
  <2>1. req' = [req EXCEPT ![t] = r] /\ r.at = "adding"
    BY <1>6 DEF ReadAdd, Read, Idle
  <2> HIDE DEF r
  <2> QED BY <1>2, <1>3, <2>1
<1>7. ASSUME NEW t \in Sessions, NEW n \in Numbers, ReadUndo(t, n) \/ ReadDelete(t, n)
      PROVE  Same \/ RemovalBegins(s)
  <2>1. CASE t = s
    BY <1>7, <2>1 DEF RemovalBegins
  <2>2. CASE t # s
    <3>1. PICK r : req' = [req EXCEPT ![t] = r]
      BY <1>7 DEF ReadUndo, ReadDelete, Read
    <3> QED BY <1>2, <2>2, <3>1
  <2> QED BY <2>1, <2>2
<1>8. ASSUME NEW t \in Sessions, PaymentRefused(t) \/ AddConflict(t)
      PROVE  Same
  <2>1. req' = [req EXCEPT ![t] = Idle] /\ Idle.at = "idle"
    BY <1>8 DEF PaymentRefused, AddConflict, Refused, Idle
  <2> QED BY <1>2, <1>3, <2>1
<1>9. ASSUME NEW t \in Sessions, \/ CommitPayment(t) \/ AddInstallment(t)
                                 \/ \E n \in Numbers : UndoCollection(t, n)
      PROVE  Same
  <2>1. Written(t, {}) /\ {} \in SUBSET Numbers
    BY <1>9 DEF CommitPayment, AddInstallment, UndoCollection
  <2> QED BY <1>1, <2>1
<1>10. ASSUME NEW t \in Sessions, Removal(t)
       PROVE  Same
  <2>1. req[t].row \in Numbers
    BY <1>10 DEF IInv, RequestsHold, RequestHolds, Removal, DeleteInstallment, CommitUndo
  <2>2. PICK gone \in SUBSET {req[t].row} : Written(t, gone)
    BY <1>10 DEF Removal, DeleteInstallment, CommitUndo
  <2> QED BY <1>1, <2>1, <2>2
<1>11. CASE NextDay
  <2> DEFINE later == req'[s]
  <2>1. later = IF req[s].at = "idle" THEN req[s] ELSE [req[s] EXCEPT !.stale = TRUE]
    BY <1>11 DEF NextDay
  <2> HIDE DEF later
  <2>2. later = req[s] \/ Disturbed(req[s], later)
    BY <1>0, <2>1, MarkedStale
  <2> QED BY <2>2 DEF later, Disturbed
<1>12. CASE UNCHANGED vars
  BY <1>12 DEF vars
<1> QED BY <1>4, <1>5, <1>6, <1>7, <1>8, <1>9, <1>10, <1>11, <1>12 DEF Next, Removal

(* What a removal sees when it begins.                                     *)
LEMMA RemovalSees ==
    ASSUME IInv, IInv', NEW s \in Sessions, RemovalBegins(s)
    PROVE  SeenHolds(s)'
<1>0. /\ TypeOK /\ PaymentsHold /\ payments' = payments /\ Len(payments) \in Nat
      /\ req \in [Sessions -> Requests]
  BY DEF IInv, TypeOK, RemovalBegins, ReadUndo, ReadDelete, Read
<1>1. ASSUME NEW n \in Numbers, ReadDelete(s, n)
      PROVE  SeenHolds(s)'
  <2>1. req'[s] = [Idle EXCEPT !.at = "deleting", !.row = n, !.known = Len(payments)]
    BY <1>0, <1>1 DEF ReadDelete, Read
  <2>2. req'[s].at = "deleting" /\ req'[s].row = n /\ req'[s].known = Len(payments)
    BY <2>1 DEF Idle
  <2>3. LiveSeen(s)' = {}
    BY <1>0, <1>1, <2>2 DEF LiveSeen, LivePaymentsOn, ReadDelete, Removable, PaymentsOn
  <2> QED BY <1>0, <2>2, <2>3 DEF SeenHolds
<1>2. ASSUME NEW n \in Numbers, ReadUndo(s, n)
      PROVE  SeenHolds(s)'
  <2> DEFINE p == LastPayment(n)
  <2> DEFINE left == LeftAfterUndo(n, p)
  <2>1. /\ req'[s].at = "undoing" /\ req'[s].row = n /\ req'[s].known = Len(payments)
        /\ req'[s].pay = p
        /\ req'[s].misled <=> overtaken > 0
        /\ req'[s].remove => left = 0
    BY <1>0, <1>2 DEF ReadUndo, Read, Idle
  <2>2. /\ p \in DOMAIN payments /\ payments[p].row = n
        /\ payments[p].state \in {"live", "cancelled"}
    <3>1. PaymentsOn(n) \in SUBSET DOMAIN payments /\ PaymentsOn(n) # {}
      BY <1>2 DEF PaymentsOn, ReadUndo
    <3>2. p \in PaymentsOn(n)
      BY <1>0, <3>1, LatestIsOne DEF LastPayment
    <3> QED BY <3>2 DEF PaymentsOn
  <2> HIDE DEF p
  <2>3. ASSUME overtaken = 0, left = 0
        PROVE  \/ LiveSeen(s)' \in SUBSET {p}
               \/ Retaken(n)' \/ UndoesCancelled(s)'
    <3>1. n # 0 /\ \A q \in DOMAIN payments : payments[q].row = n => payments[q].to = n
      BY <1>0, NumbersAre DEF PaymentsHold, PaymentHolds
    <3>2. CASE payments[p].state = "cancelled"
      BY <1>0, <2>1, <2>2, <3>1, <3>2 DEF UndoesCancelled
    <3>3. CASE ErasedIn(payments, n) # {}
      BY <1>0, <3>1, <3>3 DEF ErasedIn, Retaken
    <3>4. CASE payments[p].state = "live" /\ ErasedIn(payments, n) = {}
      <4>1. Balanced(payments, n, rows[n].paid) /\ p \in LiveIn(payments, n)
        BY <2>2, <2>3, <3>4, Before DEF AllBalanced, LiveIn
      <4>2. \A q \in LiveIn(payments, n) : q = p
        BY <1>0, <2>3, <3>4, <4>1, TwoPaymentsLeaveSome
      <4>3. LiveSeen(s)' \in SUBSET LiveIn(payments, n)
        BY <1>0, <2>1 DEF LiveSeen, LivePaymentsOn, LiveIn
      <4> QED BY <4>2, <4>3
    <3> QED BY <2>2, <3>2, <3>3, <3>4
  <2>4. overtaken \in Nat
    BY <1>0 DEF TypeOK
  <2> QED BY <1>0, <2>1, <2>3, <2>4 DEF SeenHolds
<1> QED BY <1>1, <1>2 DEF RemovalBegins

LEMMA SeenKept ==
    ASSUME IInv, IInv', Seen, [Next]_vars
    PROVE  Seen'
<1> SUFFICES ASSUME NEW s \in Sessions, req'[s].at \in {"deleting", "undoing"},
                    ~RemovalBegins(s)
             PROVE  SeenHolds(s)'
  BY RemovalSees DEF Seen, SeenHolds
<1>1. /\ req'[s].at = req[s].at /\ req'[s].row = req[s].row
      /\ req'[s].pay = req[s].pay /\ req'[s].remove = req[s].remove
      /\ req'[s].known = req[s].known /\ req'[s].misled = req[s].misled
  BY StepKeepsRemovals
<1>2. SeenHolds(s) /\ PaymentsGoOn
  BY StepKeepsPayments DEF Seen
<1>3. /\ Len(payments) \in Nat /\ DOMAIN payments = 1..Len(payments)
      /\ Len(payments') \in Nat /\ DOMAIN payments' = 1..Len(payments')
      /\ req[s].known \in Nat /\ req[s].row \in Numbers
  <2>1. TypeOK /\ TypeOK' /\ RequestHolds(s)
    BY DEF IInv, RequestsHold
  <2>2. req[s].row \in Numbers
    BY <1>1, <2>1 DEF RequestHolds
  <2> QED BY <2>1, <2>2, RequestType DEF TypeOK
<1>4. Len(payments) <= Len(payments')
  BY <1>2, <1>3 DEF PaymentsGoOn
<1>5. LiveSeen(s)' \in SUBSET LiveSeen(s)
  <2> SUFFICES ASSUME NEW p \in DOMAIN payments', payments'[p].row = req[s].row,
                      payments'[p].state = "live", p <= req[s].known
               PROVE  p \in LiveSeen(s)
    BY <1>1 DEF LiveSeen, LivePaymentsOn
  <2>1. p \in DOMAIN payments
    BY <1>1, <1>2, <1>3 DEF SeenHolds
  <2> QED BY <1>2, <1>3, <2>1, NumbersAre DEF PaymentsGoOn, LiveSeen, LivePaymentsOn
<1>6. Retaken(req[s].row) => Retaken(req[s].row)'
  BY <1>1, <1>2 DEF PaymentsGoOn, Retaken
<1>7. UndoesCancelled(s) => UndoesCancelled(s)'
  BY <1>1, <1>2 DEF PaymentsGoOn, UndoesCancelled
<1> QED BY <1>1, <1>2, <1>3, <1>4, <1>5, <1>6, <1>7 DEF SeenHolds

(* A removal takes an installment only from under payments it had not      *)
(* seen, or from under all that a cancelled payment is subtracted from.    *)
LEMMA RemovalDetachesUnseen ==
    ASSUME IInv, Seen, NEW s \in Sessions, Removal(s), NEW p \in Detached
    PROVE  /\ req[s].at \in {"deleting", "undoing"} /\ req'[s].at = "idle"
           /\ \/ p > req[s].known
              \/ req[s].at = "undoing" /\ (req[s].misled \/ Retaken(payments[p].to)')
<1>0. /\ TypeOK /\ PaymentsHold /\ p \in DOMAIN payments
      /\ payments[p].state = "live" /\ payments'[p].state = "live"
      /\ payments[p].row # 0 /\ payments'[p].row = 0 /\ payments[p].to = payments[p].row
      /\ SeenHolds(s) /\ req[s].known \in Nat /\ p \in Nat
  <2>1. /\ TypeOK /\ PaymentsHold /\ p \in DOMAIN payments
        /\ payments[p].state = "live" /\ payments'[p].state = "live"
        /\ payments[p].row # 0 /\ payments'[p].row = 0 /\ SeenHolds(s)
    BY DEF IInv, Detached, Seen
  <2>2. payments[p].to = payments[p].row
    BY <2>1 DEF PaymentsHold, PaymentHolds
  <2>3. DOMAIN payments = 1..Len(payments) /\ Len(payments) \in Nat
    BY <2>1 DEF TypeOK
  <2> QED BY <2>1, <2>2, <2>3, RequestType
<1>1. req'[s].at = "idle"
  <2>1. req'[s] = Idle
    BY DEF Removal, DeleteInstallment, CommitUndo, Written
  <2> QED BY <2>1 DEF Idle
<1>2. CASE DeleteInstallment(s)
  <2>1. req[s].at = "deleting" /\ payments[p].row = req[s].row
    BY <1>0, <1>2, PaymentsAfterDelete DEF DeleteInstallment
  <2>2. p \notin LiveSeen(s)
    BY <1>0, <2>1 DEF SeenHolds
  <2> QED BY <1>0, <1>1, <2>1, <2>2 DEF LiveSeen, LivePaymentsOn
<1>3. CASE CommitUndo(s)
  <2>1. req[s].at = "undoing" /\ req[s].remove /\ payments[p].row = req[s].row
    BY <1>0, <1>3, PaymentsAfterUndo DEF CommitUndo
  <2>2. p # req[s].pay
    BY <1>0, <1>3, PaymentsAfterUndo
  <2>3. PaymentsGoOn
    BY <1>0, <1>3, PaymentFields, PaymentsAfterUndo DEF PaymentsGoOn
  <2>4. CASE LiveSeen(s) \in SUBSET {req[s].pay}
    BY <1>0, <1>1, <2>1, <2>2, <2>4 DEF LiveSeen, LivePaymentsOn
  <2>5. CASE Retaken(req[s].row)
    BY <1>0, <1>1, <2>1, <2>3, <2>5 DEF Retaken, PaymentsGoOn
  <2>6. CASE UndoesCancelled(s)
    BY <1>0, <1>1, <1>3, <2>1, <2>6, PaymentsAfterUndo DEF UndoesCancelled, Retaken
  <2> QED BY <1>0, <1>1, <2>1, <2>4, <2>5, <2>6 DEF SeenHolds
<1> QED BY <1>2, <1>3 DEF Removal

(* Whatever interleaves, a removal takes no installment from under a       *)
(* payment that was there when it looked, but for undos that read too low  *)
(* a paid_amount.  A payment committed between the check and the delete is *)
(* what remains, and it does lose its installment.                         *)
THEOREM RemovalsSpareWhatTheySaw == Spec => RemovalSparesWhatItSaw
<1>1. Init => Seen
  <2> SUFFICES ASSUME Init, NEW s \in Sessions PROVE SeenHolds(s)
    BY DEF Seen
  <2>1. req[s].at = "idle"
    BY DEF Init, Idle
  <2> QED BY <2>1 DEF SeenHolds
<1>2. IInv /\ IInv' /\ Seen /\ [Next]_vars => Seen'
  BY SeenKept
<1>3. ASSUME IInv, Seen, [Next]_vars
      PROVE  [\A p \in Detached : \E s \in Sessions :
                 /\ req[s].at \in {"deleting", "undoing"} /\ req'[s].at = "idle"
                 /\ \/ p > req[s].known
                    \/ req[s].at = "undoing" /\ (req[s].misled \/ Retaken(payments[p].to)')]_vars
  <2> SUFFICES ASSUME NEW p \in Detached
               PROVE  \E s \in Sessions :
                         /\ req[s].at \in {"deleting", "undoing"} /\ req'[s].at = "idle"
                         /\ \/ p > req[s].known
                            \/ /\ req[s].at = "undoing"
                               /\ req[s].misled \/ Retaken(payments[p].to)'
    OBVIOUS
  <2>1. ~(\A q \in DOMAIN payments : payments'[q].row = payments[q].row)
    BY DEF Detached
  <2>2. PICK s \in Sessions : Removal(s)
    BY <1>3, <2>1, StepKeepsPayments
  <2> QED BY <1>3, <2>2, RemovalDetachesUnseen
<1> QED BY <1>1, <1>2, <1>3, InvariantHolds, PTL DEF Spec, RemovalSparesWhatItSaw

=============================================================================
