---------------------------- MODULE Schedules_proofs ----------------------------
(***************************************************************************)
(* What TLAPS proves of the schedules, for any loans, amounts and orders   *)
(* of payments, misses and resolutions: every invariant of Schedules.      *)
(*                                                                         *)
(* ContractsAddUp is about what the schedules compute.  A definition that  *)
(* recurs over 0..n is shown to have one solution, by induction over the   *)
(* interval, from which its equations follow; with them the sums telescope,*)
(* and the closed form of a reducing balance bounds what rounding takes.   *)
(*                                                                         *)
(* The others are about the projection.  It is one turn of the loop after  *)
(* another, ProjectionInduction, so that each follows from an invariant of *)
(* the loop: AsContracted, PaidWholeSoFar, OnTimeSoFar (what is owed is no *)
(* more than what the periods left and their add-ons will bring), and, for *)
(* two projections turned together, SideBySide.                            *)
(***************************************************************************)
EXTENDS Schedules, SumTheorems

-----------------------------------------------------------------------------
(* Rounding, and recursion over 0..n. *)

(* Math.round is off by half at most.                                      *)
LEMMA RoundDivBounds ==
    ASSUME NEW a \in Int, NEW b \in Nat \ {0}
    PROVE  /\ RoundDiv(a, b) \in Int
           /\ 2 * b * RoundDiv(a, b) <= 2 * a + b
           /\ 2 * a - b < 2 * b * RoundDiv(a, b)
BY DEF RoundDiv

(* Math.ceil is off by less than one.                                      *)
LEMMA CeilDivBounds ==
    ASSUME NEW a \in Int, NEW b \in Nat \ {0}
    PROVE  /\ CeilDiv(a, b) \in Int
           /\ a <= b * CeilDiv(a, b)
           /\ b * CeilDiv(a, b) < a + b
BY DEF CeilDiv

(* Whole-number division, as the provers use it.                           *)
LEMMA DivBounds ==
    ASSUME NEW a \in Int, NEW b \in Nat \ {0}
    PROVE  a \div b \in Int /\ b * (a \div b) <= a /\ a < b * (a \div b) + b
OBVIOUS

(* What is nearer to zero than half a unit is rounded to zero or up.       *)
LEMMA RoundDivNonnegative ==
    ASSUME NEW a \in Int, NEW b \in Nat \ {0}, 0 <= 2 * a + b
    PROVE  RoundDiv(a, b) >= 0
<1>1. PICK r \in Int : r = RoundDiv(a, b) /\ 2 * a - b < 2 * b * r
  BY RoundDivBounds
<1>2. r < 0 => 2 * b * r <= - 2 * b
  OBVIOUS
<1>3. QED
  BY <1>1, <1>2

(* A bound by a whole number survives rounding.                            *)
LEMMA RoundDivAtMost ==
    ASSUME NEW a \in Int, NEW b \in Nat \ {0}, NEW c \in Int, a <= b * c
    PROVE  RoundDiv(a, b) <= c
<1>1. PICK r \in Int : r = RoundDiv(a, b) /\ 2 * b * r <= 2 * a + b
  BY RoundDivBounds
<1>2. r > c => 2 * b * r >= 2 * b * c + 2 * b
  <2>1. r > c => b * (r - c) >= b
    OBVIOUS
  <2>2. QED
    BY <2>1
<1>3. b * c \in Int
  OBVIOUS
<1>4. QED
  BY <1>1, <1>2, <1>3

(* Rounding keeps the order.                                               *)
LEMMA RoundDivMonotone ==
    ASSUME NEW a \in Int, NEW c \in Int, NEW b \in Nat \ {0}, a <= c
    PROVE  RoundDiv(a, b) <= RoundDiv(c, b)
<1>1. PICK r, s \in Int : /\ r = RoundDiv(a, b) /\ 2 * b * r <= 2 * a + b
                          /\ s = RoundDiv(c, b) /\ 2 * c - b < 2 * b * s
  BY RoundDivBounds
<1>2. r > s => 2 * b * r >= 2 * b * s + 2 * b
  <2>1. r > s => b * (r - s) >= b
    OBVIOUS
  <2>2. QED
    BY <2>1
<1>3. QED
  BY <1>1, <1>2

(* What holds of 0, and of k + 1 if of k, holds up to n.                   *)
LEMMA IntervalInduction ==
    ASSUME NEW n \in Nat, NEW Good \in SUBSET (0..n), 0 \in Good,
           \A k \in 0..n : k \in Good /\ k < n => k + 1 \in Good
    PROVE  \A k \in 0..n : k \in Good
<1>1. SUFFICES ASSUME (0..n) \ Good # {} PROVE FALSE
  OBVIOUS
<1>2. PICK k \in (0..n) \ Good : \A j \in (0..n) \ Good : k <= j
  <2>1. (0..n) \ Good \in SUBSET Nat
    OBVIOUS
  <2>2. QED
    BY <1>1, <2>1, LeastElement
<1>3. k # 0 /\ k - 1 \in 0..n /\ k - 1 \in Good
  BY <1>2
<1>4. QED
  BY <1>2, <1>3

(* A recursive function over 0..n, whatever its step.                      *)
Unfolding(n, base, step, f) == [i \in 0..n |-> IF i = 0 THEN base ELSE step[i][f[i - 1]]]

(* There is a function that unfolds as a recursive definition says, on     *)
(* 0..n.                                                                   *)
LEMMA RecursionHasSolution ==
    ASSUME NEW n \in Nat, NEW base, NEW step
    PROVE  \E f : f = Unfolding(n, base, step, f)
<1> DEFINE Good == {m \in 0..n : \E f : f = Unfolding(m, base, step, f)}
<1>1. 0 \in Good
  <2>1. [i \in 0..0 |-> base] = Unfolding(0, base, step, [i \in 0..0 |-> base])
    BY DEF Unfolding
  <2>2. QED
    BY <2>1
<1>2. ASSUME NEW k \in 0..n, k \in Good, k < n PROVE k + 1 \in Good
  <2>1. PICK f : f = Unfolding(k, base, step, f)
    BY <1>2
  <2> DEFINE g == [i \in 0..k + 1 |-> IF i = k + 1 THEN step[k + 1][f[k]] ELSE f[i]]
  <2>2. \A i \in 0..k : g[i] = f[i] /\ f[i] = IF i = 0 THEN base ELSE step[i][f[i - 1]]
    <3>1. \A i \in 0..k : g[i] = f[i]
      OBVIOUS
    <3>2. \A i \in 0..k : Unfolding(k, base, step, f)[i] = IF i = 0 THEN base ELSE step[i][f[i - 1]]
      BY DEF Unfolding
    <3>3. QED
      BY <2>1, <3>1, <3>2
  <2>3. g = Unfolding(k + 1, base, step, g)
    <3>1. ASSUME NEW i \in 0..k + 1
          PROVE  g[i] = IF i = 0 THEN base ELSE step[i][g[i - 1]]
      <4>1. CASE i = k + 1
        <5>1. g[i] = step[i][f[k]] /\ i # 0 /\ i - 1 = k /\ k \in 0..k
          BY <4>1
        <5>2. g[k] = f[k]
          BY <5>1, <2>2
        <5>3. QED
          BY <5>1, <5>2
      <4>2. CASE i # k + 1
        <5>1. i \in 0..k /\ (i # 0 => i - 1 \in 0..k)
          BY <4>2
        <5>2. g[i] = f[i] /\ (i # 0 => g[i - 1] = f[i - 1])
          BY <5>1, <2>2
        <5>3. QED
          BY <5>1, <5>2, <2>2
      <4>3. QED
        BY <4>1, <4>2
    <3> HIDE DEF g
    <3>2. g = [i \in 0..k + 1 |-> g[i]]
      BY DEF g
    <3>3. QED
      BY <3>1, <3>2 DEF Unfolding
  <2>4. k + 1 \in 0..n
    BY <1>2
  <2>5. QED
    BY <2>3, <2>4
<1>3. Good \in SUBSET (0..n) /\ n \in 0..n
  OBVIOUS
<1>4. n \in Good
  <2> HIDE DEF Good
  <2>1. QED
    BY <1>1, <1>2, <1>3, IntervalInduction
<1>5. QED
  BY <1>4

(* ... and only one.                                                       *)
LEMMA SolutionsAgree ==
    ASSUME NEW n \in Nat, NEW m \in Nat, n <= m, NEW base, NEW step,
           NEW f, f = Unfolding(n, base, step, f), NEW g, g = Unfolding(m, base, step, g)
    PROVE  f[n] = g[n]
<1> DEFINE Good == {k \in 0..n : f[k] = g[k]}
<1>1. \A k \in 0..n : /\ f[k] = IF k = 0 THEN base ELSE step[k][f[k - 1]]
                      /\ g[k] = IF k = 0 THEN base ELSE step[k][g[k - 1]]
  <2>1. \A k \in 0..n : /\ Unfolding(n, base, step, f)[k] = IF k = 0 THEN base ELSE step[k][f[k - 1]]
                        /\ Unfolding(m, base, step, g)[k] = IF k = 0 THEN base ELSE step[k][g[k - 1]]
    BY DEF Unfolding
  <2>2. QED
    BY <2>1
<1>2. 0 \in Good
  BY <1>1
<1>3. ASSUME NEW k \in 0..n, k \in Good, k < n PROVE k + 1 \in Good
  <2>1. k + 1 \in 0..n /\ k + 1 # 0 /\ (k + 1) - 1 = k
    BY <1>3
  <2>2. f[k + 1] = step[k + 1][f[k]] /\ g[k + 1] = step[k + 1][g[k]]
    BY <1>1, <2>1
  <2>3. QED
    BY <1>3, <2>1, <2>2
<1>4. Good \in SUBSET (0..n) /\ n \in 0..n
  OBVIOUS
<1>5. n \in Good
  <2> HIDE DEF Good
  <2>1. QED
    BY <1>2, <1>3, <1>4, IntervalInduction
<1>6. QED
  BY <1>5

-----------------------------------------------------------------------------
(* Math.pow *)

(* A recursive function takes its values in a set its step stays in.       *)
LEMMA RecursionTyped ==
    ASSUME NEW n \in Nat, NEW V, NEW base \in V, NEW step,
           \A i \in 1..n : \A v \in V : step[i][v] \in V,
           NEW f, f = Unfolding(n, base, step, f)
    PROVE  \A i \in 0..n : f[i] \in V
<1> DEFINE Good == {k \in 0..n : f[k] \in V}
<1>1. \A k \in 0..n : f[k] = IF k = 0 THEN base ELSE step[k][f[k - 1]]
  <2>1. \A k \in 0..n : Unfolding(n, base, step, f)[k] = IF k = 0 THEN base ELSE step[k][f[k - 1]]
    BY DEF Unfolding
  <2>2. QED
    BY <2>1
<1>2. 0 \in Good
  BY <1>1
<1>3. ASSUME NEW k \in 0..n, k \in Good, k < n PROVE k + 1 \in Good
  <2>1. k + 1 \in 1..n /\ k + 1 \in 0..n /\ k + 1 # 0 /\ (k + 1) - 1 = k
    BY <1>3
  <2>2. f[k + 1] = step[k + 1][f[k]]
    BY <1>1, <2>1
  <2>3. QED
    BY <1>3, <2>1, <2>2
<1>4. Good \in SUBSET (0..n)
  OBVIOUS
<1>5. \A k \in 0..n : k \in Good
  <2> HIDE DEF Good
  <2>1. QED
    BY <1>2, <1>3, <1>4, IntervalInduction
<1>6. QED
  BY <1>5

(* One step of Power, and the functions that unfold as it does.            *)
PowerStep(x) == [i \in Nat |-> [v \in Int |-> x * v]]
Powers(x, n, f) == [i \in 0..n |-> IF i = 0 THEN 1 ELSE x * f[i - 1]]

(* The two forms of the recursion have the same solutions.                 *)
LEMMA PowersUnfold ==
    ASSUME NEW x \in Int, NEW n \in Nat, NEW f
    PROVE  f = Powers(x, n, f) <=> f = Unfolding(n, 1, PowerStep(x), f)
<1>1. \A i \in 1..n : \A v \in Int : PowerStep(x)[i][v] = x * v
  BY DEF PowerStep
<1>2. ASSUME f = Powers(x, n, f) \/ f = Unfolding(n, 1, PowerStep(x), f)
      PROVE  \A i \in 0..n : f[i] \in Int
  <2>1. CASE f = Unfolding(n, 1, PowerStep(x), f)
    <3>1. \A i \in 1..n : \A v \in Int : PowerStep(x)[i][v] \in Int
      BY <1>1
    <3>2. QED
      BY <2>1, <3>1, RecursionTyped, 1 \in Int
  <2>2. CASE f = Powers(x, n, f)
    <3> DEFINE Good == {k \in 0..n : f[k] \in Int}
    <3>1. \A k \in 0..n : f[k] = IF k = 0 THEN 1 ELSE x * f[k - 1]
      <4>1. \A k \in 0..n : Powers(x, n, f)[k] = IF k = 0 THEN 1 ELSE x * f[k - 1]
        BY DEF Powers
      <4>2. QED
        BY <2>2, <4>1
    <3>2. 0 \in Good
      BY <3>1
    <3>3. ASSUME NEW k \in 0..n, k \in Good, k < n PROVE k + 1 \in Good
      <4>1. k + 1 \in 0..n /\ k + 1 # 0 /\ (k + 1) - 1 = k
        BY <3>3
      <4>2. f[k + 1] = x * f[k]
        BY <3>1, <4>1
      <4>3. QED
        BY <3>3, <4>1, <4>2
    <3>4. Good \in SUBSET (0..n)
      OBVIOUS
    <3>5. \A k \in 0..n : k \in Good
      <4> HIDE DEF Good
      <4>1. QED
        BY <3>2, <3>3, <3>4, IntervalInduction
    <3>6. QED
      BY <3>5
  <2>3. QED
    BY <1>2, <2>1, <2>2
<1>3. ASSUME \A i \in 0..n : f[i] \in Int
      PROVE  Powers(x, n, f) = Unfolding(n, 1, PowerStep(x), f)
  <2>1. ASSUME NEW i \in 0..n, i # 0 PROVE x * f[i - 1] = PowerStep(x)[i][f[i - 1]]
    <3>1. i \in 1..n /\ i - 1 \in 0..n
      BY <2>1
    <3>2. QED
      BY <1>1, <1>3, <3>1
  <2>2. QED
    BY <2>1 DEF Powers, Unfolding
<1>4. QED
  BY <1>2, <1>3

(* A power is the last value of some solution.                             *)
LEMMA PowerSolved ==
    ASSUME NEW x \in Int, NEW n \in Nat
    PROVE  \E f : f = Unfolding(n, 1, PowerStep(x), f) /\ Power(x, n) = f[n]
<1>1. \E f : f = Powers(x, n, f)
  BY RecursionHasSolution, PowersUnfold
<1> DEFINE g == CHOOSE f : f = Powers(x, n, f)
<1>2. Power(x, n) = g[n]
  BY DEF Power, Powers
<1>3. g = Powers(x, n, g)
  BY <1>1
<1> HIDE DEF g
<1>4. QED
  BY <1>2, <1>3, PowersUnfold

(* x^0 = 1                                                                 *)
LEMMA PowerZero ==
    ASSUME NEW x \in Int
    PROVE  Power(x, 0) = 1
<1>1. PICK f : f = Unfolding(0, 1, PowerStep(x), f) /\ Power(x, 0) = f[0]
  BY PowerSolved
<1>2. Unfolding(0, 1, PowerStep(x), f)[0] = 1
  BY DEF Unfolding
<1>3. QED
  BY <1>1, <1>2

(* x^(n+1) = x * x^n                                                       *)
LEMMA PowerNext ==
    ASSUME NEW x \in Int, NEW n \in Nat
    PROVE  Power(x, n) \in Int /\ Power(x, n + 1) = x * Power(x, n)
<1>1. PICK f : f = Unfolding(n, 1, PowerStep(x), f) /\ Power(x, n) = f[n]
  BY PowerSolved
<1>2. PICK g : g = Unfolding(n + 1, 1, PowerStep(x), g) /\ Power(x, n + 1) = g[n + 1]
  BY PowerSolved, n + 1 \in Nat
<1>3. f[n] = g[n]
  BY <1>1, <1>2, SolutionsAgree, n + 1 \in Nat, n <= n + 1
<1>4. f[n] \in Int
  <2>1. \A i \in 1..n : \A v \in Int : PowerStep(x)[i][v] \in Int
    BY DEF PowerStep
  <2>2. \A i \in 0..n : f[i] \in Int
    BY <1>1, <2>1, RecursionTyped, 1 \in Int
  <2>3. QED
    BY <2>2
<1>5. g[n + 1] = PowerStep(x)[n + 1][g[n]]
  <2>1. n + 1 \in 0..n + 1 /\ n + 1 # 0 /\ (n + 1) - 1 = n
    OBVIOUS
  <2>2. Unfolding(n + 1, 1, PowerStep(x), g)[n + 1] = PowerStep(x)[n + 1][g[n]]
    BY <2>1 DEF Unfolding
  <2>3. QED
    BY <1>2, <2>2
<1>6. PowerStep(x)[n + 1][g[n]] = x * g[n]
  BY <1>3, <1>4 DEF PowerStep
<1>7. QED
  BY <1>1, <1>2, <1>3, <1>4, <1>5, <1>6

(* The powers of a positive number are positive.                           *)
LEMMA PowerPositive ==
    ASSUME NEW x \in Nat \ {0}, NEW n \in Nat
    PROVE  Power(x, n) \in Nat \ {0}
<1> DEFINE Good == {k \in 0..n : Power(x, k) \in Nat \ {0}}
<1>1. 0 \in Good
  BY PowerZero
<1>2. ASSUME NEW k \in 0..n, k \in Good, k < n PROVE k + 1 \in Good
  <2>1. Power(x, k + 1) = x * Power(x, k)
    BY PowerNext
  <2>2. PICK p \in Nat \ {0} : p = Power(x, k)
    BY <1>2
  <2>3. x * p \in Nat \ {0}
    OBVIOUS
  <2>4. k + 1 \in 0..n
    BY <1>2
  <2>5. QED
    BY <2>1, <2>2, <2>3, <2>4
<1>3. Good \in SUBSET (0..n) /\ n \in 0..n
  OBVIOUS
<1>4. n \in Good
  <2> HIDE DEF Good
  <2>1. QED
    BY <1>1, <1>2, <1>3, IntervalInduction
<1>5. QED
  BY <1>4

(* A greater number has greater powers.                                    *)
LEMMA PowerGrows ==
    ASSUME NEW x \in Nat \ {0}, NEW y \in Nat \ {0}, x < y, NEW n \in Nat \ {0}
    PROVE  Power(x, n) < Power(y, n)
<1> DEFINE Good == {k \in 0..n : k > 0 => Power(x, k) < Power(y, k)}
<1>1. 0 \in Good
  OBVIOUS
<1>2. ASSUME NEW k \in 0..n, k \in Good, k < n PROVE k + 1 \in Good
  <2>1. Power(x, k + 1) = x * Power(x, k) /\ Power(y, k + 1) = y * Power(y, k)
    BY PowerNext
  <2>2. PICK p, q \in Nat \ {0} : p = Power(x, k) /\ q = Power(y, k)
    <3>1. Power(x, k) \in Nat \ {0} /\ Power(y, k) \in Nat \ {0}
      BY PowerPositive
    <3>2. QED
      BY <3>1
  <2>3. p <= q
    <3>1. CASE k = 0
      BY <2>2, <3>1, PowerZero
    <3>2. CASE k # 0
      BY <1>2, <2>2, <3>2
    <3>3. QED
      BY <3>1, <3>2
  <2>4. x * p <= x * q /\ x * q < y * q
    <3>1. x * (q - p) >= 0 /\ (y - x) * q > 0
      BY <2>3
    <3>2. QED
      BY <3>1
  <2>5. k + 1 \in 0..n
    BY <1>2
  <2>6. QED
    BY <2>1, <2>2, <2>4, <2>5
<1>3. Good \in SUBSET (0..n) /\ n \in 0..n
  OBVIOUS
<1>4. n \in Good
  <2> HIDE DEF Good
  <2>1. QED
    BY <1>1, <1>2, <1>3, IntervalInduction
<1>5. QED
  BY <1>4

-----------------------------------------------------------------------------
(* What a loan is agreed with. *)

(* What is agreed about a loan of a fixed term, by type.                   *)
LEMMA AgreedTypes ==
    ASSUME NEW l, Agreed(l)
    PROVE  /\ l.principal \in Nat \ {0} /\ l.periods \in Nat \ {0}
           /\ l.product # "PER_1000" =>
                 /\ l.rate.num \in Nat /\ l.rate.den \in Nat \ {0} /\ l.emiRounding \in Nat
                 /\ l.calculation \in {"FLAT", "REDUCING"}
BY DEF Agreed

(* The EMI is a fraction, and covers the first installment's interest; if  *)
(* the loan is reducing, by the powers it is computed from.                *)
LEMMA EmiIsFraction ==
    ASSUME NEW p \in Nat \ {0}, NEW n \in Nat \ {0}, NEW a \in Nat \ {0}, NEW b \in Nat \ {0}
    PROVE  /\ Power(a + b, n) \in Nat \ {0} /\ Power(b, n) \in Nat \ {0}
           /\ Power(a + b, n) - Power(b, n) \in Nat \ {0}
           /\ p * a * Power(a + b, n) \in Nat \ {0}
           /\ b * (Power(a + b, n) - Power(b, n)) \in Nat \ {0}
<1>1. Power(a + b, n) \in Nat \ {0} /\ Power(b, n) \in Nat \ {0} /\ Power(b, n) < Power(a + b, n)
  BY PowerPositive, PowerGrows, a + b \in Nat \ {0}, b < a + b
<1>2. PICK q, s \in Nat \ {0} : q = Power(a + b, n) /\ s = Power(b, n) /\ s < q
  BY <1>1
<1>3. p * a * q \in Nat \ {0} /\ b * (q - s) \in Nat \ {0}
  <2>1. p * a \in Nat \ {0}
    OBVIOUS
  <2>2. (p * a) * q \in Nat \ {0}
    BY <2>1
  <2>3. QED
    BY <1>2, <2>2
<1>4. QED
  BY <1>2, <1>3

(* The EMI of a flat loan is a fraction of positive numbers.               *)
LEMMA FlatEmiIsFraction ==
    ASSUME NEW p \in Nat \ {0}, NEW n \in Nat \ {0}, NEW a \in Nat, NEW b \in Nat \ {0}
    PROVE  p * (b + a * n) \in Nat \ {0} /\ n * b \in Nat \ {0}
<1>1. PICK c \in Nat \ {0} : c = b + a * n
  OBVIOUS
<1>2. QED
  BY <1>1

(* The last installment of a flat loan that outlasts its rounding is what  *)
(* rounding leaves of the loan.                                            *)
LEMMA FlatOutlasts ==
    ASSUME NEW l, Agreed(l), l.product # "PER_1000", Flat(l), OutlastsRounding(l)
    PROVE  l.periods * (l.periods - 1) <= l.principal
<1>1. CASE l.periods = 1
  BY <1>1, AgreedTypes
<1>2. CASE l.periods # 1
  <2>1. PICK p, n, b \in Nat \ {0}, a \in Nat :
               p = l.principal /\ n = l.periods /\ a = l.rate.num /\ b = l.rate.den /\ n > 1
    <3>1. /\ l.principal \in Nat \ {0} /\ l.periods \in Nat \ {0} /\ l.rate.num \in Nat
          /\ l.rate.den \in Nat \ {0} /\ l.periods > 1
      BY <1>2, AgreedTypes
    <3>2. QED
      BY <3>1
  <2>2. PICK m \in Nat \ {0} : m = n - 1
    BY <2>1
  <2> DEFINE e == CeilDiv(p * (b + a * n), n * b)
             f == (p * (b + a * m)) \div (m * b)
  <2>3. e \in Int /\ p * (b + a * n) <= n * b * e
    <3>1. p * (b + a * n) \in Int /\ n * b \in Nat \ {0}
      BY FlatEmiIsFraction
    <3>2. QED
      BY <3>1, CeilDivBounds
  <2>4. f \in Int /\ m * b * f <= p * (b + a * m)
    <3>1. p * (b + a * m) \in Int /\ m * b \in Nat \ {0}
      BY FlatEmiIsFraction
    <3> DEFINE num == p * (b + a * m)
               den == m * b
    <3>2. num \div den \in Int /\ den * (num \div den) <= num
      <4> HIDE DEF num, den
      <4>1. num \in Int /\ den \in Nat \ {0}
        BY <3>1 DEF num, den
      <4>2. QED
        BY <4>1, DivBounds
    <3>3. QED
      BY <3>2
  <2>5. e < f
    <3>1. EmiOver(l, n) = [num |-> p * (b + a * n), den |-> n * b]
      BY <2>1 DEF EmiOver
    <3>2. EmiOver(l, m) = [num |-> p * (b + a * m), den |-> m * b]
      BY <2>1 DEF EmiOver
    <3>3. CeilDiv(EmiOver(l, n).num, EmiOver(l, n).den) < EmiOver(l, m).num \div EmiOver(l, m).den
      BY <1>2, <2>1, <2>2 DEF OutlastsRounding, EmiOf
    <3>4. QED
      BY <3>1, <3>2, <3>3
  <2> HIDE DEF e, f
  <2>6. m * n * b <= p * b
    <3>1. m * (p * (b + a * n)) <= m * (n * b * e) /\ n * (m * b * f) <= n * (p * (b + a * m))
      <4>1. \A u, v \in Int, c \in Nat : u <= v => c * u <= c * v
        OBVIOUS
      <4>2. p * (b + a * n) \in Int /\ n * b * e \in Int /\ m * b * f \in Int /\ p * (b + a * m) \in Int
        BY <2>3, <2>4
      <4>3. QED
        BY <2>3, <2>4, <4>1, <4>2
    <3>2. m * (p * (b + a * n)) = m * p * b + m * p * a * n
      OBVIOUS
    <3>3. n * (p * (b + a * m)) = m * p * b + p * b + m * p * a * n
      BY <2>2
    <3>4. n * (m * b * f) - m * (n * b * e) <= p * b
      BY <2>3, <2>4, <3>1, <3>2, <3>3
    <3>5. n * (m * b * f) - m * (n * b * e) = m * n * b * (f - e)
      BY <2>3, <2>4
    <3>6. m * n * b * (f - e) >= m * n * b
      <4>1. \A c \in Nat, d \in Int : d >= 1 => c * d >= c
        OBVIOUS
      <4>2. m * n * b \in Nat /\ f - e \in Int /\ f - e >= 1
        BY <2>3, <2>4, <2>5
      <4>3. QED
        BY <4>1, <4>2
    <3>7. QED
      BY <2>3, <2>4, <3>4, <3>5, <3>6
  <2>7. m * n <= p
    <3>1. \A u, v \in Int : u * b <= v * b => u <= v
      OBVIOUS
    <3>2. QED
      BY <2>6, <3>1, m * n \in Int
  <2>8. QED
    BY <2>1, <2>2, <2>7
<1>3. QED
  BY <1>1, <1>2

(* What is agreed to be paid each time is a fraction, for any term.        *)
LEMMA EmiTyped ==
    ASSUME NEW l, Agreed(l), l.product # "PER_1000", NEW n \in Nat \ {0}
    PROVE  EmiOver(l, n).num \in Nat \ {0} /\ EmiOver(l, n).den \in Nat \ {0}
<1>1. PICK p, b \in Nat \ {0}, a \in Nat : p = l.principal /\ a = l.rate.num /\ b = l.rate.den
  <2>1. l.principal \in Nat \ {0} /\ l.rate.num \in Nat /\ l.rate.den \in Nat \ {0}
    BY AgreedTypes
  <2>2. QED
    BY <2>1
<1>2. CASE Flat(l)
  <2>1. EmiOver(l, n) = [num |-> p * (b + a * n), den |-> n * b]
    BY <1>1, <1>2 DEF EmiOver
  <2>2. QED
    BY <2>1, FlatEmiIsFraction
<1>3. CASE ~Flat(l)
  <2>1. EmiOver(l, n) = [num |-> p * a * Power(a + b, n),
                         den |-> b * (Power(a + b, n) - Power(b, n))]
    BY <1>1, <1>3 DEF EmiOver
  <2>2. a \in Nat \ {0}
    BY <1>1, <1>3 DEF Flat
  <2>3. /\ p * a * Power(a + b, n) \in Nat \ {0}
        /\ b * (Power(a + b, n) - Power(b, n)) \in Nat \ {0}
    BY <2>2, EmiIsFraction
  <2>4. QED
    BY <2>1, <2>3
<1>4. QED
  BY <1>2, <1>3

(* The interest of a period is an integer.                                 *)
LEMMA InterestTyped ==
    ASSUME NEW l, Agreed(l), l.product # "PER_1000", NEW balance \in Int
    PROVE  Interest(l, balance) \in Int
<1>1. l.principal \in Nat /\ l.rate.num \in Nat /\ l.rate.den \in Nat \ {0}
  BY AgreedTypes
<1>2. (IF Flat(l) THEN l.principal ELSE balance) * l.rate.num \in Int
  BY <1>1
<1>3. QED
  BY <1>1, <1>2, RoundDivBounds DEF Interest

(* Shares that are rounded do not use up a loan before its last one.       *)
LEMMA SharesFit ==
    ASSUME NEW p \in Nat \ {0}, NEW n \in Nat \ {0}, n * (n - 1) <= 2 * p
    PROVE  RoundDiv(p, n) \in Nat /\ (n - 1) * RoundDiv(p, n) <= p
<1>1. PICK r \in Int : r = RoundDiv(p, n) /\ 2 * n * r <= 2 * p + n
  BY RoundDivBounds, p \in Int
<1>2. r \in Nat
  BY <1>1, RoundDivNonnegative
<1>3. PICK m \in Nat : m = n - 1
  OBVIOUS
<1>4. m * (2 * n * r) <= m * (2 * p + n)
  <2>1. \A u, v \in Int : u <= v => m * u <= m * v
    OBVIOUS
  <2>2. QED
    BY <1>1, <2>1
<1>5. m * (2 * p + n) = 2 * p * n - 2 * p + n * m
  BY <1>3
<1>6. m * (2 * n * r) <= 2 * p * n
  BY <1>3, <1>4, <1>5
<1>7. (2 * n) * (m * r) <= (2 * n) * p
  BY <1>6
<1>8. m * r <= p
  <2>1. \A u, v \in Int, c \in Nat \ {0} : c * u <= c * v => u <= v
    OBVIOUS
  <2>2. 2 * n \in Nat \ {0} /\ m * r \in Int
    OBVIOUS
  <2>3. QED
    BY <1>7, <2>1, <2>2
<1>9. QED
  BY <1>1, <1>2, <1>3, <1>8

-----------------------------------------------------------------------------
(* Sums over a schedule. *)

(* The sum over one more number.                                           *)
LEMMA SumNext ==
    ASSUME NEW n \in Nat, NEW f, \A i \in 1..n : f[i] \in Int, NEW k \in 0..n
    PROVE  /\ SumFunctionOnSet(f, 1..k) \in Int
           /\ k = 0 => SumFunctionOnSet(f, 1..k) = 0
           /\ k < n => SumFunctionOnSet(f, 1..k + 1) = SumFunctionOnSet(f, 1..k) + f[k + 1]
<1>1. IntegersOn(f, 1..k)
  BY FS_Interval DEF IntegersOn
<1>2. k < n => f[k + 1] \in Int /\ k + 1 \notin 1..k /\ 1..k + 1 = (1..k) \cup {k + 1}
  OBVIOUS
<1>3. k = 0 => 1..k = {}
  OBVIOUS
<1>4. SumFunctionOnSet(f, 1..k) \in Int
  BY <1>1, SumIsInteger
<1>5. ASSUME k < n
      PROVE  SumFunctionOnSet(f, (1..k) \cup {k + 1}) = SumFunctionOnSet(f, 1..k) + f[k + 1]
  <2>1. f[k + 1] \in Int /\ k + 1 \notin 1..k
    BY <1>2, <1>5
  <2>2. QED
    BY <1>1, <2>1, SumWith
<1>6. k = 0 => SumFunctionOnSet(f, 1..k) = 0
  BY <1>3, SumOfNothing
<1>7. k < n => SumFunctionOnSet(f, 1..k + 1) = SumFunctionOnSet(f, 1..k) + f[k + 1]
  BY <1>2, <1>5
<1>8. QED
  BY <1>4, <1>6, <1>7

(* What a balance loses is what the installments sum up to.                *)
LEMMA SumTelescopes ==
    ASSUME NEW n \in Nat, NEW f, \A i \in 1..n : f[i] \in Int,
           NEW balance, \A i \in 0..n : balance[i] \in Int,
           \A i \in 1..n : balance[i] >= balance[i - 1] - f[i]
    PROVE  /\ SumFunctionOnSet(f, 1..n) \in Int
           /\ SumFunctionOnSet(f, 1..n) >= balance[0] - balance[n]
           /\ (\A i \in 1..n : balance[i] = balance[i - 1] - f[i]) =>
                 SumFunctionOnSet(f, 1..n) = balance[0] - balance[n]
<1> DEFINE Exact == \A i \in 1..n : balance[i] = balance[i - 1] - f[i]
           Good == {k \in 0..n : /\ SumFunctionOnSet(f, 1..k) >= balance[0] - balance[k]
                                 /\ Exact => SumFunctionOnSet(f, 1..k) = balance[0] - balance[k]}
<1>1. 0 \in Good
  <2>1. 0 \in 0..n /\ 1..0 = {}
    OBVIOUS
  <2>2. SumFunctionOnSet(f, 1..0) = 0 /\ balance[0] \in Int
    BY <2>1, SumOfNothing
  <2>3. QED
    BY <2>1, <2>2
<1>2. ASSUME NEW k \in 0..n, k \in Good, k < n PROVE k + 1 \in Good
  <2>1. PICK s \in Int : s = SumFunctionOnSet(f, 1..k) /\ SumFunctionOnSet(f, 1..k + 1) = s + f[k + 1]
    <3>1. k < n
      BY <1>2
    <3>2. /\ SumFunctionOnSet(f, 1..k) \in Int
          /\ k < n => SumFunctionOnSet(f, 1..k + 1) = SumFunctionOnSet(f, 1..k) + f[k + 1]
      BY SumNext
    <3>3. QED
      BY <3>1, <3>2
  <2>2. k + 1 \in 1..n /\ k + 1 \in 0..n /\ (k + 1) - 1 = k
    BY <1>2
  <2>3. balance[k + 1] >= balance[k] - f[k + 1] /\ (Exact => balance[k + 1] = balance[k] - f[k + 1])
    <3>1. PICK j \in 1..n : j = k + 1 /\ j - 1 = k
      BY <2>2
    <3>2. balance[j] >= balance[j - 1] - f[j] /\ (Exact => balance[j] = balance[j - 1] - f[j])
      OBVIOUS
    <3> HIDE DEF Exact
    <3>3. QED
      BY <3>1, <3>2
  <2>4. balance[0] \in Int /\ balance[k] \in Int /\ balance[k + 1] \in Int /\ f[k + 1] \in Int
    BY <2>2
  <2>5. s >= balance[0] - balance[k] /\ (Exact => s = balance[0] - balance[k])
    BY <1>2, <2>1
  <2> HIDE DEF Exact
  <2>6. QED
    BY <2>1, <2>2, <2>3, <2>4, <2>5
<1>3. Good \in SUBSET (0..n) /\ n \in 0..n
  OBVIOUS
<1>4. n \in Good
  <2> HIDE DEF Good
  <2>1. QED
    BY <1>1, <1>2, <1>3, IntervalInduction
<1>5. QED
  BY <1>4, SumNext

-----------------------------------------------------------------------------
(* Weekly loans. *)

(* A weekly installment's principal is an integer.                         *)
LEMMA WeeklyPrincipalTyped ==
    ASSUME NEW l, Agreed(l), l.product # "PER_1000", NEW i \in 1..l.periods, NEW balance \in Int
    PROVE  WeeklyEmi(l) \in Int /\ WeeklyPrincipal(l, i, balance) \in Int
<1>1. EmiOf(l).num \in Nat \ {0} /\ EmiOf(l).den \in Nat \ {0}
  BY EmiTyped, AgreedTypes DEF EmiOf
<1>2. WeeklyEmi(l) \in Int
  <2>1. PICK num, den \in Nat \ {0} : num = EmiOf(l).num /\ den = EmiOf(l).den
    BY <1>1
  <2>2. RoundDiv(num, den) \in Int
    BY RoundDivBounds, num \in Int
  <2>3. ASSUME l.emiRounding # 0
        PROVE  CeilDiv(num, den * l.emiRounding) * l.emiRounding \in Int
    <3>1. l.emiRounding \in Nat \ {0}
      BY <2>3, AgreedTypes
    <3>2. den * l.emiRounding \in Nat \ {0}
      BY <3>1
    <3>3. CeilDiv(num, den * l.emiRounding) \in Int
      BY <3>2, CeilDivBounds, num \in Int
    <3>4. QED
      BY <3>1, <3>3
  <2>4. QED
    BY <2>1, <2>2, <2>3 DEF WeeklyEmi
<1>3. RoundDiv(l.principal, l.periods) \in Int /\ Interest(l, balance) \in Int
  <2>1. l.principal \in Int /\ l.periods \in Nat \ {0}
    BY AgreedTypes
  <2>2. QED
    BY <2>1, RoundDivBounds, InterestTyped
<1>4. QED
  BY <1>2, <1>3 DEF WeeklyPrincipal

(* One step of WeeklyBalance, and the functions that unfold as it does.    *)
WeeklyStep(l) == [i \in 1..l.periods |-> [v \in Int |-> v - WeeklyPrincipal(l, i, v)]]
WeeklyBalances(l, f) ==
    [i \in 0..l.periods |-> IF i = 0 THEN l.principal ELSE f[i - 1] - WeeklyPrincipal(l, i, f[i - 1])]

(* The balance after each installment of a weekly loan.                    *)
LEMMA WeeklyBalanceUnfolds ==
    ASSUME NEW l, Agreed(l), l.product # "PER_1000"
    PROVE  /\ \A i \in 0..l.periods : WeeklyBalance(l)[i] \in Int
           /\ WeeklyBalance(l)[0] = l.principal
           /\ \A i \in 1..l.periods :
                 WeeklyBalance(l)[i] =
                     WeeklyBalance(l)[i - 1] - WeeklyPrincipal(l, i, WeeklyBalance(l)[i - 1])
<1> DEFINE n == l.periods
           step == WeeklyStep(l)
<1>1. n \in Nat \ {0} /\ l.principal \in Int
  BY AgreedTypes
<1>2. \A i \in 1..n : \A v \in Int : step[i][v] = v - WeeklyPrincipal(l, i, v) /\ step[i][v] \in Int
  BY WeeklyPrincipalTyped DEF WeeklyStep
<1>3. \E f : f = WeeklyBalances(l, f)
  <2>1. PICK f : f = Unfolding(n, l.principal, step, f)
    BY <1>1, RecursionHasSolution
  <2>2. \A i \in 0..n : f[i] \in Int
    <3> HIDE DEF n, step
    <3>1. QED
      BY <1>1, <1>2, <2>1, RecursionTyped
  <2>3. ASSUME NEW i \in 0..n, i # 0
        PROVE  step[i][f[i - 1]] = f[i - 1] - WeeklyPrincipal(l, i, f[i - 1])
    <3>1. i \in 1..n /\ i - 1 \in 0..n
      BY <1>1, <2>3
    <3>2. QED
      BY <1>2, <2>2, <3>1
  <2>4. Unfolding(n, l.principal, step, f) = WeeklyBalances(l, f)
    BY <2>3 DEF Unfolding, WeeklyBalances
  <2>5. QED
    BY <2>1, <2>4
<1> DEFINE balance == CHOOSE f : f = WeeklyBalances(l, f)
<1>4. WeeklyBalance(l) = balance
  BY DEF WeeklyBalance, WeeklyBalances
<1>5. balance = WeeklyBalances(l, balance)
  BY <1>3
<1> HIDE DEF balance, step
<1>6. \A i \in 0..n : balance[i] = IF i = 0 THEN l.principal
                                   ELSE balance[i - 1] - WeeklyPrincipal(l, i, balance[i - 1])
  <2>1. \A i \in 0..n :
            WeeklyBalances(l, balance)[i] =
                IF i = 0 THEN l.principal ELSE balance[i - 1] - WeeklyPrincipal(l, i, balance[i - 1])
    BY DEF WeeklyBalances
  <2>2. QED
    BY <1>5, <2>1
<1>7. \A i \in 0..n : balance[i] \in Int
  <2> DEFINE Good == {k \in 0..n : balance[k] \in Int}
  <2>1. 0 \in Good
    BY <1>1, <1>6
  <2>2. ASSUME NEW k \in 0..n, k \in Good, k < n PROVE k + 1 \in Good
    <3>1. k + 1 \in 1..n /\ k + 1 \in 0..n /\ k + 1 # 0 /\ (k + 1) - 1 = k
      BY <1>1, <2>2
    <3>2. balance[k + 1] = balance[k] - WeeklyPrincipal(l, k + 1, balance[k])
      BY <1>6, <3>1
    <3>3. WeeklyPrincipal(l, k + 1, balance[k]) \in Int
      BY <2>2, <3>1, WeeklyPrincipalTyped
    <3>4. QED
      BY <2>2, <3>1, <3>2, <3>3
  <2>3. Good \in SUBSET (0..n)
    OBVIOUS
  <2>4. \A k \in 0..n : k \in Good
    <3> HIDE DEF Good, n
    <3>1. QED
      BY <1>1, <2>1, <2>2, <2>3, IntervalInduction
  <2>5. QED
    BY <2>4
<1>8. \A i \in 1..n : i \in 0..n /\ i # 0
  BY <1>1
<1>9. 0 \in 0..n
  BY <1>1
<1>10. QED
  BY <1>4, <1>6, <1>7, <1>8, <1>9

(* A weekly schedule, by the balance before each installment.              *)
LEMMA WeeklyRow ==
    ASSUME NEW l, Agreed(l), l.product = "WEEKLY", NEW i \in 1..l.periods
    PROVE  /\ i - 1 \in 0..l.periods
           /\ WeeklySchedule(l)[i].principal = WeeklyPrincipal(l, i, WeeklyBalance(l)[i - 1])
           /\ WeeklySchedule(l)[i].interest = Interest(l, WeeklyBalance(l)[i - 1])
           /\ WeeklySchedule(l)[i].total =
                 IF i < l.periods THEN WeeklyEmi(l)
                 ELSE WeeklySchedule(l)[i].principal + WeeklySchedule(l)[i].interest
           /\ WeeklySchedule(l)[i].principal \in Int /\ WeeklySchedule(l)[i].interest \in Int
<1>1. i - 1 \in 0..l.periods
  BY AgreedTypes
<1>2. WeeklyBalance(l)[i - 1] \in Int
  BY <1>1, WeeklyBalanceUnfolds
<1>3. /\ WeeklyPrincipal(l, i, WeeklyBalance(l)[i - 1]) \in Int
      /\ Interest(l, WeeklyBalance(l)[i - 1]) \in Int
  BY <1>2, WeeklyPrincipalTyped, InterestTyped
<1>4. QED
  BY <1>1, <1>3 DEF WeeklySchedule

(* A reducing loan's installment covers its first interest, so that the    *)
(* balance only ever falls.                                                *)
LEMMA EmiCoversInterest ==
    ASSUME NEW p \in Nat \ {0}, NEW n \in Nat \ {0}, NEW a \in Nat \ {0}, NEW b \in Nat \ {0}
    PROVE  (p * a) * (b * (Power(a + b, n) - Power(b, n))) <= b * (p * a * Power(a + b, n))
<1>1. PICK q, s \in Nat : q = Power(a + b, n) /\ s = Power(b, n)
  <2>1. Power(a + b, n) \in Nat /\ Power(b, n) \in Nat
    BY EmiIsFraction
  <2>2. QED
    BY <2>1
<1>2. PICK c \in Nat : c = p * a
  OBVIOUS
<1>3. c * (b * (q - s)) = b * (c * q) - b * (c * s)
  OBVIOUS
<1>4. b * (c * s) \in Nat
  OBVIOUS
<1>5. c * (b * (q - s)) <= b * (c * q)
  BY <1>3, <1>4
<1>6. QED
  BY <1>1, <1>2, <1>5

(* Fractions are compared by their products.                               *)
LEMMA RoundDivOrder ==
    ASSUME NEW a \in Int, NEW b \in Nat \ {0}, NEW c \in Int, NEW d \in Nat \ {0}, a * d <= c * b
    PROVE  RoundDiv(a, b) <= RoundDiv(c, d)
<1>1. /\ RoundDiv(a, b) \in Int /\ RoundDiv(c, d) \in Int
      /\ 2 * b * RoundDiv(a, b) <= 2 * a + b /\ 2 * c - d < 2 * d * RoundDiv(c, d)
  BY RoundDivBounds
<1>2. PICK r, s \in Int : /\ r = RoundDiv(a, b) /\ 2 * b * r <= 2 * a + b
                          /\ s = RoundDiv(c, d) /\ 2 * c - d < 2 * d * s
  BY <1>1
<1>3. d * (2 * b * r) <= d * (2 * a + b) /\ b * (2 * c - d) < b * (2 * d * s)
  <2>1. \A u, v \in Int : (u <= v => d * u <= d * v) /\ (u < v => b * u < b * v)
    OBVIOUS
  <2>2. 2 * b * r \in Int /\ 2 * a + b \in Int /\ 2 * c - d \in Int /\ 2 * d * s \in Int
    OBVIOUS
  <2>3. QED
    BY <1>2, <2>1, <2>2
<1>4. d * (2 * a + b) = 2 * (a * d) + b * d /\ b * (2 * c - d) = 2 * (c * b) - b * d
  OBVIOUS
<1>5. d * (2 * b * r) = 2 * ((b * d) * r) /\ b * (2 * d * s) = 2 * ((b * d) * s)
  OBVIOUS
<1>6. (b * d) * r < (b * d) * s + b * d
  BY <1>3, <1>4, <1>5
<1>7. (b * d) * r < (b * d) * (s + 1)
  BY <1>6
<1>8. r < s + 1
  <2>1. \A u, v \in Int, e \in Nat \ {0} : e * u < e * v => u < v
    OBVIOUS
  <2>2. b * d \in Nat \ {0}
    OBVIOUS
  <2>3. QED
    BY <1>7, <2>1, <2>2
<1>9. QED
  BY <1>2, <1>8

(* The larger base gains on the smaller one with every factor.             *)
LEMMA PowersApart ==
    ASSUME NEW b \in Nat \ {0}, NEW q \in Nat \ {0}, b <= q, NEW m \in Nat, NEW i \in 0..m
    PROVE  Power(q, i) * Power(b, m) <= Power(q, m) * Power(b, i)
<1> DEFINE Good == {j \in 0..m - i : Power(q, i) * Power(b, i + j) <= Power(q, i + j) * Power(b, i)}
<1>1. m - i \in Nat /\ i + 0 = i
  OBVIOUS
<1>2. 0 \in Good
  <2>1. Power(q, i) * Power(b, i) \in Int
    BY PowerNext, i \in Nat, q \in Int, b \in Int
  <2>2. QED
    BY <1>1, <2>1
<1>3. ASSUME NEW j \in 0..m - i, j \in Good, j < m - i PROVE j + 1 \in Good
  <2>1. i \in Nat /\ i + j \in Nat /\ i + (j + 1) = (i + j) + 1 /\ j + 1 \in 0..m - i
    BY <1>3
  <2>2. /\ Power(q, i + (j + 1)) = q * Power(q, i + j)
        /\ Power(b, i + (j + 1)) = b * Power(b, i + j)
    BY <2>1, PowerNext
  <2>3. /\ Power(q, i) \in Nat \ {0} /\ Power(b, i) \in Nat \ {0}
        /\ Power(q, i + j) \in Nat \ {0} /\ Power(b, i + j) \in Nat \ {0}
    BY <2>1, PowerPositive
  <2>4. PICK u, v, s, t \in Nat : /\ u = Power(q, i) /\ v = Power(b, i)
                                  /\ s = Power(q, i + j) /\ t = Power(b, i + j)
    BY <2>3
  <2>5. u * t <= s * v
    BY <1>3, <2>4
  <2>6. b * (u * t) <= b * (s * v) /\ b * (s * v) <= q * (s * v)
    <3>1. \A x, y \in Nat, c \in Nat : x <= y => c * x <= c * y
      OBVIOUS
    <3>2. \A z \in Nat : b * z <= q * z
      <4>1. \A z \in Nat : (q - b) * z >= 0
        OBVIOUS
      <4>2. QED
        BY <4>1
    <3>3. u * t \in Nat /\ s * v \in Nat
      OBVIOUS
    <3>4. QED
      BY <2>5, <3>1, <3>2, <3>3
  <2>7. u * (b * t) <= (q * s) * v
    <3>1. u * (b * t) = b * (u * t) /\ (q * s) * v = q * (s * v)
      OBVIOUS
    <3>2. b * (u * t) \in Int /\ b * (s * v) \in Int /\ q * (s * v) \in Int
      OBVIOUS
    <3>3. QED
      BY <2>6, <3>1, <3>2
  <2>8. QED
    BY <2>1, <2>2, <2>4, <2>7
<1>4. Good \in SUBSET (0..m - i) /\ m - i \in 0..m - i
  BY <1>1
<1>5. m - i \in Good
  <2> HIDE DEF Good
  <2>1. QED
    BY <1>1, <1>2, <1>3, <1>4, IntervalInduction
<1>6. i + (m - i) = m
  OBVIOUS
<1>7. QED
  BY <1>5, <1>6

(* A balance that accrues interest and loses f each time, where f is not   *)
(* more than the EMI over m periods, lasts for m of them.                  *)
LEMMA BalanceLasts ==
    ASSUME NEW p \in Nat \ {0}, NEW a \in Nat \ {0}, NEW b \in Nat \ {0}, NEW m \in Nat \ {0},
           NEW f \in Int,
           b * (Power(a + b, m) - Power(b, m)) * f <= p * a * Power(a + b, m),
           NEW balance, \A i \in 0..m - 1 : balance[i] \in Int, balance[0] = p,
           \A i \in 0..m - 2 : b * balance[i + 1] >= (a + b) * balance[i] - b * f
    PROVE  \A i \in 0..m - 1 : \A x \in Int : b * x >= (a + b) * balance[i] - b * f => x >= 0
<1>1. PICK q, s, k \in Nat \ {0} : q = Power(a + b, m) /\ s = Power(b, m) /\ k = q - s
  <2>1. /\ Power(a + b, m) \in Nat \ {0} /\ Power(b, m) \in Nat \ {0}
        /\ Power(a + b, m) - Power(b, m) \in Nat \ {0}
    BY EmiIsFraction
  <2>2. QED
    BY <2>1
<1>2. b * k * f <= p * a * q
  BY <1>1
<1> DEFINE Left(i) == p * (q * Power(b, i) - Power(a + b, i) * s)
<1>3. ASSUME NEW i \in 0..m - 1, NEW y \in Int, Left(i) <= y * (Power(b, i) * k),
             NEW x \in Int, b * x >= (a + b) * y - b * f
      PROVE  Left(i + 1) <= x * (Power(b, i + 1) * k)
  <2>1. /\ Power(b, i + 1) = b * Power(b, i) /\ Power(a + b, i + 1) = (a + b) * Power(a + b, i)
        /\ Power(b, i) \in Nat \ {0} /\ Power(a + b, i) \in Nat \ {0}
    BY PowerNext, PowerPositive, i \in Nat, a + b \in Nat \ {0}, b \in Int, a + b \in Int
  <2>2. PICK u, v \in Nat \ {0} : u = Power(b, i) /\ v = Power(a + b, i)
    BY <2>1
  <2>3. p * (q * u - v * s) <= y * (u * k)
    BY <1>3, <2>2
  <2>4. (u * k) * ((a + b) * y - b * f) <= (u * k) * (b * x)
    <3>1. \A c \in Nat, g, h \in Int : g >= h => c * h <= c * g
      OBVIOUS
    <3>2. u * k \in Nat /\ b * x \in Int /\ (a + b) * y - b * f \in Int
      OBVIOUS
    <3>3. QED
      BY <1>3, <3>1, <3>2
  <2>5. (u * k) * ((a + b) * y - b * f) = (a + b) * (y * (u * k)) - u * (b * k * f)
    OBVIOUS
  <2>6. (a + b) * (p * (q * u - v * s)) <= (a + b) * (y * (u * k)) /\ u * (b * k * f) <= u * (p * a * q)
    <3>1. \A c \in Nat, g, h \in Int : h <= g => c * h <= c * g
      OBVIOUS
    <3>2. /\ a + b \in Nat /\ p * (q * u - v * s) \in Int /\ y * (u * k) \in Int
          /\ b * k * f \in Int /\ p * a * q \in Int
      OBVIOUS
    <3>3. QED
      BY <1>2, <2>3, <3>1, <3>2
  <2>7. (a + b) * (p * (q * u - v * s)) - u * (p * a * q) = p * (q * (b * u) - ((a + b) * v) * s)
    OBVIOUS
  <2>8. (u * k) * (b * x) = x * ((b * u) * k)
    OBVIOUS
  <2>9. p * (q * (b * u) - ((a + b) * v) * s) <= x * ((b * u) * k)
    <3>1. /\ (a + b) * (p * (q * u - v * s)) \in Int /\ (a + b) * (y * (u * k)) \in Int
          /\ u * (b * k * f) \in Int /\ u * (p * a * q) \in Int /\ (u * k) * (b * x) \in Int
      OBVIOUS
    <3>2. (a + b) * (p * (q * u - v * s)) - u * (p * a * q) <= (u * k) * (b * x)
      BY <2>4, <2>5, <2>6, <3>1
    <3>3. QED
      BY <2>7, <2>8, <3>2
  <2>10. QED
    BY <2>1, <2>2, <2>9
<1>4. \A i \in 0..m - 1 : Left(i) <= balance[i] * (Power(b, i) * k)
  <2> DEFINE Good == {i \in 0..m - 1 : Left(i) <= balance[i] * (Power(b, i) * k)}
  <2>1. 0 \in Good
    <3>1. Power(b, 0) = 1 /\ Power(a + b, 0) = 1
      BY PowerZero, b \in Int, a + b \in Int
    <3>2. Left(0) = p * k /\ balance[0] * (Power(b, 0) * k) = p * k /\ p * k \in Int
      BY <1>1, <3>1
    <3>3. QED
      BY <3>2
  <2>2. ASSUME NEW i \in 0..m - 1, i \in Good, i < m - 1 PROVE i + 1 \in Good
    <3>1. i \in 0..m - 2 /\ i + 1 \in 0..m - 1
      BY <2>2
    <3>2. b * balance[i + 1] >= (a + b) * balance[i] - b * f
      BY <3>1
    <3>3. Left(i) <= balance[i] * (Power(b, i) * k) /\ balance[i] \in Int /\ balance[i + 1] \in Int
      BY <2>2, <3>1
    <3> HIDE DEF Left
    <3>4. Left(i + 1) <= balance[i + 1] * (Power(b, i + 1) * k)
      BY <1>3, <3>1, <3>2, <3>3
    <3>5. QED
      BY <3>1, <3>4
  <2>3. Good \in SUBSET (0..m - 1) /\ m - 1 \in Nat
    OBVIOUS
  <2>4. \A i \in 0..m - 1 : i \in Good
    <3> HIDE DEF Good
    <3>1. QED
      BY <2>1, <2>2, <2>3, IntervalInduction
  <2>5. QED
    BY <2>4
<1>5. ASSUME NEW i \in 0..m - 1, NEW x \in Int, b * x >= (a + b) * balance[i] - b * f
      PROVE  x >= 0
  <2>1. Left(i + 1) <= x * (Power(b, i + 1) * k)
    <3>1. Left(i) <= balance[i] * (Power(b, i) * k) /\ balance[i] \in Int
      BY <1>4
    <3> HIDE DEF Left
    <3>2. QED
      BY <1>3, <1>5, <3>1
  <2>2. PICK u, v \in Nat \ {0} : u = Power(b, i + 1) /\ v = Power(a + b, i + 1)
    <3>1. Power(b, i + 1) \in Nat \ {0} /\ Power(a + b, i + 1) \in Nat \ {0}
      BY PowerPositive, i + 1 \in Nat, a + b \in Nat \ {0}
    <3>2. QED
      BY <3>1
  <2>3. v * s <= q * u
    <3>1. i + 1 \in 0..m /\ b <= a + b /\ a + b \in Nat \ {0} /\ m \in Nat
      OBVIOUS
    <3>2. Power(a + b, i + 1) * Power(b, m) <= Power(a + b, m) * Power(b, i + 1)
      BY <3>1, PowersApart
    <3>3. QED
      BY <1>1, <2>2, <3>2
  <2>4. 0 <= p * (q * u - v * s)
    BY <2>3
  <2>5. 0 <= x * (u * k)
    <3>1. p * (q * u - v * s) <= x * (u * k)
      BY <2>1, <2>2
    <3>2. p * (q * u - v * s) \in Int /\ x * (u * k) \in Int
      OBVIOUS
    <3>3. QED
      BY <2>4, <3>1, <3>2
  <2>6. x < 0 => x * (u * k) < 0
    <3>1. \A c \in Nat \ {0} : x < 0 => x * c < 0
      OBVIOUS
    <3>2. u * k \in Nat \ {0}
      OBVIOUS
    <3>3. QED
      BY <3>1, <3>2
  <2>7. QED
    BY <2>5, <2>6
<1>6. QED
  BY <1>5

(* Two amounts rounded apart, and their sum rounded: a paisa at most.      *)
LEMMA SharesAddUp ==
    ASSUME NEW p \in Nat \ {0}, NEW n \in Nat \ {0}, NEW a \in Nat, NEW b \in Nat \ {0}, NEW w \in Int
    PROVE  LET over == w - RoundDiv(p, n) - RoundDiv(p * a, b)
           IN  /\ 2 * (p * (b + a * n)) - n * b <= 2 * (n * b) * w => over >= -1
               /\ 2 * (n * b) * w <= 2 * (p * (b + a * n)) + n * b => over <= 1
<1>1. PICK r, s \in Int : /\ r = RoundDiv(p, n) /\ s = RoundDiv(p * a, b)
                          /\ 2 * n * r <= 2 * p + n /\ 2 * p - n <= 2 * n * r
                          /\ 2 * b * s <= 2 * (p * a) + b /\ 2 * (p * a) - b <= 2 * b * s
  <2>1. p \in Int /\ p * a \in Int
    OBVIOUS
  <2>2. /\ RoundDiv(p, n) \in Int /\ 2 * n * RoundDiv(p, n) <= 2 * p + n
        /\ 2 * p - n < 2 * n * RoundDiv(p, n)
    BY <2>1, RoundDivBounds
  <2> DEFINE c == p * a
  <2>3. /\ RoundDiv(c, b) \in Int /\ 2 * b * RoundDiv(c, b) <= 2 * c + b
        /\ 2 * c - b < 2 * b * RoundDiv(c, b)
    <3> HIDE DEF c
    <3>1. c \in Int
      BY <2>1 DEF c
    <3>2. QED
      BY <3>1, RoundDivBounds
  <2>4. QED
    BY <2>2, <2>3
<1> DEFINE D == n * b
           T == p * (b + a * n)
           o == w - r - s
<1>2. /\ b * (2 * n * r) <= b * (2 * p + n) /\ b * (2 * p - n) <= b * (2 * n * r)
      /\ n * (2 * b * s) <= n * (2 * (p * a) + b) /\ n * (2 * (p * a) - b) <= n * (2 * b * s)
  <2>1. \A u, v \in Int, c \in Nat : u <= v => c * u <= c * v
    OBVIOUS
  <2>2. /\ 2 * n * r \in Int /\ 2 * p + n \in Int /\ 2 * p - n \in Int
        /\ 2 * b * s \in Int /\ 2 * (p * a) + b \in Int /\ 2 * (p * a) - b \in Int
    OBVIOUS
  <2>3. QED
    BY <1>1, <2>1, <2>2
<1>3. /\ b * (2 * n * r) = 2 * (D * r) /\ n * (2 * b * s) = 2 * (D * s)
      /\ b * (2 * p + n) + n * (2 * (p * a) + b) = 2 * T + 2 * D
      /\ b * (2 * p - n) + n * (2 * (p * a) - b) = 2 * T - 2 * D
      /\ D * o = D * w - D * r - D * s /\ 2 * (n * b) * w = 2 * (D * w)
  OBVIOUS
<1>4. D \in Nat \ {0} /\ T \in Int /\ D * w \in Int /\ D * r \in Int /\ D * s \in Int /\ o \in Int
  OBVIOUS
<1>5. 2 * T - D <= 2 * (n * b) * w => o >= -1
  <2>1. 2 * T - D <= 2 * (n * b) * w => 2 * (D * o) >= - 3 * D
    <3> HIDE DEF D, T, o
    <3>1. QED
      BY <1>2, <1>3, <1>4
  <2>2. o <= -2 => 2 * (D * o) <= - 4 * D
    <3> HIDE DEF D, T, o
    <3>1. \A c \in Nat, x \in Int : x <= -2 => c * x <= c * (-2)
      OBVIOUS
    <3>2. QED
      BY <1>4, <3>1
  <2> HIDE DEF D, T, o
  <2>3. QED
    BY <1>4, <2>1, <2>2
<1>6. 2 * (n * b) * w <= 2 * T + D => o <= 1
  <2>1. 2 * (n * b) * w <= 2 * T + D => 2 * (D * o) <= 3 * D
    <3> HIDE DEF D, T, o
    <3>1. QED
      BY <1>2, <1>3, <1>4
  <2>2. o >= 2 => 2 * (D * o) >= 4 * D
    <3> HIDE DEF D, T, o
    <3>1. \A c \in Nat, x \in Int : x >= 2 => c * x >= c * 2
      OBVIOUS
    <3>2. QED
      BY <1>4, <3>1
  <2> HIDE DEF D, T, o
  <2>3. QED
    BY <1>4, <2>1, <2>2
<1>7. QED
  BY <1>1, <1>5, <1>6

(* What a loan is agreed with, as numbers.                                 *)
LEMMA FlatEmi ==
    ASSUME NEW l, Agreed(l), l.product # "PER_1000", Flat(l), NEW n \in Nat \ {0}
    PROVE  EmiOver(l, n) = [num |-> l.principal * (l.rate.den + l.rate.num * n), den |-> n * l.rate.den]
BY DEF EmiOver

(* The EMI of a reducing loan, as computed from its rate.                  *)
LEMMA ReducingEmi ==
    ASSUME NEW l, Agreed(l), l.product # "PER_1000", ~Flat(l), NEW n \in Nat \ {0}
    PROVE  /\ l.calculation = "REDUCING" /\ l.rate.num \in Nat \ {0} /\ l.rate.den \in Nat \ {0}
           /\ EmiOver(l, n) =
                 [num |-> l.principal * l.rate.num * Power(l.rate.num + l.rate.den, n),
                  den |-> l.rate.den * (Power(l.rate.num + l.rate.den, n) - Power(l.rate.den, n))]
<1>1. l.calculation = "REDUCING" /\ l.rate.num \in Nat \ {0} /\ l.rate.den \in Nat \ {0}
  BY AgreedTypes DEF Flat
<1>2. QED
  BY <1>1 DEF EmiOver

(* The weekly EMI is the exact one to half a paisa, or rounded up.         *)
LEMMA WeeklyEmiBounds ==
    ASSUME NEW l, Agreed(l), l.product # "PER_1000"
    PROVE  LET num == EmiOf(l).num
               den == EmiOf(l).den
           IN  /\ WeeklyEmi(l) \in Int
               /\ 2 * num - den <= 2 * den * WeeklyEmi(l)
               /\ l.emiRounding = 0 => /\ 2 * den * WeeklyEmi(l) <= 2 * num + den
                                       /\ WeeklyEmi(l) = RoundDiv(num, den)
                                       /\ WeeklyEmi(l) <= CeilDiv(num, den)
<1>1. PICK num, den \in Nat \ {0} : num = EmiOf(l).num /\ den = EmiOf(l).den
  <2>1. EmiOf(l).num \in Nat \ {0} /\ EmiOf(l).den \in Nat \ {0}
    BY EmiTyped, AgreedTypes DEF EmiOf
  <2>2. QED
    BY <2>1
<1>2. CASE l.emiRounding = 0
  <2>1. WeeklyEmi(l) = RoundDiv(num, den)
    BY <1>1, <1>2 DEF WeeklyEmi
  <2>2. num \in Int
    OBVIOUS
  <2>3. /\ RoundDiv(num, den) \in Int /\ 2 * den * RoundDiv(num, den) <= 2 * num + den
        /\ 2 * num - den < 2 * den * RoundDiv(num, den)
    BY <2>2, RoundDivBounds
  <2>4. CeilDiv(num, den) \in Int /\ num <= den * CeilDiv(num, den)
    BY <2>2, CeilDivBounds
  <2>5. RoundDiv(num, den) <= CeilDiv(num, den)
    BY <2>2, <2>4, RoundDivAtMost
  <2>6. QED
    BY <1>1, <2>1, <2>3, <2>5
<1>3. CASE l.emiRounding # 0
  <2>1. PICK k \in Nat \ {0} : k = l.emiRounding
    <3>1. l.emiRounding \in Nat \ {0}
      BY <1>3, AgreedTypes
    <3>2. QED
      BY <3>1
  <2>2. WeeklyEmi(l) = CeilDiv(num, den * k) * k
    BY <1>1, <1>3, <2>1 DEF WeeklyEmi
  <2>3. PICK d \in Nat \ {0} : d = den * k
    OBVIOUS
  <2>4. CeilDiv(num, d) \in Int /\ num <= d * CeilDiv(num, d)
    BY CeilDivBounds, num \in Int
  <2>5. PICK c \in Int : c = CeilDiv(num, d) /\ num <= (den * k) * c
    BY <2>3, <2>4
  <2>6. WeeklyEmi(l) = c * k
    BY <2>2, <2>3, <2>5
  <2>7. 2 * den * (c * k) = 2 * ((den * k) * c) /\ (den * k) * c \in Int
    OBVIOUS
  <2>8. QED
    BY <1>1, <1>3, <2>5, <2>6, <2>7
<1>4. QED
  BY <1>2, <1>3

(* What the installments of a weekly flat loan leave of it.                *)
LEMMA WeeklyFlatBalance ==
    ASSUME NEW l, Agreed(l), l.product # "PER_1000", Flat(l), NEW k \in 0..l.periods - 1
    PROVE  WeeklyBalance(l)[k] = l.principal - k * RoundDiv(l.principal, l.periods)
<1>1. PICK n \in Nat \ {0}, p, r \in Int :
           n = l.periods /\ p = l.principal /\ r = RoundDiv(l.principal, l.periods)
  <2>1. l.principal \in Int /\ l.periods \in Nat \ {0}
    BY AgreedTypes
  <2>2. RoundDiv(l.principal, l.periods) \in Int
    BY <2>1, RoundDivBounds
  <2>3. QED
    BY <2>1, <2>2
<1> DEFINE Good == {j \in 0..n - 1 : WeeklyBalance(l)[j] = p - j * r}
<1>2. 0 \in Good
  <2>1. WeeklyBalance(l)[0] = p
    BY <1>1, WeeklyBalanceUnfolds
  <2>2. QED
    BY <1>1, <2>1
<1>3. ASSUME NEW j \in 0..n - 1, j \in Good, j < n - 1 PROVE j + 1 \in Good
  <2>1. j + 1 \in 1..l.periods /\ (j + 1) - 1 = j /\ j + 1 < l.periods /\ j + 1 \in 0..n - 1
    BY <1>1, <1>3
  <2>2. WeeklyBalance(l)[j + 1] = WeeklyBalance(l)[j] - WeeklyPrincipal(l, j + 1, WeeklyBalance(l)[j])
    BY <2>1, WeeklyBalanceUnfolds
  <2>3. WeeklyPrincipal(l, j + 1, WeeklyBalance(l)[j]) = r
    BY <1>1, <2>1 DEF WeeklyPrincipal
  <2>4. WeeklyBalance(l)[j] = p - j * r
    BY <1>3
  <2>5. QED
    BY <2>1, <2>2, <2>3, <2>4
<1>4. Good \in SUBSET (0..n - 1) /\ n - 1 \in Nat
  OBVIOUS
<1>5. \A j \in 0..n - 1 : j \in Good
  <2> HIDE DEF Good
  <2>1. QED
    BY <1>2, <1>3, <1>4, IntervalInduction
<1>6. QED
  BY <1>1, <1>5

(* A reducing loan's EMI is more than the interest on what is outstanding, *)
(* so that what is outstanding never grows.                                *)
LEMMA WeeklyReducingFalls ==
    ASSUME NEW l, Agreed(l), l.product # "PER_1000", ~Flat(l), l.emiRounding = 0,
           NEW balance \in Int, balance <= l.principal
    PROVE  WeeklyEmi(l) - Interest(l, balance) >= 0
<1>1. l.rate.num \in Nat \ {0} /\ l.rate.den \in Nat \ {0} /\ l.periods \in Nat \ {0}
  BY ReducingEmi, AgreedTypes
<1>2. PICK p, n, a, b \in Nat \ {0} :
           p = l.principal /\ n = l.periods /\ a = l.rate.num /\ b = l.rate.den
  BY <1>1, AgreedTypes
<1>3. EmiOf(l) = [num |-> p * a * Power(a + b, n), den |-> b * (Power(a + b, n) - Power(b, n))]
  BY <1>1, <1>2, ReducingEmi DEF EmiOf
<1> DEFINE num == p * a * Power(a + b, n)
           den == b * (Power(a + b, n) - Power(b, n))
<1>4. num \in Nat \ {0} /\ den \in Nat \ {0} /\ (p * a) * den <= num * b
  <2>1. num \in Nat \ {0} /\ den \in Nat \ {0}
    BY EmiIsFraction, ZenonT(30)
  <2>2. (p * a) * den <= b * num
    BY EmiCoversInterest
  <2> HIDE DEF num, den
  <2>3. QED
    BY <2>1, <2>2
<1>5. WeeklyEmi(l) = RoundDiv(num, den)
  BY <1>1, <1>3, WeeklyEmiBounds
<1>6. Interest(l, balance) = RoundDiv(balance * a, b)
  BY <1>2 DEF Interest
<1>7. RoundDiv(balance * a, b) <= RoundDiv(p * a, b)
  <2>1. balance * a <= p * a
    <3>1. \A u, v \in Int : u <= v => u * a <= v * a
      OBVIOUS
    <3>2. QED
      BY <1>2, <3>1
  <2> DEFINE c == balance * a
             d == p * a
  <2>2. c \in Int /\ d \in Int /\ c <= d
    BY <2>1
  <2> HIDE DEF c, d
  <2>3. RoundDiv(c, b) <= RoundDiv(d, b)
    BY <2>2, RoundDivMonotone
  <2>4. QED
    BY <2>3 DEF c, d
<1>8. RoundDiv(p * a, b) <= RoundDiv(num, den)
  <2> DEFINE d == p * a
  <2>1. d \in Int /\ num \in Int /\ den \in Nat \ {0} /\ d * den <= num * b
    BY <1>4
  <2> HIDE DEF d, num, den
  <2>2. RoundDiv(d, b) <= RoundDiv(num, den)
    BY <2>1, RoundDivOrder
  <2>3. QED
    BY <2>2 DEF d
<1>9. WeeklyEmi(l) \in Int /\ Interest(l, balance) \in Int
  BY WeeklyEmiBounds, InterestTyped
<1>10. RoundDiv(p * a, b) \in Int
  <2> DEFINE d == p * a
  <2>1. d \in Int
    OBVIOUS
  <2> HIDE DEF d
  <2>2. RoundDiv(d, b) \in Int
    BY <2>1, RoundDivBounds
  <2>3. QED
    BY <2>2 DEF d
<1>11. QED
  BY <1>5, <1>6, <1>7, <1>8, <1>9, <1>10

(* What is left for the last installment of a loan that outlasts its       *)
(* rounding is not negative.                                               *)
LEMMA ReducingLasts ==
    ASSUME NEW l, Agreed(l), l.product # "PER_1000", ~Flat(l), l.periods > 1, OutlastsRounding(l),
           NEW w \in Int, w <= CeilDiv(EmiOf(l).num, EmiOf(l).den),
           NEW balance, \A i \in 0..l.periods - 2 : balance[i] \in Int, balance[0] = l.principal,
           \A i \in 0..l.periods - 3 : balance[i + 1] = balance[i] - (w - Interest(l, balance[i]))
    PROVE  \A i \in 0..l.periods - 2 : balance[i] - (w - Interest(l, balance[i])) >= 0
<1>1. PICK p, m, a, b \in Nat \ {0} :
           /\ p = l.principal /\ m = l.periods - 1 /\ a = l.rate.num /\ b = l.rate.den
           /\ l.periods - 2 = m - 1 /\ l.periods - 3 = m - 2
  <2>1. /\ l.rate.num \in Nat \ {0} /\ l.rate.den \in Nat \ {0} /\ l.principal \in Nat \ {0}
        /\ l.periods \in Nat \ {0}
    BY ReducingEmi, AgreedTypes
  <2>2. l.periods - 1 \in Nat \ {0}
    BY <2>1
  <2>3. QED
    BY <2>1, <2>2
<1>2. EmiOver(l, m) = [num |-> p * a * Power(a + b, m), den |-> b * (Power(a + b, m) - Power(b, m))]
  BY <1>1, ReducingEmi
<1> DEFINE num == p * a * Power(a + b, m)
           den == b * (Power(a + b, m) - Power(b, m))
           f == num \div den
<1>3. num \in Nat \ {0} /\ den \in Nat \ {0}
  BY EmiIsFraction
<1>4. f \in Int /\ den * f <= num
  <2> HIDE DEF num, den
  <2>1. QED
    BY <1>3, DivBounds
<1>5. w < f
  <2>1. l.product # "PER_1000" /\ l.periods # 1
    BY <1>1
  <2>2. CeilDiv(EmiOf(l).num, EmiOf(l).den) < EmiOver(l, m).num \div EmiOver(l, m).den
    BY <1>1, <2>1 DEF OutlastsRounding
  <2>3. CeilDiv(EmiOf(l).num, EmiOf(l).den) \in Int
    <3>1. EmiOf(l).num \in Nat \ {0} /\ EmiOf(l).den \in Nat \ {0}
      BY EmiTyped, AgreedTypes DEF EmiOf
    <3>2. EmiOf(l).num \in Int
      BY <3>1
    <3>3. QED
      BY <3>1, <3>2, CeilDivBounds
  <2>4. CeilDiv(EmiOf(l).num, EmiOf(l).den) < f
    BY <1>2, <2>2
  <2> HIDE DEF f
  <2>5. QED
    BY <1>4, <2>3, <2>4
<1> HIDE DEF f
<1>6. ASSUME NEW i \in 0..m - 1
      PROVE  /\ balance[i] - (w - Interest(l, balance[i])) \in Int
             /\ b * (balance[i] - (w - Interest(l, balance[i]))) >= (a + b) * balance[i] - b * f
  <2>1. PICK v \in Int : v = balance[i]
    BY <1>1
  <2>2. Interest(l, v) = RoundDiv(v * a, b)
    BY <1>1 DEF Interest
  <2>3. PICK r \in Int : r = Interest(l, v) /\ 2 * (v * a) - b <= 2 * b * r
    <3> DEFINE c == v * a
    <3>1. c \in Int
      OBVIOUS
    <3> HIDE DEF c
    <3>2. RoundDiv(c, b) \in Int /\ 2 * c - b < 2 * b * RoundDiv(c, b)
      BY <3>1, RoundDivBounds
    <3>3. QED
      BY <2>2, <3>1, <3>2 DEF c
  <2>4. b * f >= b * (w + 1)
    <3>1. \A x, y \in Int : x >= y => b * x >= b * y
      OBVIOUS
    <3>2. QED
      BY <1>4, <1>5, <3>1
  <2>5. b * (v - (w - r)) >= (a + b) * v - b * f
    <3>1. b * (v - (w - r)) = b * v - b * w + b * r /\ b * (w + 1) = b * w + b
          /\ (a + b) * v = v * a + b * v /\ 2 * b * r = 2 * (b * r)
      OBVIOUS
    <3>2. b * v \in Int /\ b * w \in Int /\ b * r \in Int /\ v * a \in Int /\ b * f \in Int
      BY <1>4
    <3>3. QED
      BY <2>3, <2>4, <3>1, <3>2
  <2>6. QED
    BY <2>1, <2>3, <2>5
<1>7. \A i \in 0..m - 2 : b * balance[i + 1] >= (a + b) * balance[i] - b * f
  <2>1. ASSUME NEW i \in 0..m - 2 PROVE b * balance[i + 1] >= (a + b) * balance[i] - b * f
    <3>1. i \in 0..m - 1 /\ i \in 0..l.periods - 3
      BY <1>1
    <3>2. QED
      BY <1>6, <3>1
  <2>2. QED
    BY <2>1
<1>8. \A i \in 0..m - 1 : \A x \in Int : b * x >= (a + b) * balance[i] - b * f => x >= 0
  <2>1. \A i \in 0..m - 1 : balance[i] \in Int
    BY <1>1
  <2>2. b * (Power(a + b, m) - Power(b, m)) * f <= p * a * Power(a + b, m)
    BY <1>4
  <2>3. balance[0] = p
    BY <1>1
  <2> HIDE DEF num, den
  <2>4. QED
    BY <1>4, <1>7, <2>1, <2>2, <2>3, BalanceLasts
<1>9. QED
  BY <1>1, <1>6, <1>8

(* No principal of a weekly loan that outlasts its rounding is negative.   *)
LEMMA WeeklyPrincipalNonnegative ==
    ASSUME NEW l, Agreed(l), l.product = "WEEKLY", OutlastsRounding(l), ~RoundedUp(l),
           NEW i \in 1..l.periods
    PROVE  WeeklyPrincipal(l, i, WeeklyBalance(l)[i - 1]) >= 0
<1>1. PICK n \in Nat \ {0}, p \in Nat \ {0} : n = l.periods /\ p = l.principal
  BY AgreedTypes
<1>2. l.product # "PER_1000" /\ i \in 1..n /\ i - 1 \in 0..n - 1
  BY <1>1
<1>3. CASE Flat(l)
  <2>1. n * (n - 1) <= 2 * p
    <3>1. n * (n - 1) <= p /\ n * (n - 1) \in Int
      BY <1>1, <1>2, <1>3, FlatOutlasts
    <3>2. QED
      BY <3>1
  <2>2. PICK r \in Nat : r = RoundDiv(p, n) /\ (n - 1) * r <= p
    <3>1. RoundDiv(p, n) \in Nat /\ (n - 1) * RoundDiv(p, n) <= p
      BY <2>1, SharesFit
    <3>2. QED
      BY <3>1
  <2>3. CASE i < n
    <3>1. WeeklyPrincipal(l, i, WeeklyBalance(l)[i - 1]) = r
      BY <1>1, <1>3, <2>2, <2>3 DEF WeeklyPrincipal
    <3>2. QED
      BY <2>2, <3>1
  <2>4. CASE i = n
    <3>1. WeeklyPrincipal(l, i, WeeklyBalance(l)[i - 1]) = WeeklyBalance(l)[n - 1]
      BY <1>1, <2>4 DEF WeeklyPrincipal
    <3>2. WeeklyBalance(l)[n - 1] = p - (n - 1) * r
      BY <1>1, <1>2, <1>3, <2>2, WeeklyFlatBalance, n - 1 \in 0..n - 1
    <3>3. (n - 1) * r \in Int
      OBVIOUS
    <3>4. QED
      BY <2>2, <3>1, <3>2, <3>3
  <2>5. QED
    BY <1>2, <2>3, <2>4
<1>4. CASE ~Flat(l)
  <2>1. l.emiRounding = 0
    BY <1>2, <1>4, AgreedTypes DEF Flat, RoundedUp
  <2>2. PICK w \in Int : w = WeeklyEmi(l) /\ w <= CeilDiv(EmiOf(l).num, EmiOf(l).den)
    BY <1>2, <2>1, WeeklyEmiBounds
  <2> DEFINE balance == WeeklyBalance(l)
  <2>3. \A j \in 0..n : balance[j] \in Int
    BY <1>1, <1>2, WeeklyBalanceUnfolds
  <2>4. balance[0] = p
    BY <1>1, <1>2, WeeklyBalanceUnfolds
  <2>5. ASSUME NEW j \in 1..n, j < n
        PROVE  /\ WeeklyPrincipal(l, j, balance[j - 1]) = w - Interest(l, balance[j - 1])
               /\ balance[j] = balance[j - 1] - (w - Interest(l, balance[j - 1]))
    <3>1. WeeklyPrincipal(l, j, balance[j - 1]) = w - Interest(l, balance[j - 1])
      BY <1>1, <1>4, <2>2, <2>5 DEF WeeklyPrincipal
    <3>2. balance[j] = balance[j - 1] - WeeklyPrincipal(l, j, balance[j - 1])
      BY <1>1, <1>2, <2>5, WeeklyBalanceUnfolds
    <3>3. QED
      BY <3>1, <3>2
  <2> HIDE DEF balance
  <2>6. \A j \in 0..n - 1 : balance[j] <= p
    <3> DEFINE Good == {j \in 0..n - 1 : balance[j] <= p}
    <3>1. 0 \in Good
      BY <2>4
    <3>2. ASSUME NEW j \in 0..n - 1, j \in Good, j < n - 1 PROVE j + 1 \in Good
      <4>1. j + 1 \in 1..n /\ j + 1 < n /\ (j + 1) - 1 = j /\ j \in 0..n /\ j + 1 \in 0..n - 1
        BY <3>2
      <4>2. balance[j + 1] = balance[j] - (w - Interest(l, balance[j]))
        <5>1. PICK t \in 1..n : t = j + 1 /\ t < n /\ t - 1 = j
          BY <4>1
        <5>2. QED
          BY <2>5, <5>1
      <4>3. balance[j] \in Int /\ balance[j] <= p
        BY <2>3, <3>2, <4>1
      <4>4. w - Interest(l, balance[j]) >= 0
        BY <1>1, <1>2, <1>4, <2>1, <2>2, <4>3, WeeklyReducingFalls
      <4>5. Interest(l, balance[j]) \in Int
        BY <1>2, <4>3, InterestTyped
      <4>6. QED
        BY <4>1, <4>2, <4>3, <4>4, <4>5
    <3>3. Good \in SUBSET (0..n - 1) /\ n - 1 \in Nat
      OBVIOUS
    <3>4. \A j \in 0..n - 1 : j \in Good
      <4> HIDE DEF Good
      <4>1. QED
        BY <3>1, <3>2, <3>3, IntervalInduction
    <3>5. QED
      BY <3>4
  <2>7. CASE i < n
    <3>1. balance[i - 1] \in Int /\ balance[i - 1] <= l.principal
      BY <1>1, <1>2, <2>3, <2>6, i - 1 \in 0..n
    <3>2. w - Interest(l, balance[i - 1]) >= 0
      BY <1>2, <1>4, <2>1, <2>2, <3>1, WeeklyReducingFalls
    <3>3. WeeklyPrincipal(l, i, balance[i - 1]) = w - Interest(l, balance[i - 1])
      BY <1>2, <2>5, <2>7
    <3>4. QED
      BY <3>2, <3>3 DEF balance
  <2>8. CASE i = n
    <3>1. WeeklyPrincipal(l, i, balance[i - 1]) = balance[n - 1]
      BY <1>1, <2>8 DEF WeeklyPrincipal
    <3>2. CASE n = 1
      BY <2>4, <3>1, <3>2 DEF balance
    <3>3. CASE n > 1
      <4>1. \A j \in 0..n - 2 : balance[j] \in Int
        BY <2>3
      <4>2. \A j \in 0..n - 3 : balance[j + 1] = balance[j] - (w - Interest(l, balance[j]))
        <5>1. ASSUME NEW j \in 0..n - 3
              PROVE  balance[j + 1] = balance[j] - (w - Interest(l, balance[j]))
          <6>1. PICK t \in 1..n : t = j + 1 /\ t < n /\ t - 1 = j
            OBVIOUS
          <6>2. QED
            BY <2>5, <6>1
        <5>2. QED
          BY <5>1
      <4>3. \A j \in 0..n - 2 : balance[j] - (w - Interest(l, balance[j])) >= 0
        BY <1>1, <1>2, <1>4, <2>2, <2>4, <3>3, <4>1, <4>2, ReducingLasts
      <4>4. balance[n - 1] = balance[n - 2] - (w - Interest(l, balance[n - 2]))
        <5>1. PICK t \in 1..n : t = n - 1 /\ t < n /\ t - 1 = n - 2
          BY <3>3
        <5>2. QED
          BY <2>5, <5>1
      <4>5. n - 2 \in 0..n - 2
        BY <3>3
      <4>6. balance[n - 1] >= 0
        BY <4>3, <4>4, <4>5
      <4>7. QED
        BY <3>1, <4>6 DEF balance
    <3>4. QED
      BY <3>2, <3>3
  <2>9. QED
    BY <1>2, <2>7, <2>8
<1>5. QED
  BY <1>3, <1>4

(* A weekly schedule adds up.                                              *)
LEMMA WeeklyAddsUp ==
    ASSUME NEW l, Agreed(l), l.product = "WEEKLY"
    PROVE  AddsUp(l)
<1>1. PICK n \in Nat \ {0}, p \in Nat \ {0} : n = l.periods /\ p = l.principal
  BY AgreedTypes
<1>2. l.product # "PER_1000"
  OBVIOUS
<1> DEFINE S == WeeklySchedule(l)
           f == [i \in 1..n |-> S[i].principal]
           balance == WeeklyBalance(l)
           over(i) == S[i].total - S[i].principal - S[i].interest
<1>3. \A i \in 1..n : /\ S[i].principal = WeeklyPrincipal(l, i, balance[i - 1])
                      /\ S[i].interest = Interest(l, balance[i - 1])
                      /\ S[i].total = IF i < n THEN WeeklyEmi(l) ELSE S[i].principal + S[i].interest
                      /\ S[i].principal \in Int /\ S[i].interest \in Int
                      /\ i - 1 \in 0..n
  BY <1>1, WeeklyRow
<1>4. \A i \in 0..n : balance[i] \in Int
  BY <1>1, <1>2, WeeklyBalanceUnfolds
<1>5. balance[0] = p /\ \A i \in 1..n : balance[i] = balance[i - 1] - WeeklyPrincipal(l, i, balance[i - 1])
  BY <1>1, <1>2, WeeklyBalanceUnfolds
<1> HIDE DEF S, balance
<1>6. SumFunctionOnSet(f, 1..n) = p
  <2>1. \A i \in 1..n : f[i] \in Int
    BY <1>3
  <2>2. \A i \in 1..n : balance[i] = balance[i - 1] - f[i]
    BY <1>3, <1>5
  <2>3. \A i \in 1..n : balance[i] >= balance[i - 1] - f[i]
    BY <1>3, <1>4, <2>1, <2>2
  <2>4. SumFunctionOnSet(f, 1..n) = balance[0] - balance[n]
    <3> HIDE DEF f
    <3>1. QED
      BY <1>4, <2>1, <2>2, <2>3, SumTelescopes
  <2>5. n \in 1..n /\ n - 1 \in 0..n
    OBVIOUS
  <2>6. balance[n] = 0
    <3>1. WeeklyPrincipal(l, n, balance[n - 1]) = balance[n - 1]
      BY <1>1 DEF WeeklyPrincipal
    <3>2. QED
      BY <1>4, <1>5, <2>5, <3>1
  <2>7. QED
    BY <1>5, <2>4, <2>6
<1>7. ASSUME OutlastsRounding(l), ~RoundedUp(l), NEW i \in 1..n
      PROVE  S[i].principal >= 0
  BY <1>1, <1>3, <1>7, WeeklyPrincipalNonnegative DEF balance
<1>8. ASSUME NEW i \in 1..n
      PROVE  over(i) \in -1..1 \/ (Flat(l) /\ over(i) > 0)
  <2>1. CASE i = n
    BY <1>3, <2>1
  <2>2. CASE i < n /\ ~Flat(l)
    <3>1. S[i].principal = WeeklyEmi(l) - S[i].interest
      BY <1>1, <1>3, <2>2 DEF WeeklyPrincipal
    <3>2. S[i].total = WeeklyEmi(l) /\ WeeklyEmi(l) \in Int /\ S[i].interest \in Int
      BY <1>2, <1>3, <2>2, WeeklyEmiBounds
    <3>3. over(i) = 0
      BY <3>1, <3>2
    <3>4. QED
      BY <3>3
  <2>3. CASE i < n /\ Flat(l)
    <3>1. PICK a \in Nat, b \in Nat \ {0}, w \in Int : a = l.rate.num /\ b = l.rate.den /\ w = WeeklyEmi(l)
      BY <1>2, AgreedTypes, WeeklyEmiBounds
    <3>2. EmiOf(l) = [num |-> p * (b + a * n), den |-> n * b]
      BY <1>1, <1>2, <2>3, <3>1, FlatEmi DEF EmiOf
    <3>3. over(i) = w - RoundDiv(p, n) - RoundDiv(p * a, b)
      <4>1. S[i].principal = RoundDiv(p, n) /\ S[i].total = w
        BY <1>1, <1>3, <2>3, <3>1 DEF WeeklyPrincipal
      <4>2. S[i].interest = RoundDiv(p * a, b)
        BY <1>1, <1>3, <2>3, <3>1 DEF Interest
      <4>3. QED
        BY <4>1, <4>2
    <3>4. 2 * (p * (b + a * n)) - n * b <= 2 * (n * b) * w
      BY <1>2, <3>1, <3>2, WeeklyEmiBounds
    <3>5. over(i) >= -1
      BY <3>1, <3>3, <3>4, SharesAddUp, ZenonT(30)
    <3>6. over(i) \in Int
      BY <1>3, <2>3, <3>1
    <3> HIDE DEF over
    <3>7. QED
      BY <2>3, <3>5, <3>6
  <2>4. QED
    BY <2>1, <2>2, <2>3
<1>9. Schedule(l) = S
  BY DEF Schedule, S
<1>10. QED
  BY <1>1, <1>2, <1>6, <1>7, <1>8, <1>9 DEF AddsUp

-----------------------------------------------------------------------------
(* Daily loans. *)

(* The daily EMI is what was agreed, or that rounded up.                   *)
LEMMA DailyEmiTyped ==
    ASSUME NEW l, Agreed(l), l.product # "PER_1000"
    PROVE  /\ DailyEmi(l).num \in Int /\ DailyEmi(l).den \in Nat \ {0}
           /\ l.emiRounding = 0 => DailyEmi(l) = EmiOf(l)
<1>1. PICK num, den \in Nat \ {0} : num = EmiOf(l).num /\ den = EmiOf(l).den
  <2>1. EmiOf(l).num \in Nat \ {0} /\ EmiOf(l).den \in Nat \ {0}
    BY EmiTyped, AgreedTypes DEF EmiOf
  <2>2. QED
    BY <2>1
<1>2. CASE l.emiRounding = 0
  <2>1. DailyEmi(l) = EmiOf(l)
    BY <1>2 DEF DailyEmi
  <2>2. QED
    BY <1>1, <2>1
<1>3. CASE l.emiRounding # 0
  <2>1. PICK k \in Nat \ {0} : k = l.emiRounding
    <3>1. l.emiRounding \in Nat \ {0}
      BY <1>3, AgreedTypes
    <3>2. QED
      BY <3>1
  <2>2. DailyEmi(l) = [num |-> CeilDiv(num, den * k) * k, den |-> 1]
    BY <1>1, <1>3, <2>1 DEF DailyEmi
  <2>3. PICK d \in Nat \ {0} : d = den * k
    OBVIOUS
  <2>4. CeilDiv(num, d) \in Int
    BY CeilDivBounds, num \in Int
  <2>5. CeilDiv(num, d) * k \in Int
    BY <2>4
  <2>6. QED
    BY <1>3, <2>2, <2>3, <2>5
<1>4. QED
  BY <1>2, <1>3

(* Only the part of an installment that its interest leaves goes to the    *)
(* principal, and never less than nothing.                                 *)
LEMMA DailyPrincipalTyped ==
    ASSUME NEW l, Agreed(l), l.product # "PER_1000", NEW i \in 1..l.periods, NEW balance \in Int
    PROVE  /\ DailyPrincipal(l, i, balance) \in Int
           /\ balance >= 0 => DailyPrincipal(l, i, balance) >= 0
<1>1. PICK p, n, b, den \in Nat \ {0}, a \in Nat, num \in Int :
           /\ p = l.principal /\ n = l.periods /\ a = l.rate.num /\ b = l.rate.den
           /\ num = DailyEmi(l).num /\ den = DailyEmi(l).den
  <2>1. /\ l.principal \in Nat \ {0} /\ l.periods \in Nat \ {0} /\ l.rate.num \in Nat
        /\ l.rate.den \in Nat \ {0}
    BY AgreedTypes
  <2>2. QED
    BY <2>1, DailyEmiTyped
<1> DEFINE share == RoundDiv(num * b - balance * a * den, den * b)
<1>2. share \in Int
  <2> DEFINE c == num * b - balance * a * den
             d == den * b
  <2>1. c \in Int /\ d \in Nat \ {0}
    OBVIOUS
  <2> HIDE DEF c, d
  <2>2. RoundDiv(c, d) \in Int
    BY <2>1, RoundDivBounds
  <2>3. QED
    BY <2>2 DEF c, d
<1>3. RoundDiv(p, n) \in Int /\ RoundDiv(p, n) >= 0
  BY RoundDivBounds, RoundDivNonnegative, p \in Int, 0 <= 2 * p + n
<1> DEFINE q == DailyPrincipal(l, i, balance)
<1>4. CASE i = n
  <2>1. q = balance
    BY <1>1, <1>4 DEF DailyPrincipal
  <2>2. QED
    BY <2>1
<1>5. CASE i # n /\ l.calculation = "FLAT"
  <2>1. q = RoundDiv(p, n)
    BY <1>1, <1>5 DEF DailyPrincipal
  <2>2. QED
    BY <1>3, <2>1
<1>6. CASE i # n /\ l.calculation # "FLAT"
  <2>1. q = Greatest(0, share)
    BY <1>1, <1>6 DEF DailyPrincipal
  <2> HIDE DEF share, q
  <2>2. q \in Int /\ q >= 0
    BY <1>2, <2>1 DEF Greatest
  <2>3. QED
    BY <2>2 DEF q
<1>7. QED
  BY <1>4, <1>5, <1>6

(* One step of DailyBalance, and the functions that unfold as it does.     *)
DailyStep(l) == [i \in 1..l.periods |-> [v \in Nat |-> Greatest(0, v - DailyPrincipal(l, i, v))]]
DailyBalances(l, f) ==
    [i \in 0..l.periods |->
        IF i = 0 THEN l.principal ELSE Greatest(0, f[i - 1] - DailyPrincipal(l, i, f[i - 1]))]

(* The balance after each installment of a daily loan is not negative.    *)
LEMMA DailyBalanceUnfolds ==
    ASSUME NEW l, Agreed(l), l.product # "PER_1000"
    PROVE  /\ \A i \in 0..l.periods : DailyBalance(l)[i] \in Nat
           /\ DailyBalance(l)[0] = l.principal
           /\ \A i \in 1..l.periods :
                 DailyBalance(l)[i] =
                     Greatest(0, DailyBalance(l)[i - 1] - DailyPrincipal(l, i, DailyBalance(l)[i - 1]))
<1> DEFINE n == l.periods
           step == DailyStep(l)
<1>1. n \in Nat \ {0} /\ l.principal \in Nat
  BY AgreedTypes
<1> DEFINE falls(i, v) == Greatest(0, v - DailyPrincipal(l, i, v))
<1>2. ASSUME NEW i \in 1..n, NEW v \in Nat PROVE step[i][v] = falls(i, v) /\ falls(i, v) \in Nat
  <2>1. DailyPrincipal(l, i, v) \in Int
    BY DailyPrincipalTyped
  <2>2. QED
    BY <2>1 DEF DailyStep, Greatest
<1>3. \E f : f = DailyBalances(l, f)
  <2>1. PICK f : f = Unfolding(n, l.principal, step, f)
    BY <1>1, RecursionHasSolution
  <2>2. \A i \in 0..n : f[i] \in Nat
    <3>1. \A i \in 1..n : \A v \in Nat : step[i][v] \in Nat
      BY <1>2
    <3> HIDE DEF n, step
    <3>2. QED
      BY <1>1, <2>1, <3>1, RecursionTyped
  <2>3. ASSUME NEW i \in 0..n, i # 0
        PROVE  step[i][f[i - 1]] = Greatest(0, f[i - 1] - DailyPrincipal(l, i, f[i - 1]))
    <3>1. i \in 1..n /\ i - 1 \in 0..n
      BY <1>1, <2>3
    <3>2. QED
      BY <1>2, <2>2, <3>1
  <2>4. Unfolding(n, l.principal, step, f) = DailyBalances(l, f)
    BY <2>3 DEF Unfolding, DailyBalances
  <2>5. QED
    BY <2>1, <2>4
<1> DEFINE balance == CHOOSE f : f = DailyBalances(l, f)
<1>4. DailyBalance(l) = balance
  BY DEF DailyBalance, DailyBalances
<1>5. balance = DailyBalances(l, balance)
  BY <1>3
<1> HIDE DEF balance, step
<1>6. \A i \in 0..n : balance[i] = IF i = 0 THEN l.principal
                                   ELSE Greatest(0, balance[i - 1] - DailyPrincipal(l, i, balance[i - 1]))
  <2>1. \A i \in 0..n :
            DailyBalances(l, balance)[i] =
                IF i = 0 THEN l.principal ELSE Greatest(0, balance[i - 1] - DailyPrincipal(l, i, balance[i - 1]))
    BY DEF DailyBalances
  <2>2. QED
    BY <1>5, <2>1
<1>7. \A i \in 0..n : balance[i] \in Nat
  <2> DEFINE Good == {k \in 0..n : balance[k] \in Nat}
  <2>1. 0 \in Good
    BY <1>1, <1>6
  <2>2. ASSUME NEW k \in 0..n, k \in Good, k < n PROVE k + 1 \in Good
    <3>1. k + 1 \in 1..n /\ k + 1 \in 0..n /\ k + 1 # 0 /\ (k + 1) - 1 = k
      BY <1>1, <2>2
    <3>2. balance[k + 1] = falls(k + 1, balance[k])
      BY <1>6, <3>1
    <3>3. falls(k + 1, balance[k]) \in Nat
      BY <1>2, <2>2, <3>1
    <3>4. QED
      BY <3>1, <3>2, <3>3
  <2>3. Good \in SUBSET (0..n)
    OBVIOUS
  <2>4. \A k \in 0..n : k \in Good
    <3> HIDE DEF Good, n
    <3>1. QED
      BY <1>1, <2>1, <2>2, <2>3, IntervalInduction
  <2>5. QED
    BY <2>4
<1>8. \A i \in 1..n : i \in 0..n /\ i # 0
  BY <1>1
<1>9. 0 \in 0..n
  BY <1>1
<1>10. QED
  BY <1>4, <1>6, <1>7, <1>8, <1>9

(* A daily schedule, by the balance before each installment.               *)
LEMMA DailyRow ==
    ASSUME NEW l, Agreed(l), l.product = "DAILY", NEW i \in 1..l.periods
    PROVE  /\ i - 1 \in 0..l.periods
           /\ DailySchedule(l)[i].principal = DailyPrincipal(l, i, DailyBalance(l)[i - 1])
           /\ DailySchedule(l)[i].interest = Interest(l, DailyBalance(l)[i - 1])
           /\ DailySchedule(l)[i].total =
                 DailySchedule(l)[i].principal + DailySchedule(l)[i].interest
           /\ DailySchedule(l)[i].principal \in Nat /\ DailySchedule(l)[i].interest \in Int
<1>1. i - 1 \in 0..l.periods
  BY AgreedTypes
<1>2. DailyBalance(l)[i - 1] \in Nat
  BY <1>1, DailyBalanceUnfolds
<1>3. /\ DailyPrincipal(l, i, DailyBalance(l)[i - 1]) \in Nat
      /\ Interest(l, DailyBalance(l)[i - 1]) \in Int
  BY <1>2, DailyPrincipalTyped, InterestTyped
<1>4. QED
  BY <1>1, <1>3 DEF DailySchedule

(* What is rounded depends on the fraction only.                           *)
LEMMA RoundDivScale ==
    ASSUME NEW a \in Int, NEW b \in Nat \ {0}, NEW c \in Nat \ {0}
    PROVE  RoundDiv(a * c, b * c) = RoundDiv(a, b)
<1>1. PICK u \in Int, v \in Nat \ {0} : u = a * c /\ v = b * c
  OBVIOUS
<1>2. u * b <= a * v /\ a * v <= u * b
  <2>1. u * b = a * v /\ u * b \in Int
    BY <1>1
  <2>2. QED
    BY <2>1
<1>3. RoundDiv(u, v) <= RoundDiv(a, b) /\ RoundDiv(a, b) <= RoundDiv(u, v)
  BY <1>2, RoundDivOrder
<1>4. RoundDiv(u, v) \in Int /\ RoundDiv(a, b) \in Int
  BY RoundDivBounds
<1>5. QED
  BY <1>1, <1>3, <1>4

(* Without interest on a balance, each daily installment but the last      *)
(* takes the same share.                                                   *)
LEMMA DailyFlatShare ==
    ASSUME NEW l, Agreed(l), l.product # "PER_1000", Flat(l), ~RoundedUp(l),
           NEW i \in 1..l.periods, i < l.periods, NEW balance \in Int
    PROVE  DailyPrincipal(l, i, balance) = RoundDiv(l.principal, l.periods)
<1>1. PICK p, n, b \in Nat \ {0} : p = l.principal /\ n = l.periods /\ b = l.rate.den
  <2>1. l.principal \in Nat \ {0} /\ l.periods \in Nat \ {0} /\ l.rate.den \in Nat \ {0}
    BY AgreedTypes
  <2>2. QED
    BY <2>1
<1>2. CASE l.calculation = "FLAT"
  BY <1>1, <1>2 DEF DailyPrincipal
<1>3. CASE l.calculation # "FLAT"
  <2>1. l.rate.num = 0 /\ l.emiRounding = 0
    BY <1>3, AgreedTypes DEF Flat, RoundedUp
  <2>2. DailyEmi(l) = [num |-> p * (b + 0 * n), den |-> n * b]
    BY <1>1, <2>1, DailyEmiTyped, FlatEmi DEF EmiOf
  <2>3. DailyPrincipal(l, i, balance) =
            Greatest(0, RoundDiv((p * (b + 0 * n)) * b - balance * 0 * (n * b), (n * b) * b))
    BY <1>1, <1>3, <2>1, <2>2 DEF DailyPrincipal
  <2>4. /\ (p * (b + 0 * n)) * b - balance * 0 * (n * b) = p * (b * b)
        /\ (n * b) * b = n * (b * b)
    OBVIOUS
  <2>5. RoundDiv(p * (b * b), n * (b * b)) = RoundDiv(p, n)
    <3>1. b * b \in Nat \ {0} /\ p \in Int
      OBVIOUS
    <3> DEFINE c == b * b
    <3> HIDE DEF c
    <3>2. RoundDiv(p * c, n * c) = RoundDiv(p, n)
      BY <3>1, RoundDivScale DEF c
    <3>3. QED
      BY <3>2 DEF c
  <2>6. DailyPrincipal(l, i, balance) = Greatest(0, RoundDiv(p, n))
    BY <2>3, <2>4, <2>5
  <2>7. RoundDiv(p, n) \in Int /\ RoundDiv(p, n) >= 0
    BY RoundDivBounds, RoundDivNonnegative, p \in Int, 0 <= 2 * p + n
  <2>8. QED
    BY <1>1, <2>6, <2>7 DEF Greatest
<1>4. QED
  BY <1>2, <1>3

(* No daily installment takes more than is outstanding.                    *)
LEMMA DailyFlatLasts ==
    ASSUME NEW l, Agreed(l), l.product = "DAILY", Flat(l), OutlastsRounding(l), ~RoundedUp(l),
           NEW i \in 1..l.periods
    PROVE  DailyPrincipal(l, i, DailyBalance(l)[i - 1]) <= DailyBalance(l)[i - 1]
<1>1. PICK n \in Nat \ {0}, p \in Nat \ {0} : n = l.periods /\ p = l.principal
  BY AgreedTypes
<1>2. l.product # "PER_1000" /\ i \in 1..n /\ i - 1 \in 0..n - 1
  BY <1>1
<1>3. n * (n - 1) <= 2 * p
  <2>1. n * (n - 1) <= p /\ n * (n - 1) \in Int
    BY <1>1, <1>2, FlatOutlasts
  <2>2. QED
    BY <2>1
<1>4. PICK r \in Nat : r = RoundDiv(p, n) /\ (n - 1) * r <= p
  <2>1. RoundDiv(p, n) \in Nat /\ (n - 1) * RoundDiv(p, n) <= p
    BY <1>3, SharesFit
  <2>2. QED
    BY <2>1
<1>5. \A k \in 0..n - 1 : k * r <= (n - 1) * r /\ k * r \in Int /\ (n - 1) * r \in Int
  <2>1. \A x, y \in Nat : x <= y => x * r <= y * r
    OBVIOUS
  <2>2. QED
    BY <2>1
<1> DEFINE balance == DailyBalance(l)
           Good == {j \in 0..n - 1 : balance[j] = p - j * r}
<1>6. \A j \in 0..n : balance[j] \in Nat
  BY <1>1, <1>2, DailyBalanceUnfolds
<1>7. ASSUME NEW j \in 1..n, j < n
      PROVE  balance[j] = Greatest(0, balance[j - 1] - r) /\ DailyPrincipal(l, j, balance[j - 1]) = r
  <2>1. balance[j - 1] \in Int
    BY <1>6
  <2>2. DailyPrincipal(l, j, balance[j - 1]) = r
    BY <1>1, <1>2, <1>4, <1>7, <2>1, DailyFlatShare
  <2>3. QED
    BY <1>1, <1>2, <2>2, DailyBalanceUnfolds
<1>8. 0 \in Good
  <2>1. balance[0] = p
    BY <1>1, <1>2, DailyBalanceUnfolds
  <2>2. QED
    BY <2>1
<1> HIDE DEF balance
<1>9. ASSUME NEW j \in 0..n - 1, j \in Good, j < n - 1 PROVE j + 1 \in Good
  <2>1. PICK t \in 1..n : t = j + 1 /\ t < n /\ t - 1 = j
    BY <1>9
  <2>2. balance[j + 1] = Greatest(0, balance[j] - r)
    BY <1>7, <2>1
  <2>3. (j + 1) * r <= p /\ (j + 1) * r = j * r + r /\ j * r \in Int
    <3>1. j + 1 \in 0..n - 1
      BY <1>9
    <3>2. QED
      BY <1>4, <1>5, <3>1
  <2>4. QED
    BY <1>9, <2>2, <2>3 DEF Greatest
<1>10. \A j \in 0..n - 1 : balance[j] = p - j * r
  <2>1. Good \in SUBSET (0..n - 1) /\ n - 1 \in Nat
    OBVIOUS
  <2>2. \A j \in 0..n - 1 : j \in Good
    <3> HIDE DEF Good
    <3>1. QED
      BY <1>8, <1>9, <2>1, IntervalInduction
  <2>3. QED
    BY <2>2
<1>11. CASE i = n
  <2>1. DailyPrincipal(l, i, balance[i - 1]) = balance[i - 1]
    BY <1>1, <1>11 DEF DailyPrincipal
  <2>2. balance[i - 1] \in Nat
    BY <1>2, <1>6
  <2>3. QED
    BY <2>1, <2>2 DEF balance
<1>12. CASE i < n
  <2>1. DailyPrincipal(l, i, balance[i - 1]) = r
    BY <1>2, <1>7, <1>12
  <2>2. balance[i - 1] = p - (i - 1) * r
    BY <1>2, <1>10
  <2>3. i * r <= p /\ i * r = (i - 1) * r + r /\ (i - 1) * r \in Int
    <3>1. i \in 0..n - 1
      BY <1>12
    <3>2. QED
      BY <1>4, <1>5, <3>1
  <2>4. QED
    BY <2>1, <2>2, <2>3 DEF balance
<1>13. QED
  BY <1>2, <1>11, <1>12

(* One installment of a daily reducing loan against the EMI over one       *)
(* period less, f at least.                                                *)
LEMMA DailyReducingStep ==
    ASSUME NEW p \in Nat \ {0}, NEW a \in Nat \ {0}, NEW b \in Nat \ {0}, NEW num \in Nat \ {0},
           NEW den \in Nat \ {0}, (p * a) * den <= num * b,
           NEW f \in Int, CeilDiv(num, den) < f, NEW v \in Nat, v <= p
    PROVE  LET q == Greatest(0, RoundDiv(num * b - v * a * den, den * b))
           IN  q \in Int /\ b * (v - q) >= (a + b) * v - b * f
<1>1. PICK e \in Int : e < f /\ num <= den * e
  <2>1. CeilDiv(num, den) \in Int /\ num <= den * CeilDiv(num, den)
    BY CeilDivBounds, num \in Int
  <2>2. QED
    BY <2>1
<1>2. PICK s \in Int : /\ s = RoundDiv(num * b - v * a * den, den * b)
                       /\ 2 * (den * b) * s <= 2 * (num * b - v * a * den) + den * b
  <2> DEFINE c == num * b - v * a * den
             d == den * b
  <2>1. c \in Int /\ d \in Nat \ {0}
    OBVIOUS
  <2> HIDE DEF c, d
  <2>2. RoundDiv(c, d) \in Int /\ 2 * d * RoundDiv(c, d) <= 2 * c + d
    BY <2>1, RoundDivBounds
  <2>3. QED
    BY <2>2 DEF c, d
<1>3. num * b <= den * (b * e)
  <2>1. \A x, y \in Int : x <= y => b * x <= b * y
    OBVIOUS
  <2>2. b * num <= b * (den * e)
    BY <1>1, <2>1, den * e \in Int
  <2>3. QED
    BY <2>2
<1>4. b * e + b <= b * f
  <2>1. \A x, y \in Int : x <= y => b * x <= b * y
    OBVIOUS
  <2>2. b * (e + 1) <= b * f
    BY <1>1, <2>1
  <2>3. QED
    BY <2>2
<1>5. b * s <= b * f - v * a
  <2>1. 2 * (den * (b * s)) <= 2 * (den * (b * e)) - 2 * (den * (v * a)) + den * b
    <3>1. 2 * (den * b) * s = 2 * (den * (b * s)) /\ v * a * den = den * (v * a)
      OBVIOUS
    <3>2. /\ den * (b * s) \in Int /\ den * (b * e) \in Int /\ den * (v * a) \in Int
          /\ num * b \in Int /\ den * b \in Int
      OBVIOUS
    <3>3. QED
      BY <1>2, <1>3, <3>1, <3>2
  <2>2. den * (2 * (b * s)) <= den * (2 * (b * e) - 2 * (v * a) + b)
    BY <2>1
  <2>3. 2 * (b * s) <= 2 * (b * e) - 2 * (v * a) + b
    <3>1. \A x, y \in Int : den * x <= den * y => x <= y
      OBVIOUS
    <3>2. 2 * (b * s) \in Int /\ 2 * (b * e) - 2 * (v * a) + b \in Int
      OBVIOUS
    <3>3. QED
      BY <2>2, <3>1, <3>2
  <2>4. b * s \in Int /\ b * e \in Int /\ v * a \in Int /\ b * f \in Int
    OBVIOUS
  <2>5. QED
    BY <1>4, <2>3, <2>4
<1>6. v * a <= b * f
  <2>1. v * a <= p * a
    OBVIOUS
  <2>2. den * (p * a) <= den * (b * e)
    <3>1. (p * a) * den = den * (p * a) /\ (p * a) * den \in Int /\ num * b \in Int
          /\ den * (b * e) \in Int
      OBVIOUS
    <3>2. QED
      BY <1>3, <3>1
  <2>3. p * a <= b * e
    <3>1. \A x, y \in Int : den * x <= den * y => x <= y
      OBVIOUS
    <3>2. p * a \in Int /\ b * e \in Int
      OBVIOUS
    <3>3. QED
      BY <2>2, <3>1, <3>2
  <2>4. v * a \in Int /\ p * a \in Int /\ b * e \in Int /\ b * f \in Int
    OBVIOUS
  <2>5. QED
    BY <1>4, <2>1, <2>3, <2>4
<1>7. b * (v - s) >= (a + b) * v - b * f /\ b * (v - 0) >= (a + b) * v - b * f
  <2>1. /\ b * (v - s) = b * v - b * s /\ (a + b) * v = v * a + b * v /\ b * (v - 0) = b * v
        /\ b * s \in Int /\ b * v \in Int /\ v * a \in Int /\ b * f \in Int
    OBVIOUS
  <2>2. QED
    BY <1>5, <1>6, <2>1
<1>8. QED
  BY <1>2, <1>7 DEF Greatest

(* A reducing daily loan that outlasts its rounding is not paid off before *)
(* its last installment.                                                   *)
LEMMA DailyReducingLasts ==
    ASSUME NEW l, Agreed(l), l.product = "DAILY", ~Flat(l), OutlastsRounding(l), ~RoundedUp(l),
           NEW i \in 1..l.periods
    PROVE  DailyPrincipal(l, i, DailyBalance(l)[i - 1]) <= DailyBalance(l)[i - 1]
<1>1. PICK p, n, a, b \in Nat \ {0} :
           p = l.principal /\ n = l.periods /\ a = l.rate.num /\ b = l.rate.den
  <2>1. /\ l.principal \in Nat \ {0} /\ l.periods \in Nat \ {0} /\ l.rate.num \in Nat \ {0}
        /\ l.rate.den \in Nat \ {0}
    BY AgreedTypes, ReducingEmi
  <2>2. QED
    BY <2>1
<1>2. l.product # "PER_1000" /\ i \in 1..n /\ i - 1 \in 0..n - 1
  BY <1>1
<1> DEFINE balance == DailyBalance(l)
<1>3. \A j \in 0..n : balance[j] \in Nat
  BY <1>1, <1>2, DailyBalanceUnfolds
<1>4. CASE i = n
  <2>1. DailyPrincipal(l, i, balance[i - 1]) = balance[i - 1]
    BY <1>1, <1>4 DEF DailyPrincipal
  <2>2. balance[i - 1] \in Nat
    BY <1>2, <1>3
  <2> HIDE DEF balance
  <2>3. QED
    BY <2>1, <2>2 DEF balance
<1>5. CASE i < n
  <2>1. PICK m \in Nat \ {0} : m = n - 1
    BY <1>5
  <2>2. l.calculation = "REDUCING" /\ l.emiRounding = 0
    BY <1>2, AgreedTypes DEF Flat, RoundedUp
  <2> DEFINE num == p * a * Power(a + b, n)
             den == b * (Power(a + b, n) - Power(b, n))
             sooner == p * a * Power(a + b, m)
             per == b * (Power(a + b, m) - Power(b, m))
             f == sooner \div per
             q(v) == Greatest(0, RoundDiv(num * b - v * a * den, den * b))
  <2>3. DailyEmi(l) = [num |-> num, den |-> den]
    BY <1>1, <1>2, <2>2, DailyEmiTyped, ReducingEmi DEF EmiOf
  <2>4. /\ num \in Nat \ {0} /\ den \in Nat \ {0} /\ (p * a) * den <= num * b
        /\ sooner \in Nat \ {0} /\ per \in Nat \ {0}
    <3>1. num \in Nat \ {0} /\ den \in Nat \ {0} /\ sooner \in Nat \ {0} /\ per \in Nat \ {0}
      BY EmiIsFraction
    <3>2. (p * a) * den <= b * num
      BY EmiCoversInterest
    <3> HIDE DEF num, den, sooner, per
    <3>3. QED
      BY <3>1, <3>2
  <2>5. f \in Int /\ per * f <= sooner
    <3> HIDE DEF sooner, per
    <3>1. QED
      BY <2>4, DivBounds
  <2>6. CeilDiv(num, den) < f
    <3>1. EmiOf(l) = [num |-> num, den |-> den] /\ EmiOver(l, m) = [num |-> sooner, den |-> per]
      BY <1>1, <1>2, ReducingEmi DEF EmiOf
    <3>2. CeilDiv(EmiOf(l).num, EmiOf(l).den) < EmiOver(l, m).num \div EmiOver(l, m).den
      BY <1>1, <1>2, <1>5, <2>1 DEF OutlastsRounding
    <3>3. QED
      BY <3>1, <3>2
  <2>7. ASSUME NEW j \in 1..n, j < n
        PROVE  DailyPrincipal(l, j, balance[j - 1]) = q(balance[j - 1])
    BY <1>1, <2>2, <2>3, <2>7 DEF DailyPrincipal
  <2>8. ASSUME NEW j \in 1..n
        PROVE  balance[j] = Greatest(0, balance[j - 1] - DailyPrincipal(l, j, balance[j - 1]))
    BY <1>1, <1>2, DailyBalanceUnfolds
  <2>9. balance[0] = p
    BY <1>1, <1>2, DailyBalanceUnfolds
  <2> HIDE DEF balance, f
  <2>10. ASSUME NEW v \in Nat, v <= p
         PROVE  q(v) \in Int /\ q(v) >= 0 /\ b * (v - q(v)) >= (a + b) * v - b * f
    <3> HIDE DEF num, den
    <3>1. q(v) \in Int /\ b * (v - q(v)) >= (a + b) * v - b * f
      BY <2>4, <2>5, <2>6, <2>10, DailyReducingStep
    <3>2. RoundDiv(num * b - v * a * den, den * b) \in Int
      <4> DEFINE c == num * b - v * a * den
                 d == den * b
      <4>1. c \in Int /\ d \in Nat \ {0}
        BY <2>4
      <4> HIDE DEF c, d
      <4>2. RoundDiv(c, d) \in Int
        BY <4>1, RoundDivBounds
      <4>3. QED
        BY <4>2 DEF c, d
    <3> DEFINE r == RoundDiv(num * b - v * a * den, den * b)
    <3>3. q(v) >= 0
      <4>1. r \in Int /\ q(v) = Greatest(0, r)
        BY <3>2
      <4> HIDE DEF r, q
      <4>2. QED
        BY <4>1 DEF Greatest
    <3>4. QED
      BY <3>1, <3>3
  <2> HIDE DEF q
  <2>11. ASSUME NEW j \in 0..m - 1, balance[j] <= p
         PROVE  /\ balance[j + 1] = Greatest(0, balance[j] - q(balance[j]))
                /\ balance[j + 1] <= p
                /\ b * balance[j + 1] >= (a + b) * balance[j] - b * f
    <3>1. PICK t \in 1..n : t = j + 1 /\ t < n /\ t - 1 = j
      BY <2>1
    <3>2. balance[j + 1] = Greatest(0, balance[j] - q(balance[j]))
      BY <2>7, <2>8, <3>1
    <3>3. PICK v \in Nat : v = balance[j] /\ v <= p
      BY <1>3, <2>11, <3>1
    <3>4. q(v) \in Int /\ q(v) >= 0 /\ b * (v - q(v)) >= (a + b) * v - b * f
      BY <2>10, <3>3
    <3>5. PICK x \in Int : x = v - q(v) /\ x <= p /\ b * x >= (a + b) * v - b * f
      BY <3>3, <3>4
    <3>6. PICK y \in Nat : y = balance[j + 1] /\ y = Greatest(0, x)
      BY <1>3, <3>1, <3>2, <3>3, <3>5
    <3>7. x <= y /\ y <= p
      BY <3>5, <3>6 DEF Greatest
    <3>8. b * x <= b * y
      <4>1. \A s, u \in Int : s <= u => b * s <= b * u
        OBVIOUS
      <4>2. QED
        BY <3>7, <4>1
    <3>9. b * y >= (a + b) * v - b * f
      <4>1. b * x \in Int /\ b * y \in Int /\ (a + b) * v \in Int /\ b * f \in Int
        BY <2>5
      <4>2. QED
        BY <3>5, <3>8, <4>1
    <3>10. QED
      BY <3>2, <3>3, <3>6, <3>7, <3>9
  <2>12. \A j \in 0..m - 1 : balance[j] <= p
    <3> DEFINE Good == {j \in 0..m - 1 : balance[j] <= p}
    <3>1. 0 \in Good
      BY <2>9
    <3>2. ASSUME NEW j \in 0..m - 1, j \in Good, j < m - 1 PROVE j + 1 \in Good
      <4>1. balance[j + 1] <= p
        BY <2>11, <3>2
      <4>2. QED
        BY <3>2, <4>1
    <3>3. Good \in SUBSET (0..m - 1) /\ m - 1 \in Nat
      OBVIOUS
    <3>4. \A j \in 0..m - 1 : j \in Good
      <4> HIDE DEF Good
      <4>1. QED
        BY <3>1, <3>2, <3>3, IntervalInduction
    <3>5. QED
      BY <3>4
  <2>13. \A j \in 0..m - 1 : \A x \in Int : b * x >= (a + b) * balance[j] - b * f => x >= 0
    <3>1. \A j \in 0..m - 1 : balance[j] \in Int
      BY <1>3, <2>1
    <3>2. \A j \in 0..m - 2 : b * balance[j + 1] >= (a + b) * balance[j] - b * f
      <4>1. \A j \in 0..m - 2 : j \in 0..m - 1
        OBVIOUS
      <4>2. QED
        BY <2>11, <2>12, <4>1
    <3>3. b * (Power(a + b, m) - Power(b, m)) * f <= p * a * Power(a + b, m)
      BY <2>5
    <3> HIDE DEF sooner, per
    <3>4. QED
      BY <2>5, <2>9, <3>1, <3>2, <3>3, BalanceLasts
  <2>14. PICK v \in Nat : v = balance[i - 1] /\ v <= p /\ i - 1 \in 0..m - 1
    BY <1>2, <1>3, <1>5, <2>1, <2>12
  <2>15. q(v) \in Int /\ b * (v - q(v)) >= (a + b) * v - b * f
    BY <2>10, <2>14
  <2>16. v - q(v) >= 0
    BY <2>13, <2>14, <2>15, v - q(v) \in Int
  <2>17. DailyPrincipal(l, i, balance[i - 1]) = q(v)
    BY <1>2, <1>5, <2>7, <2>14
  <2>18. QED
    BY <2>14, <2>15, <2>16, <2>17 DEF balance
<1>6. QED
  BY <1>2, <1>4, <1>5

(* A daily schedule adds up.                                               *)
LEMMA DailyAddsUp ==
    ASSUME NEW l, Agreed(l), l.product = "DAILY"
    PROVE  AddsUp(l)
<1>1. PICK n \in Nat \ {0}, p \in Nat \ {0} : n = l.periods /\ p = l.principal
  BY AgreedTypes
<1>2. l.product # "PER_1000"
  OBVIOUS
<1> DEFINE S == DailySchedule(l)
           f == [i \in 1..n |-> S[i].principal]
           balance == DailyBalance(l)
<1>3. \A i \in 1..n : /\ S[i].principal = DailyPrincipal(l, i, balance[i - 1])
                      /\ S[i].total = S[i].principal + S[i].interest
                      /\ S[i].principal \in Nat /\ S[i].interest \in Int
                      /\ i - 1 \in 0..n
  BY <1>1, DailyRow
<1>4. \A i \in 0..n : balance[i] \in Nat
  BY <1>1, <1>2, DailyBalanceUnfolds
<1>5. balance[0] = p /\ \A i \in 1..n :
          balance[i] = Greatest(0, balance[i - 1] - DailyPrincipal(l, i, balance[i - 1]))
  BY <1>1, <1>2, DailyBalanceUnfolds
<1>6. ASSUME OutlastsRounding(l), ~RoundedUp(l), NEW i \in 1..n
      PROVE  DailyPrincipal(l, i, balance[i - 1]) <= balance[i - 1]
  BY <1>1, <1>6, DailyFlatLasts, DailyReducingLasts
<1> HIDE DEF S, balance
<1>7. /\ SumFunctionOnSet(f, 1..n) >= p
      /\ OutlastsRounding(l) /\ ~RoundedUp(l) => SumFunctionOnSet(f, 1..n) = p
  <2>1. \A i \in 1..n : f[i] \in Int
    BY <1>3
  <2>2. \A i \in 1..n : balance[i] >= balance[i - 1] - f[i]
    <3>1. ASSUME NEW i \in 1..n PROVE balance[i] >= balance[i - 1] - f[i]
      <4>1. PICK x \in Int : x = balance[i - 1] - f[i]
        BY <1>3, <1>4
      <4>2. balance[i] = Greatest(0, x)
        BY <1>3, <1>5, <4>1
      <4>3. QED
        BY <4>1, <4>2 DEF Greatest
    <3>2. QED
      BY <3>1
  <2>3. ASSUME OutlastsRounding(l), ~RoundedUp(l), NEW i \in 1..n
        PROVE  balance[i] = balance[i - 1] - f[i]
    <3>1. PICK x \in Int : x = balance[i - 1] - f[i]
      BY <1>3, <1>4
    <3>2. balance[i] = Greatest(0, x)
      BY <1>3, <1>5, <3>1
    <3>3. x >= 0
      <4>1. f[i] <= balance[i - 1] /\ f[i] \in Int /\ balance[i - 1] \in Int
        BY <1>3, <1>4, <1>6, <2>3
      <4>2. QED
        BY <3>1, <4>1
    <3>4. QED
      BY <3>1, <3>2, <3>3 DEF Greatest
  <2>4. n \in 1..n /\ n - 1 \in 0..n
    OBVIOUS
  <2>5. balance[n] = 0
    <3>1. DailyPrincipal(l, n, balance[n - 1]) = balance[n - 1]
      BY <1>1 DEF DailyPrincipal
    <3>2. balance[n - 1] - balance[n - 1] = 0
      BY <1>4, <2>4
    <3>3. QED
      BY <1>5, <2>4, <3>1, <3>2 DEF Greatest
  <2>6. \A i \in 0..n : balance[i] \in Int
    BY <1>4
  <2> HIDE DEF f
  <2>7. /\ SumFunctionOnSet(f, 1..n) >= balance[0] - balance[n]
        /\ (\A i \in 1..n : balance[i] = balance[i - 1] - f[i]) =>
              SumFunctionOnSet(f, 1..n) = balance[0] - balance[n]
    BY <2>1, <2>2, <2>6, SumTelescopes
  <2>8. QED
    BY <1>5, <2>3, <2>5, <2>7
<1>8. \A i \in 1..n : S[i].total - S[i].principal - S[i].interest = 0
  BY <1>3
<1>9. Schedule(l) = S
  BY DEF Schedule, S
<1>10. QED
  BY <1>1, <1>2, <1>3, <1>7, <1>8, <1>9 DEF AddsUp

-----------------------------------------------------------------------------
(* The other products. *)

(* A monthly loan pays interest only.                                      *)
LEMMA MonthlyAddsUp ==
    ASSUME NEW l, Agreed(l), l.product = "MONTHLY"
    PROVE  AddsUp(l)
<1>1. PICK n, b \in Nat \ {0}, c \in Int : n = l.periods /\ b = l.rate.den /\ c = l.principal * l.rate.num
  <2>1. /\ l.periods \in Nat \ {0} /\ l.rate.den \in Nat \ {0} /\ l.principal \in Nat
        /\ l.rate.num \in Nat
    BY AgreedTypes
  <2>2. l.principal * l.rate.num \in Int
    BY <2>1
  <2>3. QED
    BY <2>1, <2>2
<1> DEFINE S == MonthlySchedule(l)
           f == [i \in 1..n |-> S[i].principal]
           zero == [i \in 0..n |-> 0]
<1>2. RoundDiv(c, b) \in Int
  BY RoundDivBounds
<1>3. \A i \in 1..n : S[i].principal = 0 /\ S[i].total = S[i].interest /\ S[i].interest \in Int
  BY <1>1, <1>2 DEF MonthlySchedule
<1> HIDE DEF S
<1>4. SumFunctionOnSet(f, 1..n) = 0
  <2>1. /\ \A i \in 1..n : f[i] \in Int /\ zero[i] = zero[i - 1] - f[i] /\ zero[i] >= zero[i - 1] - f[i]
        /\ \A i \in 0..n : zero[i] \in Int
        /\ zero[0] - zero[n] = 0
    BY <1>3
  <2> HIDE DEF f, zero
  <2>2. SumFunctionOnSet(f, 1..n) = zero[0] - zero[n]
    BY <2>1, SumTelescopes
  <2>3. QED
    BY <2>1, <2>2
<1>5. \A i \in 1..n : S[i].total - S[i].principal - S[i].interest = 0
  BY <1>3
<1>6. Schedule(l) = S
  BY DEF Schedule, S
<1>7. QED
  BY <1>1, <1>3, <1>4, <1>5, <1>6 DEF AddsUp

(* An installment of a per-1,000 loan.                                     *)
LEMMA Per1000Row ==
    ASSUME NEW l, Agreed(l), l.product = "PER_1000"
    PROVE  /\ l.principal \in Nat \ {0} /\ l.periods \in Nat \ {0} /\ l.totalInterest \in Nat
           /\ PrincipalPerPeriod(l) \in Nat /\ Emi(l) \in Nat /\ InterestPerPeriod(l) \in Int
           /\ \A i \in 1..l.periods :
                 LET row == Per1000Schedule(l)[i]
                 IN  /\ row.principal = IF i < l.periods THEN PrincipalPerPeriod(l)
                                        ELSE l.principal - (l.periods - 1) * PrincipalPerPeriod(l)
                     /\ row.interest = IF i < l.periods THEN InterestPerPeriod(l)
                                       ELSE l.totalInterest - (l.periods - 1) * InterestPerPeriod(l)
                     /\ row.total = row.principal + row.interest
                     /\ row.principal \in Int /\ row.interest \in Int
<1>1. l.principal \in Nat \ {0} /\ l.periods \in Nat \ {0} /\ l.totalInterest \in Nat
  BY DEF Agreed
<1>2. PICK p, n \in Nat \ {0}, t \in Nat, k \in Nat \ {0} :
           p = l.principal /\ n = l.periods /\ t = l.totalInterest /\ k = Rupee
  BY <1>1, RupeeAssumption
<1>3. RoundDiv(p, n) \in Nat
  <2>1. RoundDiv(p, n) \in Int /\ RoundDiv(p, n) >= 0
    BY RoundDivBounds, RoundDivNonnegative, p \in Int, 0 <= 2 * p + n
  <2>2. QED
    BY <2>1
<1>4. Emi(l) \in Nat
  <2>1. PICK c \in Nat, d \in Nat \ {0} : c = p + t /\ d = n * k
    OBVIOUS
  <2>2. RoundDiv(c, d) \in Int /\ RoundDiv(c, d) >= 0
    BY RoundDivBounds, RoundDivNonnegative, c \in Int, 0 <= 2 * c + d
  <2>3. k * RoundDiv(c, d) \in Nat
    BY <2>2
  <2>4. QED
    BY <1>2, <2>1, <2>3 DEF Emi
<1>5. PICK r \in Nat : r = PrincipalPerPeriod(l)
  BY <1>2, <1>3 DEF PrincipalPerPeriod
<1>6. PICK x \in Int : x = InterestPerPeriod(l)
  <2>1. PICK e \in Nat : e = Emi(l)
    BY <1>4
  <2>2. e - (IF n = 1 THEN p ELSE r) \in Int
    OBVIOUS
  <2>3. QED
    BY <1>2, <1>5, <2>1, <2>2 DEF InterestPerPeriod
<1>7. \A i \in 1..n :
          LET row == Per1000Schedule(l)[i]
          IN  /\ row.principal = IF i < n THEN r ELSE p - (n - 1) * r
              /\ row.interest = IF i < n THEN x ELSE t - (n - 1) * x
              /\ row.total = row.principal + row.interest
  BY <1>2, <1>5, <1>6 DEF Per1000Schedule
<1>8. p - (n - 1) * r \in Int /\ t - (n - 1) * x \in Int
  OBVIOUS
<1>9. QED
  BY <1>1, <1>2, <1>4, <1>5, <1>6, <1>7, <1>8

(* A per-1,000 schedule adds up: its last installment is a plug.           *)
LEMMA Per1000AddsUp ==
    ASSUME NEW l, Agreed(l), l.product = "PER_1000"
    PROVE  AddsUp(l)
<1>1. PICK p, n \in Nat \ {0}, r \in Nat : p = l.principal /\ n = l.periods /\ r = PrincipalPerPeriod(l)
  BY Per1000Row
<1> DEFINE S == Per1000Schedule(l)
           f == [i \in 1..n |-> S[i].principal]
           left == [i \in 0..n |-> IF i < n THEN p - i * r ELSE 0]
<1>2. \A i \in 1..n : /\ S[i].principal = IF i < n THEN r ELSE p - (n - 1) * r
                      /\ S[i].total = S[i].principal + S[i].interest
                      /\ S[i].principal \in Int /\ S[i].interest \in Int
  BY <1>1, Per1000Row
<1> HIDE DEF S
<1>3. SumFunctionOnSet(f, 1..n) = p
  <2>1. \A i \in 0..n : left[i] \in Int
    OBVIOUS
  <2>2. \A i \in 1..n : f[i] \in Int /\ left[i] = left[i - 1] - f[i]
    <3>1. ASSUME NEW i \in 1..n PROVE f[i] \in Int /\ left[i] = left[i - 1] - f[i]
      <4>1. f[i] = IF i < n THEN r ELSE p - (n - 1) * r
        BY <1>2
      <4>2. left[i - 1] = p - (i - 1) * r /\ left[i] = IF i < n THEN p - i * r ELSE 0
        OBVIOUS
      <4>3. i * r = (i - 1) * r + r /\ (i - 1) * r \in Int /\ (n - 1) * r \in Int
        OBVIOUS
      <4> HIDE DEF f, left
      <4>4. QED
        BY <4>1, <4>2, <4>3
    <3>2. QED
      BY <3>1
  <2>3. \A i \in 1..n : left[i] >= left[i - 1] - f[i]
    <3>1. \A i \in 1..n : i - 1 \in 0..n /\ i \in 0..n
      OBVIOUS
    <3> HIDE DEF left, f
    <3>2. QED
      BY <2>1, <2>2, <3>1
  <2>4. left[0] = p /\ left[n] = 0
    OBVIOUS
  <2> HIDE DEF left, f
  <2>5. SumFunctionOnSet(f, 1..n) = left[0] - left[n]
    BY <2>1, <2>2, <2>3, SumTelescopes
  <2>6. QED
    BY <2>4, <2>5
<1>4. ASSUME OutlastsRounding(l), NEW i \in 1..n
      PROVE  S[i].principal >= 0
  <2>1. n * (n - 1) <= 2 * p
    BY <1>1, <1>4 DEF OutlastsRounding
  <2>2. r = RoundDiv(p, n)
    BY <1>1 DEF PrincipalPerPeriod
  <2>3. (n - 1) * r <= p /\ (n - 1) * r \in Int
    BY <2>1, <2>2, SharesFit
  <2>4. QED
    BY <1>2, <2>3
<1>5. \A i \in 1..n : S[i].total - S[i].principal - S[i].interest = 0
  BY <1>2
<1>6. Schedule(l) = S
  BY DEF Schedule, S
<1>7. QED
  BY <1>1, <1>3, <1>4, <1>5, <1>6 DEF AddsUp

(* Amounts rounded one by one are off by half each at most.                *)
LEMMA RoundedSum ==
    ASSUME NEW n \in Nat, NEW d \in Nat \ {0}, NEW f, \A i \in 1..n : f[i] \in Int,
           NEW exact, \A i \in 0..n : exact[i] \in Int, exact[0] = 0,
           \A i \in 1..n : /\ 2 * d * f[i] <= 2 * (exact[i] - exact[i - 1]) + d
                           /\ 2 * (exact[i] - exact[i - 1]) - d <= 2 * d * f[i],
           NEW p \in Int, exact[n] = d * p
    PROVE  2 * (SumFunctionOnSet(f, 1..n) - p) \in -n..n
<1> DEFINE near(k, s) == /\ 2 * (d * s) <= 2 * exact[k] + d * k
                         /\ 2 * exact[k] - d * k <= 2 * (d * s)
           Good == {k \in 0..n : near(k, SumFunctionOnSet(f, 1..k))}
<1>1. 0 \in Good
  <2>1. SumFunctionOnSet(f, 1..0) = 0
    <3>1. 1..0 = {}
      OBVIOUS
    <3>2. QED
      BY <3>1, SumOfNothing
  <2>2. near(0, 0)
    OBVIOUS
  <2>3. QED
    BY <2>1, <2>2
<1>2. ASSUME NEW k \in 0..n, k \in Good, k < n PROVE k + 1 \in Good
  <2>1. PICK s \in Int : s = SumFunctionOnSet(f, 1..k) /\ SumFunctionOnSet(f, 1..k + 1) = s + f[k + 1]
    <3>1. k < n
      BY <1>2
    <3>2. /\ SumFunctionOnSet(f, 1..k) \in Int
          /\ k < n => SumFunctionOnSet(f, 1..k + 1) = SumFunctionOnSet(f, 1..k) + f[k + 1]
      BY SumNext
    <3>3. QED
      BY <3>1, <3>2
  <2>2. PICK j \in 1..n : j = k + 1 /\ j - 1 = k
    BY <1>2
  <2>3. PICK u, v, g \in Int : /\ u = exact[k] /\ v = exact[k + 1] /\ g = f[k + 1]
                               /\ 2 * d * g <= 2 * (v - u) + d /\ 2 * (v - u) - d <= 2 * d * g
    <3>1. exact[j] \in Int /\ exact[j - 1] \in Int /\ f[j] \in Int
      BY <2>2
    <3>2. /\ 2 * d * f[j] <= 2 * (exact[j] - exact[j - 1]) + d
          /\ 2 * (exact[j] - exact[j - 1]) - d <= 2 * d * f[j]
      OBVIOUS
    <3>3. QED
      BY <2>2, <3>1, <3>2
  <2>4. 2 * (d * s) <= 2 * u + d * k /\ 2 * u - d * k <= 2 * (d * s)
    BY <1>2, <2>1, <2>3
  <2>5. 2 * (d * (s + g)) = 2 * (d * s) + 2 * d * g /\ d * (k + 1) = d * k + d
    OBVIOUS
  <2>6. /\ 2 * (d * (s + g)) <= 2 * v + d * (k + 1) /\ 2 * v - d * (k + 1) <= 2 * (d * (s + g))
    <3>1. d * s \in Int /\ d * k \in Int /\ d * (s + g) \in Int /\ d * (k + 1) \in Int
      OBVIOUS
    <3>2. QED
      BY <2>3, <2>4, <2>5, <3>1
  <2>7. near(k + 1, s + g) /\ k + 1 \in 0..n
    BY <1>2, <2>3, <2>6
  <2>8. QED
    BY <2>1, <2>3, <2>7
<1>3. Good \in SUBSET (0..n) /\ n \in 0..n
  OBVIOUS
<1>4. n \in Good
  <2> HIDE DEF Good
  <2>1. QED
    BY <1>1, <1>2, <1>3, IntervalInduction
<1>5. PICK s \in Int : s = SumFunctionOnSet(f, 1..n) /\ near(n, s)
  <2>1. SumFunctionOnSet(f, 1..n) \in Int
    BY SumNext, n \in 0..n
  <2>2. QED
    BY <1>4, <2>1
<1>6. d * (2 * (s - p)) <= d * n /\ d * (-n) <= d * (2 * (s - p))
  <2>1. /\ d * (2 * (s - p)) = 2 * (d * s) - 2 * (d * p) /\ d * (-n) = -(d * n)
        /\ d * s \in Int /\ d * p \in Int /\ d * n \in Int
    OBVIOUS
  <2>2. 2 * (d * s) <= 2 * (d * p) + d * n /\ 2 * (d * p) - d * n <= 2 * (d * s)
    BY <1>5
  <2>3. QED
    BY <2>1, <2>2
<1>7. \A x, y \in Int : d * x <= d * y => x <= y
  OBVIOUS
<1>8. 2 * (s - p) <= n /\ -n <= 2 * (s - p)
  BY <1>6, <1>7, 2 * (s - p) \in Int, -n \in Int
<1>9. QED
  BY <1>5, <1>8

(* Two parts rounded apart, and the whole rounded: a paisa at most.        *)
LEMMA PartsAddUp ==
    ASSUME NEW u \in Int, NEW v \in Int, NEW d \in Nat \ {0}
    PROVE  RoundDiv(u + v, d) - RoundDiv(u, d) - RoundDiv(v, d) \in -1..1
<1>1. PICK r, s, t \in Int : /\ r = RoundDiv(u, d) /\ s = RoundDiv(v, d) /\ t = RoundDiv(u + v, d)
                             /\ 2 * d * r <= 2 * u + d /\ 2 * u - d < 2 * d * r
                             /\ 2 * d * s <= 2 * v + d /\ 2 * v - d < 2 * d * s
                             /\ 2 * d * t <= 2 * (u + v) + d /\ 2 * (u + v) - d < 2 * d * t
  BY RoundDivBounds, u + v \in Int
<1>2. 2 * (d * (t - r - s)) <= 3 * d /\ - 3 * d <= 2 * (d * (t - r - s))
  <2>1. /\ d * (t - r - s) = d * t - d * r - d * s
        /\ 2 * d * r = 2 * (d * r) /\ 2 * d * s = 2 * (d * s) /\ 2 * d * t = 2 * (d * t)
        /\ d * r \in Int /\ d * s \in Int /\ d * t \in Int
    OBVIOUS
  <2>2. QED
    BY <1>1, <2>1
<1>3. \A x \in Int : (x >= 2 => d * x >= 2 * d) /\ (x <= -2 => d * x <= - 2 * d)
  OBVIOUS
<1>4. t - r - s \in Int /\ d * (t - r - s) \in Int
  OBVIOUS
<1>5. QED
  BY <1>1, <1>2, <1>3, <1>4

(* What a term loan's installments pay back before rounding, up to its     *)
(* k-th, and with its i-th, both times a common denominator.               *)
PaidBack(p, n, a, b, k) == p * (Power(b, n - k) * (Power(a + b, k) - Power(b, k)))
PaidAt(p, n, a, b, i) == p * a * (Power(a + b, i - 1) * Power(b, n - i))

(* The powers telescope.                                                   *)
LEMMA TermTelescopes ==
    ASSUME NEW p \in Nat \ {0}, NEW n \in Nat \ {0}, NEW a \in Nat \ {0}, NEW b \in Nat \ {0},
           NEW i \in 1..n
    PROVE  /\ PaidBack(p, n, a, b, i) \in Int /\ PaidBack(p, n, a, b, i - 1) \in Int
           /\ PaidBack(p, n, a, b, i) - PaidBack(p, n, a, b, i - 1) = PaidAt(p, n, a, b, i)
<1>1. PICK j \in 0..n - 1, m \in Nat : j = i - 1 /\ i = j + 1 /\ m = n - i /\ n - j = m + 1
  BY i - 1 \in 0..n - 1, n - i \in Nat
<1>2. a + b \in Int /\ b \in Int /\ j \in Nat
  OBVIOUS
<1>3. /\ Power(a + b, j) \in Int /\ Power(a + b, j + 1) = (a + b) * Power(a + b, j)
      /\ Power(b, j) \in Int /\ Power(b, j + 1) = b * Power(b, j)
      /\ Power(b, m) \in Int /\ Power(b, m + 1) = b * Power(b, m)
  BY <1>2, PowerNext
<1>4. PICK q, s, t \in Int : q = Power(a + b, j) /\ s = Power(b, j) /\ t = Power(b, m)
  BY <1>3
<1>5. p * (t * ((a + b) * q - b * s)) - p * ((b * t) * (q - s)) = p * a * (q * t)
  OBVIOUS
<1>6. /\ p * (t * ((a + b) * q - b * s)) \in Int /\ p * ((b * t) * (q - s)) \in Int
      /\ p * a * (q * t) \in Int
  OBVIOUS
<1>7. /\ PaidBack(p, n, a, b, i) = p * (t * ((a + b) * q - b * s))
      /\ PaidBack(p, n, a, b, i - 1) = p * ((b * t) * (q - s))
      /\ PaidAt(p, n, a, b, i) = p * a * (q * t)
  BY <1>1, <1>3, <1>4 DEF PaidBack, PaidAt
<1>8. QED
  BY <1>5, <1>6, <1>7

(* A term loan at a rate: each of its parts is rounded on its own.         *)
LEMMA TermWithRate ==
    ASSUME NEW l, Agreed(l), l.product = "TERM_LOAN", l.rate.num # 0
    PROVE  LET S == TermSchedule(l)
               n == l.periods
           IN  /\ \A i \in 1..n : /\ S[i].principal \in Int
                                  /\ S[i].principal >= 0
                                  /\ S[i].total - S[i].principal - S[i].interest \in -1..1
               /\ 2 * (SumFunctionOnSet([i \in 1..n |-> S[i].principal], 1..n) - l.principal) \in -n..n
<1>1. l.product # "PER_1000" /\ ~Flat(l)
  BY DEF Agreed, Flat
<1>2. PICK p, n, a, b \in Nat \ {0} :
           p = l.principal /\ n = l.periods /\ a = l.rate.num /\ b = l.rate.den
  <2>1. /\ l.principal \in Nat \ {0} /\ l.periods \in Nat \ {0} /\ l.rate.num \in Nat \ {0}
        /\ l.rate.den \in Nat \ {0}
    BY <1>1, AgreedTypes, ReducingEmi
  <2>2. QED
    BY <2>1
<1> DEFINE S == TermSchedule(l)
           paid(i) == Power(a + b, i - 1) * Power(b, n - i)
           D == Power(a + b, n) - Power(b, n)
           back == [k \in 0..n |-> p * (Power(b, n - k) * (Power(a + b, k) - Power(b, k)))]
           f == [i \in 1..n |-> S[i].principal]
<1>3. EmiOf(l) = [num |-> p * a * Power(a + b, n), den |-> b * D]
  BY <1>1, <1>2, ReducingEmi DEF EmiOf
<1>4. \A i \in 1..n : /\ S[i].principal = RoundDiv(p * a * paid(i), D)
                      /\ S[i].interest = RoundDiv(p * a * (Power(a + b, n) - b * paid(i)), b * D)
                      /\ S[i].total = RoundDiv(p * a * Power(a + b, n), b * D)
  BY <1>2, <1>3 DEF TermSchedule
<1>5. PICK d \in Nat \ {0}, q \in Nat \ {0} : d = D /\ q = Power(a + b, n)
  <2>1. Power(a + b, n) - Power(b, n) \in Nat \ {0} /\ Power(a + b, n) \in Nat \ {0}
    BY EmiIsFraction
  <2>2. QED
    BY <2>1
<1>6. ASSUME NEW i \in 1..n
      PROVE  /\ paid(i) \in Nat
             /\ i \in 0..n /\ i - 1 \in 0..n
             /\ back[i] \in Int /\ back[i - 1] \in Int /\ back[i] - back[i - 1] = p * a * paid(i)
  <2>1. i - 1 \in Nat /\ n - i \in Nat /\ i \in 0..n /\ i - 1 \in 0..n
    OBVIOUS
  <2>2. Power(a + b, i - 1) \in Nat \ {0} /\ Power(b, n - i) \in Nat \ {0}
    BY <2>1, PowerPositive, a + b \in Nat \ {0}
  <2>3. paid(i) \in Nat
    <3>1. \A x, y \in Nat \ {0} : x * y \in Nat
      OBVIOUS
    <3>2. QED
      BY <2>2, <3>1
  <2>4. /\ back[i] = p * (Power(b, n - i) * (Power(a + b, i) - Power(b, i)))
        /\ back[i - 1] = p * (Power(b, n - (i - 1)) * (Power(a + b, i - 1) - Power(b, i - 1)))
    BY <2>1
  <2>5. back[i] \in Int /\ back[i - 1] \in Int /\ back[i] - back[i - 1] = p * a * paid(i)
    <3>1. /\ back[i] = PaidBack(p, n, a, b, i) /\ back[i - 1] = PaidBack(p, n, a, b, i - 1)
          /\ p * a * paid(i) = PaidAt(p, n, a, b, i)
      BY <2>4 DEF PaidBack, PaidAt
    <3>2. /\ PaidBack(p, n, a, b, i) \in Int /\ PaidBack(p, n, a, b, i - 1) \in Int
          /\ PaidBack(p, n, a, b, i) - PaidBack(p, n, a, b, i - 1) = PaidAt(p, n, a, b, i)
      BY TermTelescopes
    <3> HIDE DEF back, paid
    <3>3. QED
      BY <3>1, <3>2
  <2>6. QED
    BY <2>1, <2>3, <2>5
<1>7. back[0] = 0 /\ back[n] = d * p
  <2>1. /\ back[0] = p * (Power(b, n - 0) * (Power(a + b, 0) - Power(b, 0)))
        /\ back[n] = p * (Power(b, n - n) * (Power(a + b, n) - Power(b, n)))
    OBVIOUS
  <2>2. Power(a + b, 0) = 1 /\ Power(b, 0) = 1 /\ n - n = 0
    BY PowerZero, a + b \in Int, b \in Int
  <2>3. PICK s \in Int : s = Power(b, n - 0)
    BY PowerNext, b \in Int, n - 0 \in Nat
  <2>4. back[0] = 0
    <3>1. back[0] = p * (s * (1 - 1))
      BY <2>1, <2>2, <2>3
    <3> HIDE DEF back
    <3>2. QED
      BY <3>1
  <2>5. back[n] = p * (1 * d)
    <3>1. Power(b, n - n) = 1
      BY <2>2
    <3> HIDE DEF back
    <3>2. QED
      BY <1>5, <2>1, <3>1
  <2>6. QED
    BY <2>4, <2>5
<1> HIDE DEF S, paid, D, back
<1>8. ASSUME NEW i \in 1..n
      PROVE  /\ S[i].principal \in Int /\ S[i].principal >= 0
             /\ 2 * d * S[i].principal <= 2 * (back[i] - back[i - 1]) + d
             /\ 2 * (back[i] - back[i - 1]) - d <= 2 * d * S[i].principal
             /\ S[i].total - S[i].principal - S[i].interest \in -1..1
  <2>1. PICK x \in Nat : x = p * a * paid(i) /\ back[i] - back[i - 1] = x
    <3>1. \A y \in Nat : p * a * y \in Nat
      OBVIOUS
    <3>2. QED
      BY <1>6, <3>1
  <2>2. S[i].principal = RoundDiv(x, d)
    BY <1>4, <1>5, <2>1
  <2>3. /\ RoundDiv(x, d) \in Int /\ RoundDiv(x, d) >= 0
        /\ 2 * d * RoundDiv(x, d) <= 2 * x + d /\ 2 * x - d < 2 * d * RoundDiv(x, d)
    BY RoundDivBounds, RoundDivNonnegative, x \in Int, 0 <= 2 * x + d
  <2>4. S[i].total - S[i].principal - S[i].interest \in -1..1
    <3>1. PICK v \in Int, e \in Nat \ {0}, u \in Int :
               /\ v = p * a * (q - b * paid(i)) /\ e = d * b /\ u = x * b
               /\ u + v = p * a * q
      <4>1. PICK y \in Nat : y = paid(i)
        BY <1>6
      <4>2. x = p * a * y /\ x * b + p * a * (q - b * y) = p * a * q
        <5>1. (p * a * y) * b + p * a * (q - b * y) = p * a * q
          OBVIOUS
        <5>2. QED
          BY <2>1, <4>1, <5>1
      <4>3. p * a * (q - b * y) \in Int /\ d * b \in Nat \ {0} /\ x * b \in Int
        OBVIOUS
      <4>4. QED
        BY <4>1, <4>2, <4>3
    <3>2. RoundDiv(u, e) = RoundDiv(x, d)
      BY <3>1, RoundDivScale, x \in Int
    <3>3. b * d = e
      BY <3>1
    <3>4. S[i].interest = RoundDiv(v, e) /\ S[i].total = RoundDiv(u + v, e)
      BY <1>4, <1>5, <3>1, <3>3
    <3>5. RoundDiv(u + v, e) - RoundDiv(u, e) - RoundDiv(v, e) \in -1..1
      BY PartsAddUp
    <3>6. QED
      BY <2>2, <3>2, <3>4, <3>5
  <2>5. QED
    BY <2>1, <2>2, <2>3, <2>4
<1>9. 2 * (SumFunctionOnSet(f, 1..n) - p) \in -n..n
  <2>1. \A i \in 0..n : back[i] \in Int
    <3>1. ASSUME NEW i \in 0..n PROVE back[i] \in Int
      <4>1. CASE i = 0
        BY <1>7, <4>1
      <4>2. CASE i # 0
        <5>1. i \in 1..n
          BY <4>2
        <5>2. QED
          BY <1>6, <5>1
      <4>3. QED
        BY <4>1, <4>2
    <3>2. QED
      BY <3>1
  <2>2. \A i \in 1..n : /\ f[i] \in Int
                        /\ 2 * d * f[i] <= 2 * (back[i] - back[i - 1]) + d
                        /\ 2 * (back[i] - back[i - 1]) - d <= 2 * d * f[i]
    BY <1>8
  <2> HIDE DEF f
  <2>3. QED
    BY <1>7, <2>1, <2>2, RoundedSum, p \in Int
<1>10. QED
  BY <1>2, <1>8, <1>9 DEF S

(* A term loan without interest is divided evenly.                         *)
LEMMA TermWithoutRate ==
    ASSUME NEW l, Agreed(l), l.product = "TERM_LOAN", l.rate.num = 0
    PROVE  LET S == TermSchedule(l)
               n == l.periods
           IN  /\ \A i \in 1..n : /\ S[i].principal \in Int
                                  /\ S[i].principal >= 0
                                  /\ S[i].total - S[i].principal - S[i].interest \in -1..1
               /\ 2 * (SumFunctionOnSet([i \in 1..n |-> S[i].principal], 1..n) - l.principal) \in -n..n
<1>1. l.product # "PER_1000" /\ Flat(l)
  BY DEF Flat
<1>2. PICK p, n, b \in Nat \ {0} : p = l.principal /\ n = l.periods /\ b = l.rate.den
  <2>1. l.principal \in Nat \ {0} /\ l.periods \in Nat \ {0} /\ l.rate.den \in Nat \ {0}
    BY <1>1, AgreedTypes
  <2>2. QED
    BY <2>1
<1> DEFINE S == TermSchedule(l)
           f == [i \in 1..n |-> S[i].principal]
           even == [k \in 0..n |-> k * p]
<1>3. EmiOf(l) = [num |-> p * (b + 0 * n), den |-> n * b]
  BY <1>1, <1>2, FlatEmi DEF EmiOf
<1>4. RoundDiv(p * (b + 0 * n), n * b) = RoundDiv(p, n)
  <2>1. p * (b + 0 * n) = p * b /\ p \in Int
    OBVIOUS
  <2>2. RoundDiv(p * b, n * b) = RoundDiv(p, n)
    BY <2>1, RoundDivScale
  <2>3. QED
    BY <2>1, <2>2
<1>5. PICK r \in Nat : r = RoundDiv(p, n) /\ 2 * n * r <= 2 * p + n /\ 2 * p - n <= 2 * n * r
  <2>1. /\ RoundDiv(p, n) \in Int /\ RoundDiv(p, n) >= 0
        /\ 2 * n * RoundDiv(p, n) <= 2 * p + n /\ 2 * p - n < 2 * n * RoundDiv(p, n)
    BY RoundDivBounds, RoundDivNonnegative, p \in Int, 0 <= 2 * p + n
  <2>2. QED
    BY <2>1
<1>6. \A i \in 1..n : S[i].principal = r /\ S[i].interest = 0 /\ S[i].total = r
  BY <1>2, <1>3, <1>4, <1>5 DEF TermSchedule
<1> HIDE DEF S
<1>7. 2 * (SumFunctionOnSet(f, 1..n) - p) \in -n..n
  <2>1. /\ \A i \in 0..n : even[i] \in Int
        /\ even[0] = 0 /\ even[n] = n * p
    OBVIOUS
  <2>2. \A i \in 1..n : /\ f[i] \in Int
                        /\ 2 * n * f[i] <= 2 * (even[i] - even[i - 1]) + n
                        /\ 2 * (even[i] - even[i - 1]) - n <= 2 * n * f[i]
    <3>1. ASSUME NEW i \in 1..n PROVE f[i] = r /\ even[i] - even[i - 1] = p
      BY <1>6
    <3> HIDE DEF even, f
    <3>2. QED
      BY <1>5, <3>1
  <2> HIDE DEF f, even
  <2>3. QED
    BY <2>1, <2>2, RoundedSum, p \in Int
<1>8. QED
  BY <1>2, <1>6, <1>7 DEF S

(* A term loan's schedule adds up, but for paise.                          *)
LEMMA TermAddsUp ==
    ASSUME NEW l, Agreed(l), l.product = "TERM_LOAN"
    PROVE  AddsUp(l)
<1> DEFINE S == TermSchedule(l)
           n == l.periods
<1>1. /\ \A i \in 1..n : /\ S[i].principal \in Int /\ S[i].principal >= 0
                         /\ S[i].total - S[i].principal - S[i].interest \in -1..1
      /\ 2 * (SumFunctionOnSet([i \in 1..n |-> S[i].principal], 1..n) - l.principal) \in -n..n
  BY TermWithRate, TermWithoutRate
<1>2. Schedule(l) = S
  BY DEF Schedule
<1> HIDE DEF S
<1>3. QED
  BY <1>1, <1>2 DEF AddsUp

-----------------------------------------------------------------------------
(* ContractsAddUp. *)

(* Every schedule that can be agreed adds up.                              *)
LEMMA AgreedAddsUp ==
    ASSUME NEW l, Agreed(l)
    PROVE  AddsUp(l)
<1>1. l.product \in {"WEEKLY", "DAILY", "MONTHLY", "TERM_LOAN", "PER_1000"}
  BY DEF Agreed
<1>2. QED
  BY <1>1, WeeklyAddsUp, DailyAddsUp, MonthlyAddsUp, TermAddsUp, Per1000AddsUp

(* A loan stays what was agreed.                                           *)
THEOREM LoanIsAgreed == Spec => [](loan \in Loans)
<1>1. Init => loan \in Loans
  BY DEF Init
<1>2. loan \in Loans /\ [Next]_vars => (loan \in Loans)'
  BY DEF Next, vars, Collect, ExtendEmi, ResolveOtherwise, TimePasses
<1>3. QED
  BY <1>1, <1>2, PTL DEF Spec

(* Whatever is agreed, the schedule that is stored adds up: no rounding,   *)
(* of any product, loses or invents more than paise.                       *)
THEOREM ContractsAddUpAlways == Spec => []ContractsAddUp
<1>1. loan \in Loans => ContractsAddUp
  BY SchedulesAssumption, AgreedAddsUp DEF ContractsAddUp
<1>2. QED
  BY <1>1, LoanIsAgreed, PTL
-----------------------------------------------------------------------------
(* NpaIsLongestStreak. *)

(* Which of the installments are past due makes no difference: the query   *)
(* finds the longest streak of them.                                       *)
THEOREM NpaIsLongestStreakAlways == Spec => []NpaIsLongestStreak
<1>1. loan \in Loans => NpaIsLongestStreak
  <2>1. ASSUME loan \in Loans PROVE PastDueNumbers \in SUBSET Nat /\ IsFiniteSet(PastDueNumbers)
    <3>1. loan.periods \in Nat
      BY <2>1, SchedulesAssumption, AgreedTypes
    <3>2. IsFiniteSet(1..loan.periods)
      BY <3>1, FS_Interval
    <3>3. PastDueNumbers \subseteq 1..loan.periods
      BY DEF PastDueNumbers, Contracted
    <3>4. IsFiniteSet(PastDueNumbers)
      BY <3>2, <3>3, FS_Subset
    <3>5. 1..loan.periods \subseteq Nat
      BY <3>1
    <3>6. QED
      BY <3>3, <3>4, <3>5
  <2>2. QED
    BY <2>1, QueryFindsLongestStreak DEF NpaIsLongestStreak
<1>2. QED
  BY <1>1, LoanIsAgreed, PTL

-----------------------------------------------------------------------------
(* The projection. *)

(* What is known of a loan, of what was collected on it and of the date.   *)
SchedulesTyped ==
    /\ loan \in Loans
    /\ collected \in [1..loan.periods + 1 -> Nat]
    /\ past \in Nat /\ dueToday \in BOOLEAN

(* A loan stays what was agreed, and what was collected stays an amount.   *)
THEOREM SchedulesTypeCorrect == Spec => []SchedulesTyped
<1>1. Init => SchedulesTyped
  <2>1. ASSUME Init PROVE collected \in [1..loan.periods + 1 -> Nat]
    <3>1. collected = [i \in 1..loan.periods + 1 |-> 0]
      BY <2>1 DEF Init
    <3>2. QED
      BY <3>1
  <2>2. Init => loan \in Loans /\ past \in Nat
    BY DEF Init
  <2>3. Init => dueToday \in BOOLEAN
    BY Zenon DEF Init
  <2>4. QED
    BY <2>1, <2>2, <2>3, Zenon DEF SchedulesTyped
<1>2. SchedulesTyped /\ [Next]_vars => SchedulesTyped'
  <2> SUFFICES ASSUME SchedulesTyped, [Next]_vars PROVE SchedulesTyped'
    OBVIOUS
  <2>1. ASSUME NEW i \in DOMAIN collected, NEW amount \in Receipts(loan, i), Collect(i, amount)
        PROVE  SchedulesTyped'
    <3>1. i \in 1..loan.periods + 1 /\ loan \in Loans
      BY <2>1 DEF SchedulesTyped
    <3>2. amount \in Nat
      BY <2>1, <3>1, SchedulesAssumption
    <3>3. [collected EXCEPT ![i] = amount] \in [1..loan.periods + 1 -> Nat]
      BY <3>2 DEF SchedulesTyped
    <3>4. QED
      BY <2>1, <3>3 DEF SchedulesTyped, Collect
  <2>2. ASSUME NEW i \in Contracted, ExtendEmi(i) \/ ResolveOtherwise(i) PROVE SchedulesTyped'
    BY <2>2 DEF SchedulesTyped, ExtendEmi, ResolveOtherwise
  <2>3. ASSUME TimePasses PROVE SchedulesTyped'
    BY <2>3 DEF SchedulesTyped, TimePasses
  <2>4. CASE UNCHANGED vars
    BY <2>4 DEF SchedulesTyped, vars
  <2>5. QED
    BY <2>1, <2>2, <2>3, <2>4 DEF Next
<1>3. QED
  BY <1>1, <1>2, PTL DEF Spec

(* The projection's rows, extensions and states of the loop, by type.      *)
Statuses == {"PROJECTED", "PAID", "DUE", "PARTIAL", "MISSED"}
RowOf == [due : Int, interest : Int, paid : Int, status : Statuses]
ExtensionOf ==
    {e \in [missed : Int, eligible : SUBSET Contracted, each : Int, last : Int] : e.eligible # {}}
StateOf ==
    [rows : Seq(RowOf), principal : Int, unpaidInterest : Int, charged : Int,
     extensions : {X \in SUBSET ExtensionOf : IsFiniteSet(X)}]

(* What a turn of the loop computes, by its parts.                         *)
At(p) == Len(p.rows) + 1
(* Interest due at a turn; all that is outstanding; what is due, came in   *)
(* and is applied.                                                         *)
Accrued(p) == p.unpaidInterest + InterestPerPeriod(loan)
Owed(p) == p.principal + Accrued(p)
DueAt(p) == Least(Emi(loan) + AddOn(p.extensions, At(p)), Owed(p))
CameIn(p) == IF At(p) > past THEN DueAt(p) ELSE Least(Collected(At(p)), Owed(p))
AppliedAt(p) == Applied(At(p), CameIn(p), DueAt(p))
RowAt(p) ==
    [due |-> DueAt(p), interest |-> Least(DueAt(p), Accrued(p)), paid |-> CameIn(p),
     status |-> StatusOf(At(p), CameIn(p), DueAt(p))]

(* A turn of the loop in terms of them.                                    *)
LEMMA TurnIs ==
    ASSUME NEW p, NEW resolved
    PROVE  Turn(p, resolved) =
               [rows |-> Append(p.rows, RowAt(p)),
                principal |-> p.principal - (AppliedAt(p) - Least(AppliedAt(p), Accrued(p))),
                unpaidInterest |-> Accrued(p) - Least(AppliedAt(p), Accrued(p)),
                charged |-> p.charged + InterestPerPeriod(loan),
                extensions |-> p.extensions \cup Spread(At(p), RowAt(p), resolved)]
BY DEF Turn, At, Accrued, Owed, DueAt, CameIn, AppliedAt, RowAt

(* The loan that is projected, in numbers.                                 *)
LEMMA ProjectedLoan ==
    ASSUME SchedulesTyped, Projects(loan)
    PROVE  /\ loan.principal \in Nat \ {0} /\ loan.periods \in Nat \ {0}
           /\ PrincipalPerPeriod(loan) \in Nat /\ Emi(loan) \in Nat /\ InterestPerPeriod(loan) \in Int
           /\ Emi(loan) = PrincipalPerPeriod(loan) + InterestPerPeriod(loan)
           /\ \A i \in Contracted :
                 LET row == Per1000Schedule(loan)[i]
                 IN  /\ row.principal = IF i < loan.periods THEN PrincipalPerPeriod(loan)
                                        ELSE loan.principal - (loan.periods - 1) * PrincipalPerPeriod(loan)
                     /\ row.interest \in Int /\ row.total \in Int /\ BaseDue(i) = row.total
                     /\ i < loan.periods => /\ row.interest = InterestPerPeriod(loan)
                                            /\ row.total = Emi(loan)
           /\ \A i \in Nat : Collected(i) \in Nat
<1>1. Agreed(loan) /\ loan.product = "PER_1000"
  BY SchedulesAssumption DEF SchedulesTyped, Projects
<1>2. PICK p, n \in Nat \ {0}, r, e \in Nat, x \in Int :
           /\ p = loan.principal /\ n = loan.periods /\ r = PrincipalPerPeriod(loan)
           /\ e = Emi(loan) /\ x = InterestPerPeriod(loan)
  BY <1>1, Per1000Row
<1>3. e = r + x
  <2>1. n = 1 => r = p
    <3>1. RoundDiv(p, 1) = p
      BY DEF RoundDiv
    <3>2. QED
      BY <1>2, <3>1 DEF PrincipalPerPeriod
  <2>2. x = e - (IF n = 1 THEN p ELSE r)
    BY <1>2 DEF InterestPerPeriod
  <2>3. QED
    BY <2>1, <2>2
<1>4. ASSUME NEW i \in 1..n
      PROVE  LET row == Per1000Schedule(loan)[i]
             IN  /\ row.principal = IF i < n THEN r ELSE p - (n - 1) * r
                 /\ row.interest \in Int /\ row.total \in Int /\ BaseDue(i) = row.total
                 /\ i < n => row.interest = x /\ row.total = e
  <2> DEFINE row == Per1000Schedule(loan)[i]
  <2>1. /\ row.principal = IF i < n THEN r ELSE p - (n - 1) * r
        /\ i < n => row.interest = x
        /\ row.total = row.principal + row.interest
        /\ row.principal \in Int /\ row.interest \in Int
    BY <1>1, <1>2, Per1000Row
  <2>2. BaseDue(i) = row.total
    BY DEF BaseDue
  <2> HIDE DEF row
  <2>3. row.total \in Int /\ (i < n => row.total = e)
    BY <1>3, <2>1
  <2>4. QED
    BY <2>1, <2>2, <2>3 DEF row
<1>5. \A i \in Nat : Collected(i) \in Nat
  BY DEF SchedulesTyped, Collected
<1>6. QED
  BY <1>2, <1>3, <1>4, <1>5 DEF Contracted

(* What the extensions add to an installment is an amount.                 *)
LEMMA AddOnTyped ==
    ASSUME SchedulesTyped, Projects(loan), NEW X \in SUBSET ExtensionOf, IsFiniteSet(X), NEW i \in Nat
    PROVE  AddOn(X, i) \in Int /\ (X = {} => AddOn(X, i) = 0)
<1> DEFINE share == [e \in X |-> IF i = Max(e.eligible) THEN e.last ELSE e.each]
           touched == {e \in X : i \in e.eligible}
<1>1. IsFiniteSet(touched)
  <2>1. touched \subseteq X
    OBVIOUS
  <2>2. QED
    BY <2>1, FS_Subset
<1>2. \A e \in touched : share[e] \in Int
  BY DEF ExtensionOf
<1>3. X = {} => touched = {}
  OBVIOUS
<1>4. AddOn(X, i) = SumFunctionOnSet(share, touched)
  BY DEF AddOn
<1> HIDE DEF share, touched
<1>5. SumFunctionOnSet(share, touched) \in Int
  BY <1>1, <1>2, SumIsInteger DEF IntegersOn
<1>6. QED
  BY <1>3, <1>4, <1>5, SumOfNothing

(* What a turn computes are numbers; an installment takes no more than is  *)
(* outstanding, and one that is not missed takes all that is due.          *)
LEMMA TurnNumbers ==
    ASSUME SchedulesTyped, Projects(loan), NEW p \in StateOf
    PROVE  /\ At(p) \in Nat \ {0} /\ Accrued(p) \in Int /\ Owed(p) \in Int
           /\ AddOn(p.extensions, At(p)) \in Int /\ DueAt(p) \in Int /\ CameIn(p) \in Int
           /\ AppliedAt(p) \in Int /\ RowAt(p) \in RowOf
           /\ DueAt(p) <= Owed(p) /\ DueAt(p) <= Emi(loan) + AddOn(p.extensions, At(p))
           /\ DueAt(p) = Owed(p) \/ DueAt(p) = Emi(loan) + AddOn(p.extensions, At(p))
           /\ AppliedAt(p) <= Owed(p)
           /\ IsMissed(RowAt(p)) <=> At(p) <= past /\ CameIn(p) < DueAt(p) /\ ~Today(At(p))
           /\ ~IsMissed(RowAt(p)) => AppliedAt(p) >= DueAt(p)
           /\ IsMissed(RowAt(p)) => AppliedAt(p) = CameIn(p)
<1>1. /\ p.rows \in Seq(RowOf) /\ p.principal \in Int /\ p.unpaidInterest \in Int
      /\ p.extensions \in SUBSET ExtensionOf /\ IsFiniteSet(p.extensions)
  BY DEF StateOf
<1>2. PICK i \in Nat \ {0} : i = At(p)
  <2>1. Len(p.rows) \in Nat
    BY <1>1
  <2>2. QED
    BY <2>1 DEF At
<1>3. PICK e \in Nat, x, add, g \in Int, c \in Nat :
           /\ e = Emi(loan) /\ x = InterestPerPeriod(loan) /\ add = AddOn(p.extensions, i)
           /\ g = p.principal /\ c = Collected(i)
  <2>1. Emi(loan) \in Nat /\ InterestPerPeriod(loan) \in Int /\ Collected(i) \in Nat
    BY ProjectedLoan
  <2>2. AddOn(p.extensions, i) \in Int
    BY <1>1, AddOnTyped
  <2>3. QED
    BY <1>1, <2>1, <2>2
<1>4. PICK u \in Int : u = Accrued(p)
  <2>1. p.unpaidInterest + x \in Int
    BY <1>1
  <2>2. QED
    BY <1>3, <2>1 DEF Accrued
<1>5. PICK o \in Int : o = Owed(p)
  BY <1>3, <1>4 DEF Owed
<1>6. PICK d \in Int : d = DueAt(p) /\ d <= o /\ d <= e + add /\ (d = o \/ d = e + add)
  BY <1>2, <1>3, <1>5 DEF DueAt, Least
<1>7. past \in Nat
  BY DEF SchedulesTyped
<1>8. PICK m \in Int : m = CameIn(p) /\ (i > past => m = d) /\ m <= o
  <2>1. CameIn(p) = IF i > past THEN d ELSE Least(c, o)
    BY <1>2, <1>3, <1>5, <1>6 DEF CameIn
  <2>2. QED
    BY <1>6, <2>1 DEF Least
<1>9. PICK t : t = Today(i)
  OBVIOUS
<1>10. Today(i) => i <= past
  BY <1>7 DEF Today
<1>11. AppliedAt(p) = IF Today(i) /\ m < d THEN d ELSE m
  BY <1>2, <1>6, <1>8 DEF AppliedAt, Applied
<1>12. IsMissed(RowAt(p)) <=> i <= past /\ m < d /\ ~Today(i)
  <2>1. RowAt(p).status = StatusOf(i, m, d)
    BY <1>2, <1>6, <1>8 DEF RowAt
  <2>2. StatusOf(i, m, d) \in {"MISSED", "PARTIAL"} <=> i <= past /\ m < d /\ ~Today(i)
    BY <1>7 DEF StatusOf
  <2>3. QED
    BY <2>1, <2>2 DEF IsMissed
<1>13. RowAt(p) \in RowOf
  <2>1. StatusOf(i, m, d) \in Statuses
    BY <1>7 DEF StatusOf, Statuses
  <2>2. Least(d, u) \in Int
    BY DEF Least
  <2>3. QED
    BY <1>2, <1>4, <1>6, <1>8, <2>1, <2>2 DEF RowAt, RowOf
<1>14. QED
  <2>1. AppliedAt(p) \in Int /\ AppliedAt(p) <= o
    BY <1>6, <1>8, <1>11
  <2>2. ~IsMissed(RowAt(p)) => AppliedAt(p) >= d
    BY <1>7, <1>8, <1>11, <1>12
  <2>3. IsMissed(RowAt(p)) => AppliedAt(p) = m
    BY <1>11, <1>12
  <2>4. QED
    BY <1>2, <1>3, <1>4, <1>5, <1>6, <1>8, <1>12, <1>13, <2>1, <2>2, <2>3

(* What a missed installment spreads is an extension, of a later one each. *)
LEMMA SpreadTyped ==
    ASSUME SchedulesTyped, Projects(loan), NEW p \in StateOf, NEW resolved
    PROVE  /\ Spread(At(p), RowAt(p), resolved) \in SUBSET ExtensionOf
           /\ IsFiniteSet(Spread(At(p), RowAt(p), resolved))
           /\ \A e \in Spread(At(p), RowAt(p), resolved) :
                 e.missed = At(p) /\ e.eligible = Eligible(At(p))
<1> DEFINE i == At(p)
           short == DueAt(p) - CameIn(p)
           parts == Cardinality(Eligible(i))
           extension == [missed |-> i, eligible |-> Eligible(i), each |-> RoundDiv(short, parts),
                         last |-> LastShare(short, parts)]
<1>1. /\ i \in Nat \ {0} /\ short \in Int
      /\ RowAt(p).due - RowAt(p).paid = short
  <2>1. i \in Nat \ {0} /\ DueAt(p) \in Int /\ CameIn(p) \in Int
    BY TurnNumbers
  <2>2. RowAt(p).due = DueAt(p) /\ RowAt(p).paid = CameIn(p)
    BY DEF RowAt
  <2>3. QED
    BY <2>1, <2>2
<1>2. Eligible(i) \in SUBSET Contracted
  <2>1. i + 1..loan.periods \subseteq 1..loan.periods
    BY <1>1, ProjectedLoan
  <2>2. QED
    BY <2>1 DEF Eligible, Contracted
<1>3. IsFiniteSet(Eligible(i))
  <2>1. IsFiniteSet(Contracted)
    <3>1. PICK n \in Int : n = loan.periods
      BY ProjectedLoan
    <3>2. IsFiniteSet(1..n)
      BY FS_Interval, 1 \in Int
    <3>3. QED
      BY <3>1, <3>2 DEF Contracted
  <2>2. QED
    BY <1>2, <2>1, FS_Subset
<1>4. ASSUME Eligible(i) # {}
      PROVE  extension \in ExtensionOf
  <2>1. parts \in Nat \ {0}
    BY <1>3, <1>4, FS_CardinalityType, FS_EmptySet
  <2> HIDE DEF short, parts
  <2>2. PICK s \in Int, k \in Nat \ {0} : s = short /\ k = parts
    BY <1>1, <2>1
  <2>3. RoundDiv(s, k) \in Int
    BY RoundDivBounds
  <2>4. LastShare(s, k) \in Int
    BY <2>3 DEF LastShare
  <2> HIDE DEF i
  <2>5. QED
    BY <1>1, <1>2, <1>4, <2>2, <2>3, <2>4 DEF ExtensionOf
<1>5. Spread(i, RowAt(p), resolved) = {} \/ (Eligible(i) # {} /\ Spread(i, RowAt(p), resolved) = {extension})
  BY <1>1 DEF Spread
<1> HIDE DEF extension
<1>6. extension.missed = i /\ extension.eligible = Eligible(i)
  BY DEF extension
<1>7. QED
  BY <1>4, <1>5, <1>6, FS_EmptySet, FS_Singleton

(* A turn leaves what another turn can start from, and adds a row.         *)
LEMMA TurnTyped ==
    ASSUME SchedulesTyped, Projects(loan), NEW p \in StateOf, NEW resolved
    PROVE  /\ Turn(p, resolved) \in StateOf
           /\ Len(Turn(p, resolved).rows) = Len(p.rows) + 1
           /\ \A j \in 1..Len(p.rows) : Turn(p, resolved).rows[j] = p.rows[j]
           /\ Turn(p, resolved).rows[At(p)] = RowAt(p)
<1>1. /\ p.rows \in Seq(RowOf) /\ p.principal \in Int /\ p.unpaidInterest \in Int /\ p.charged \in Int
      /\ p.extensions \in SUBSET ExtensionOf /\ IsFiniteSet(p.extensions)
  BY DEF StateOf
<1>2. /\ Append(p.rows, RowAt(p)) \in Seq(RowOf) /\ Len(Append(p.rows, RowAt(p))) = Len(p.rows) + 1
      /\ \A j \in 1..Len(p.rows) : Append(p.rows, RowAt(p))[j] = p.rows[j]
      /\ Append(p.rows, RowAt(p))[At(p)] = RowAt(p)
  <2>1. RowAt(p) \in RowOf
    BY TurnNumbers
  <2>2. QED
    BY <1>1, <2>1 DEF At
<1>3. Turn(p, resolved).principal \in Int /\ Turn(p, resolved).unpaidInterest \in Int
  <2>1. PICK a, u, g \in Int : a = AppliedAt(p) /\ u = Accrued(p) /\ g = p.principal
    BY <1>1, TurnNumbers
  <2>2. /\ Turn(p, resolved).principal = g - (a - Least(a, u))
        /\ Turn(p, resolved).unpaidInterest = u - Least(a, u)
    BY <2>1, TurnIs
  <2>3. QED
    BY <2>2 DEF Least
<1>4. Turn(p, resolved).charged \in Int
  <2>1. InterestPerPeriod(loan) \in Int
    BY ProjectedLoan
  <2>2. QED
    BY <1>1, <2>1, TurnIs
<1>5. p.extensions \cup Spread(At(p), RowAt(p), resolved) \in {X \in SUBSET ExtensionOf : IsFiniteSet(X)}
  BY <1>1, SpreadTyped, FS_Union
<1>6. /\ Turn(p, resolved).rows = Append(p.rows, RowAt(p))
      /\ Turn(p, resolved).extensions = p.extensions \cup Spread(At(p), RowAt(p), resolved)
      /\ Turn(p, resolved) =
            [rows |-> Turn(p, resolved).rows, principal |-> Turn(p, resolved).principal,
             unpaidInterest |-> Turn(p, resolved).unpaidInterest, charged |-> Turn(p, resolved).charged,
             extensions |-> Turn(p, resolved).extensions]
  BY TurnIs
<1>7. Turn(p, resolved) \in StateOf
  BY <1>2, <1>3, <1>4, <1>5, <1>6 DEF StateOf
<1>8. QED
  BY <1>2, <1>6, <1>7

(* The loop's turns as a recursion over their number.                      *)
Onward(p, resolved) == IF Settled(p) THEN p ELSE Turn(p, resolved)
TurnStep(resolved) == [i \in 1..Cap |-> [p \in StateOf |-> Onward(p, resolved)]]
TurnsFrom(resolved, f) == [i \in 0..Cap |-> IF i = 0 THEN Start ELSE Onward(f[i - 1], resolved)]

(* The turns of the loop, one after the other, until everything is paid.   *)
LEMMA TurnsUnfold ==
    ASSUME SchedulesTyped, Projects(loan), NEW resolved
    PROVE  /\ Cap \in Nat /\ loan.periods < Cap
           /\ \A i \in 0..Cap : Turns(resolved)[i] \in StateOf
           /\ Turns(resolved)[0] = Start
           /\ \A i \in 0..Cap : i < Cap =>
                 Turns(resolved)[i + 1] = Onward(Turns(resolved)[i], resolved)
<1>1. PICK n \in Nat, c \in Nat : n = loan.periods /\ c = Cap /\ n < c
  <2>1. loan.periods \in Nat
    BY ProjectedLoan
  <2>2. QED
    BY <2>1 DEF Cap
<1>2. Start \in StateOf
  <2>1. <<>> \in Seq(RowOf) /\ {} \in {X \in SUBSET ExtensionOf : IsFiniteSet(X)}
    BY FS_EmptySet
  <2>2. loan.principal \in Int
    BY ProjectedLoan
  <2>3. QED
    BY <2>1, <2>2 DEF Start, StateOf
<1>3. \A p \in StateOf : Onward(p, resolved) \in StateOf
  BY TurnTyped DEF Onward
<1> DEFINE step == TurnStep(resolved)
<1>4. \A i \in 1..c : \A p \in StateOf : step[i][p] = Onward(p, resolved) /\ step[i][p] \in StateOf
  BY <1>1, <1>3 DEF TurnStep
<1> HIDE DEF step
<1>5. \E f : f = TurnsFrom(resolved, f)
  <2>1. PICK f : f = Unfolding(c, Start, step, f)
    BY <1>1, RecursionHasSolution
  <2>2. \A i \in 0..c : f[i] \in StateOf
    BY <1>2, <1>4, <2>1, RecursionTyped
  <2>3. ASSUME NEW i \in 0..c, i # 0 PROVE step[i][f[i - 1]] = Onward(f[i - 1], resolved)
    <3>1. i \in 1..c /\ i - 1 \in 0..c
      BY <2>3
    <3>2. QED
      BY <1>4, <2>2, <3>1
  <2>4. Unfolding(c, Start, step, f) = TurnsFrom(resolved, f)
    BY <1>1, <2>3 DEF Unfolding, TurnsFrom
  <2>5. QED
    BY <2>1, <2>4
<1> DEFINE after == CHOOSE f : f = TurnsFrom(resolved, f)
<1>6. Turns(resolved) = after
  BY DEF Turns, TurnsFrom, Onward
<1>7. after = TurnsFrom(resolved, after)
  BY <1>5
<1> HIDE DEF after
<1>8. \A i \in 0..c : after[i] = IF i = 0 THEN Start ELSE Onward(after[i - 1], resolved)
  <2>1. \A i \in 0..c :
            TurnsFrom(resolved, after)[i] = IF i = 0 THEN Start ELSE Onward(after[i - 1], resolved)
    BY <1>1 DEF TurnsFrom
  <2>2. QED
    BY <1>7, <2>1
<1>9. after[0] = Start
  BY <1>8, 0 \in 0..c
<1>10. ASSUME NEW i \in 0..c, i < c PROVE after[i + 1] = Onward(after[i], resolved)
  <2>1. PICK j \in 0..c : j = i + 1 /\ j # 0 /\ j - 1 = i
    BY <1>10
  <2>2. after[j] = Onward(after[j - 1], resolved)
    BY <1>8, <2>1
  <2>3. QED
    BY <2>1, <2>2
<1>11. \A i \in 0..c : after[i] \in StateOf
  <2> DEFINE Good == {i \in 0..c : after[i] \in StateOf}
  <2>1. 0 \in Good
    BY <1>2, <1>9
  <2>2. ASSUME NEW i \in 0..c, i \in Good, i < c PROVE i + 1 \in Good
    BY <1>3, <1>10, <2>2
  <2>3. Good \in SUBSET (0..c)
    OBVIOUS
  <2>4. \A i \in 0..c : i \in Good
    <3> HIDE DEF Good
    <3>1. QED
      BY <2>1, <2>2, <2>3, IntervalInduction
  <2>5. QED
    BY <2>4
<1>12. QED
  BY <1>1, <1>6, <1>9, <1>10, <1>11

(* The projection is what one of them leaves: that everything is paid, or  *)
(* the loop was cut off.                                                   *)
LEMMA ProjectionIsATurn ==
    ASSUME SchedulesTyped, Projects(loan), NEW resolved
    PROVE  \E i \in 0..Cap : /\ Projection(resolved) = Turns(resolved)[i]
                             /\ Settled(Projection(resolved)) \/ i = Cap
<1> DEFINE after == Turns(resolved)
           ends == {i \in 0..Cap : Settled(after[i]) \/ i = Cap}
           end == CHOOSE i \in 0..Cap : Settled(after[i]) \/ i = Cap
<1>1. Cap \in 0..Cap
  BY TurnsUnfold
<1>2. end \in 0..Cap /\ (Settled(after[end]) \/ end = Cap)
  BY <1>1
<1>3. Projection(resolved) = after[end]
  BY DEF Projection
<1> HIDE DEF after, end
<1>4. QED
  BY <1>2, <1>3 DEF after

(* What holds at the start, and after a turn if before, holds of the       *)
(* projection.                                                             *)
LEMMA ProjectionInduction ==
    ASSUME SchedulesTyped, Projects(loan), NEW resolved, NEW Good \in SUBSET StateOf, Start \in Good,
           \A p \in Good : Settled(p) \/ Turn(p, resolved) \in Good
    PROVE  Projection(resolved) \in Good
<1>1. PICK c \in Nat : c = Cap
  BY TurnsUnfold
<1> DEFINE after == Turns(resolved)
           Reached == {i \in 0..c : after[i] \in Good}
<1>2. 0 \in Reached
  BY TurnsUnfold
<1>3. ASSUME NEW i \in 0..c, i \in Reached, i < c PROVE i + 1 \in Reached
  <2>1. after[i + 1] = Onward(after[i], resolved) /\ after[i] \in Good
    BY <1>1, <1>3, TurnsUnfold
  <2>2. QED
    BY <1>3, <2>1 DEF Onward
<1>4. Reached \in SUBSET (0..c)
  OBVIOUS
<1>5. \A i \in 0..c : i \in Reached
  <2> HIDE DEF Reached
  <2>1. QED
    BY <1>2, <1>3, <1>4, IntervalInduction
<1>6. QED
  BY <1>1, <1>5, ProjectionIsATurn

-----------------------------------------------------------------------------
(* OnTimeNeverExtends. *)

(* What a loan paid as contracted is projected to, so far: what it was     *)
(* contracted to.                                                          *)
AsContracted ==
    {p \in StateOf :
        /\ \A i \in 1..Len(p.rows) :
              /\ ~IsMissed(p.rows[i])
              /\ i < loan.periods => /\ p.rows[i].due = Emi(loan)
                                     /\ p.rows[i].interest = InterestPerPeriod(loan)
        /\ p.extensions = {}
        /\ Len(p.rows) <= loan.periods
        /\ \/ Settled(p)
           \/ /\ Len(p.rows) < loan.periods /\ p.unpaidInterest = 0
              /\ p.principal = loan.principal - Len(p.rows) * PrincipalPerPeriod(loan)}

(* A turn goes on as contracted.                                           *)
LEMMA TurnAsContracted ==
    ASSUME SchedulesTyped, Projects(loan), PaidAsContracted, OutlastsRounding(loan), DividesUp,
           PlugSuffices, NEW p \in AsContracted, ~Settled(p), NEW resolved
    PROVE  Turn(p, resolved) \in AsContracted
<1>1. /\ p \in StateOf /\ p.extensions = {} /\ Len(p.rows) < loan.periods /\ p.unpaidInterest = 0
      /\ p.principal = loan.principal - Len(p.rows) * PrincipalPerPeriod(loan)
      /\ p.rows \in Seq(RowOf)
      /\ \A i \in 1..Len(p.rows) :
              /\ ~IsMissed(p.rows[i])
              /\ i < loan.periods => /\ p.rows[i].due = Emi(loan)
                                     /\ p.rows[i].interest = InterestPerPeriod(loan)
  BY DEF AsContracted, StateOf
<1>2. PICK P, n \in Nat \ {0}, r, e \in Nat, x \in Int :
           /\ P = loan.principal /\ n = loan.periods /\ r = PrincipalPerPeriod(loan)
           /\ e = Emi(loan) /\ x = InterestPerPeriod(loan) /\ e = r + x
  BY ProjectedLoan
<1>3. PICK k \in Nat, i \in 1..n : k = Len(p.rows) /\ i = k + 1 /\ i = At(p)
  <2>1. Len(p.rows) \in Nat
    BY <1>1
  <2>2. Len(p.rows) + 1 \in 1..n
    BY <1>1, <1>2, <2>1, SMTT(30)
  <2>3. QED
    BY <2>1, <2>2 DEF At
<1>4. (n - 1) * r <= P /\ P <= n * r
  <2>1. n * (n - 1) <= 2 * P
    BY <1>2 DEF OutlastsRounding, Projects
  <2>2. r = RoundDiv(P, n)
    BY <1>2 DEF PrincipalPerPeriod
  <2>3. QED
    BY <1>2, <2>1, <2>2, SharesFit DEF DividesUp
<1>5. PICK left \in Int : /\ left = P - k * r /\ left = p.principal /\ 0 <= left
                          /\ (i < n => left >= r) /\ (i = n => left <= r)
                          /\ left - r = P - (k + 1) * r /\ left = P - (i - 1) * r
  <2>1. \A y, z \in Nat : y <= z => y * r <= z * r
    OBVIOUS
  <2>2. /\ k * r <= (n - 1) * r /\ (i < n => (k + 1) * r <= (n - 1) * r)
        /\ (k + 1) * r = k * r + r /\ n * r = (n - 1) * r + r
        /\ k * r \in Int /\ (n - 1) * r \in Int /\ i - 1 = k
    BY <1>3, <2>1, n - 1 \in Nat
  <2>3. i = n => k * r = (n - 1) * r
    BY <1>3
  <2>4. p.principal = P - k * r
    BY <1>1, <1>2, <1>3
  <2>5. QED
    BY <1>4, <2>2, <2>3, <2>4
<1>6. Accrued(p) = x /\ Owed(p) = left + x
  <2>1. p.unpaidInterest = 0 /\ InterestPerPeriod(loan) = x /\ p.principal = left
    BY <1>1, <1>2, <1>5
  <2>2. Accrued(p) = x
    BY <2>1 DEF Accrued
  <2>3. QED
    BY <2>1, <2>2 DEF Owed
<1>7. DueAt(p) = IF i < n THEN e ELSE left + x
  <2>1. AddOn(p.extensions, i) = 0
    BY <1>1, <1>3, AddOnTyped, FS_EmptySet
  <2>2. DueAt(p) = Least(e, left + x)
    BY <1>2, <1>3, <1>6, <2>1 DEF DueAt
  <2>3. i < n => e <= left + x
    BY <1>2, <1>5
  <2>4. i = n => left + x <= e
    BY <1>2, <1>5
  <2>5. left + x \in Int /\ i <= n /\ n \in Nat
    BY <1>3
  <2>6. QED
    BY <2>2, <2>3, <2>4, <2>5 DEF Least
<1>8. BaseDue(i) \in Int /\ BaseDue(i) >= DueAt(p) /\ (i < n => BaseDue(i) = e)
  <2>1. CASE i < n
    <3>1. BaseDue(i) = e
      BY <1>2, <2>1, ProjectedLoan DEF Contracted
    <3>2. QED
      BY <1>7, <2>1, <3>1
  <2>2. CASE i = n
    <3>1. LET last == Per1000Schedule(loan)[n]
          IN  last.principal = left /\ last.total \in Int /\ BaseDue(n) = last.total
      BY <1>2, <1>5, <2>2, ProjectedLoan, n \in Contracted DEF Contracted
    <3>2. BaseDue(n) >= Least(e, left + x)
      BY <1>2, <3>1 DEF PlugSuffices
    <3>3. Least(e, left + x) = left + x
      BY <1>2, <1>5, <2>2 DEF Least
    <3>4. QED
      BY <1>7, <2>2, <3>1, <3>2, <3>3
  <2>3. QED
    BY <1>3, <2>1, <2>2
<1>9. i <= past => Collected(i) = BaseDue(i) \/ (Today(i) /\ Collected(i) < BaseDue(i))
  <2>1. i \in DOMAIN collected /\ i \in Contracted
    BY <1>2, <1>3 DEF SchedulesTyped, Contracted
  <2>2. QED
    BY <2>1 DEF PaidAsContracted, Collected
<1>10. PICK d, o, m, c \in Int :
            /\ d = DueAt(p) /\ o = Owed(p) /\ m = CameIn(p) /\ c = Collected(i)
            /\ d <= o /\ m = IF i > past THEN d ELSE Least(c, o)
  <2>1. Collected(i) \in Int
    <3>1. i \in Nat
      BY <1>3
    <3>2. \A y \in Nat : Collected(y) \in Nat
      BY ProjectedLoan
    <3>3. QED
      BY <3>1, <3>2
  <2>2. CameIn(p) = IF i > past THEN DueAt(p) ELSE Least(Collected(i), Owed(p))
    BY <1>3 DEF CameIn
  <2>3. QED
    BY <1>1, <2>1, <2>2, TurnNumbers
<1>11. past \in Nat
  BY DEF SchedulesTyped
<1>12. i <= past => c >= d \/ Today(i)
  BY <1>8, <1>9, <1>10
<1>13. ~IsMissed(RowAt(p))
  <2>1. i <= past /\ ~Today(i) => m >= d
    BY <1>10, <1>11, <1>12 DEF Least
  <2>2. IsMissed(RowAt(p)) <=> At(p) <= past /\ CameIn(p) < DueAt(p) /\ ~Today(At(p))
    BY <1>1, TurnNumbers
  <2>3. QED
    BY <1>3, <1>10, <2>1, <2>2
<1>14. AppliedAt(p) = d
  <2>1. AppliedAt(p) = IF Today(i) /\ m < d THEN d ELSE m
    BY <1>3, <1>10 DEF AppliedAt, Applied
  <2>2. CASE i = n
    <3>1. d = o
      BY <1>6, <1>7, <1>10, <2>2
    <3>2. AppliedAt(p) >= d /\ AppliedAt(p) <= o /\ AppliedAt(p) \in Int
      BY <1>1, <1>10, <1>13, TurnNumbers
    <3>3. QED
      BY <3>1, <3>2
  <2>3. CASE i < n
    <3>1. BaseDue(i) = d
      BY <1>7, <1>8, <1>10, <2>3
    <3>2. i <= past => c = d \/ (Today(i) /\ c < d)
      BY <1>9, <1>10, <3>1
    <3>3. m = d \/ (Today(i) /\ m < d)
      BY <1>10, <1>11, <3>2 DEF Least
    <3>4. QED
      BY <2>1, <3>3
  <2>4. QED
    BY <1>3, <2>2, <2>3
<1>15. Least(d, x) = x
  BY <1>2, <1>5, <1>7, <1>10 DEF Least
<1> DEFINE q == Turn(p, resolved)
<1>16. /\ q.principal = left - (d - x) /\ q.unpaidInterest = 0 /\ q.extensions = {}
  <2>1. Spread(At(p), RowAt(p), resolved) = {}
    BY <1>13 DEF Spread
  <2>2. /\ q.principal = p.principal - (AppliedAt(p) - Least(AppliedAt(p), Accrued(p)))
        /\ q.unpaidInterest = Accrued(p) - Least(AppliedAt(p), Accrued(p))
        /\ q.extensions = p.extensions \cup Spread(At(p), RowAt(p), resolved)
    BY TurnIs
  <2>3. QED
    BY <1>1, <1>2, <1>5, <1>6, <1>14, <1>15, <2>1, <2>2
<1>17. /\ q \in StateOf /\ Len(q.rows) = k + 1
       /\ \A j \in 1..k : q.rows[j] = p.rows[j]
       /\ q.rows[k + 1] = RowAt(p)
  BY <1>1, <1>3, TurnTyped
<1>18. RowAt(p).due = d /\ RowAt(p).interest = x
  BY <1>6, <1>10, <1>15 DEF RowAt
<1> HIDE DEF q
<1>19. ASSUME NEW j \in 1..Len(q.rows)
       PROVE  /\ ~IsMissed(q.rows[j])
              /\ j < n => q.rows[j].due = e /\ q.rows[j].interest = x
  <2>1. CASE j = k + 1
    <3>1. j < n => d = e
      BY <1>3, <1>7, <1>10, <2>1
    <3>2. QED
      BY <1>13, <1>17, <1>18, <2>1, <3>1
  <2>2. CASE j # k + 1
    <3>1. j \in 1..k
      BY <1>17, <2>2
    <3>2. QED
      BY <1>1, <1>2, <1>3, <1>17, <3>1
  <2>3. QED
    BY <2>1, <2>2
<1>20. \/ Settled(q)
       \/ k + 1 < n /\ q.principal = P - (k + 1) * r
  <2>1. CASE i = n
    <3>1. d = left + x
      BY <1>7, <1>10, <2>1
    <3>2. q.principal = 0
      BY <1>16, <3>1
    <3>3. QED
      BY <1>16, <3>2 DEF Settled
  <2>2. CASE i < n
    <3>1. d = r + x
      BY <1>2, <1>7, <1>10, <2>2
    <3>2. q.principal = left - r
      BY <1>16, <3>1
    <3>3. QED
      BY <1>3, <1>5, <2>2, <3>2
  <2>3. QED
    BY <1>3, <2>1, <2>2
<1>21. /\ \A j \in 1..Len(q.rows) :
              /\ ~IsMissed(q.rows[j])
              /\ j < loan.periods => /\ q.rows[j].due = Emi(loan)
                                     /\ q.rows[j].interest = InterestPerPeriod(loan)
       /\ Len(q.rows) <= loan.periods
  BY <1>2, <1>3, <1>17, <1>19
<1>22. \/ Settled(q)
       \/ /\ Len(q.rows) < loan.periods /\ q.unpaidInterest = 0
          /\ q.principal = loan.principal - Len(q.rows) * PrincipalPerPeriod(loan)
  BY <1>2, <1>16, <1>17, <1>20
<1>23. q \in AsContracted
  BY <1>16, <1>17, <1>21, <1>22 DEF AsContracted
<1>24. QED
  BY <1>23 DEF q

(* A loan paid as contracted is projected as it was contracted, whatever   *)
(* has come in today: the projection and the contract are two computations *)
(* that agree.                                                             *)
THEOREM OnTimeNeverExtendsAlways == Spec => []OnTimeNeverExtends
<1>1. SchedulesTyped => OnTimeNeverExtends
  <2> SUFFICES ASSUME SchedulesTyped, Projects(loan), PaidAsContracted, OutlastsRounding(loan),
                      DividesUp, PlugSuffices
               PROVE  LET p == Projection(resolution)
                      IN  /\ Len(p.rows) <= loan.periods
                          /\ \A i \in DOMAIN p.rows : ~IsMissed(p.rows[i])
                          /\ \A i \in DOMAIN p.rows \ {loan.periods} :
                                LET row == Per1000Schedule(loan)[i]
                                IN  p.rows[i].due = row.total /\ p.rows[i].interest = row.interest
    BY DEF OnTimeNeverExtends
  <2>1. AsContracted \in SUBSET StateOf
    BY DEF AsContracted
  <2>2. Start \in AsContracted
    <3>1. Start \in StateOf
      BY TurnsUnfold, 0 \in 0..Cap
    <3>2. Start.rows = <<>> /\ Start.extensions = {} /\ Start.unpaidInterest = 0
          /\ Start.principal = loan.principal
      BY DEF Start
    <3>3. PICK P, n \in Nat \ {0}, r \in Nat :
               P = loan.principal /\ n = loan.periods /\ r = PrincipalPerPeriod(loan)
      BY ProjectedLoan
    <3>4. Len(Start.rows) = 0 /\ P - 0 * r = P /\ 0 < n
      BY <3>2
    <3>5. 1..Len(Start.rows) = {} /\ Len(Start.rows) < loan.periods /\ Len(Start.rows) <= loan.periods
      BY <3>3, <3>4
    <3>6. Start.principal = loan.principal - Len(Start.rows) * PrincipalPerPeriod(loan)
      BY <3>2, <3>3, <3>4
    <3>7. QED
      BY <3>1, <3>2, <3>5, <3>6 DEF AsContracted
  <2>3. \A p \in AsContracted : Settled(p) \/ Turn(p, resolution) \in AsContracted
    BY TurnAsContracted
  <2>4. Projection(resolution) \in AsContracted
    BY <2>1, <2>2, <2>3, ProjectionInduction
  <2>5. PICK p \in AsContracted : p = Projection(resolution)
    BY <2>4
  <2>6. DOMAIN p.rows = 1..Len(p.rows) /\ Len(p.rows) \in Nat /\ Len(p.rows) <= loan.periods
    BY DEF AsContracted, StateOf
  <2>7. ASSUME NEW i \in 1..Len(p.rows), i # loan.periods
        PROVE  LET row == Per1000Schedule(loan)[i]
               IN  p.rows[i].due = row.total /\ p.rows[i].interest = row.interest
    <3>1. i \in Contracted /\ i < loan.periods
      <4>1. PICK n \in Nat : n = loan.periods
        BY ProjectedLoan
      <4>2. PICK l \in Nat : l = Len(p.rows) /\ l <= n
        BY <2>6, <4>1
      <4>3. i \in 1..l /\ i # n
        BY <2>7, <4>1, <4>2
      <4>4. QED
        BY <4>1, <4>2, <4>3 DEF Contracted
    <3>2. QED
      BY <3>1, ProjectedLoan DEF AsContracted
  <2>8. \A i \in 1..Len(p.rows) : ~IsMissed(p.rows[i])
    BY DEF AsContracted
  <2>9. QED
    BY <2>5, <2>6, <2>7, <2>8
<1>2. QED
  BY <1>1, SchedulesTypeCorrect, PTL

-----------------------------------------------------------------------------
(* What is spread. *)

(* What one extension adds to an installment.                              *)
ShareOf(e, i) ==
    IF i \in e.eligible THEN (IF i = Max(e.eligible) THEN e.last ELSE e.each) ELSE 0

(* How a shortfall of the i-th installment is spread.                      *)
ExtensionFor(i, shortfall) ==
    [missed |-> i, eligible |-> Eligible(i),
     each |-> RoundDiv(shortfall, Cardinality(Eligible(i))),
     last |-> LastShare(shortfall, Cardinality(Eligible(i)))]

(* What equal parts add up to.                                             *)
LEMMA SumOfEqualParts ==
    ASSUME NEW f, NEW S, IsFiniteSet(S), NEW v \in Int, \A x \in S : f[x] = v
    PROVE  SumFunctionOnSet(f, S) = Cardinality(S) * v
<1> DEFINE Good == {T \in SUBSET S : SumFunctionOnSet(f, T) = Cardinality(T) * v}
<1>1. {} \in Good
  BY SumOfNothing, FS_EmptySet
<1>2. ASSUME NEW T \in Good, NEW x \in S \ T
      PROVE  T \cup {x} \in Good
  <2>1. IsFiniteSet(T) /\ T \in SUBSET S /\ SumFunctionOnSet(f, T) = Cardinality(T) * v
    BY FS_Subset
  <2>2. SumFunctionOnSet(f, T \cup {x}) = SumFunctionOnSet(f, T) + v
    <3>1. IntegersOn(f, T) /\ f[x] \in Int /\ f[x] = v /\ x \notin T
      BY <2>1 DEF IntegersOn
    <3>2. QED
      BY <3>1, SumWith
  <2>3. PICK c \in Nat : c = Cardinality(T) /\ c + 1 = Cardinality(T \cup {x})
    BY <2>1, FS_CardinalityType, FS_AddElement
  <2>4. c * v + v = (c + 1) * v
    OBVIOUS
  <2>5. QED
    BY <2>1, <2>2, <2>3, <2>4
<1>3. Good \in SUBSET (SUBSET S)
  OBVIOUS
<1>4. QED
  <2> HIDE DEF Good
  <2>1. S \in Good
    BY <1>1, <1>2, <1>3, ElementInduction
  <2>2. QED
    BY <2>1 DEF Good

(* The installments ahead that may take a share are finitely many.         *)
LEMMA EligibleTyped ==
    ASSUME SchedulesTyped, Projects(loan), NEW i \in Nat
    PROVE  /\ Eligible(i) \in SUBSET Contracted /\ IsFiniteSet(Eligible(i))
           /\ Eligible(i) \subseteq i + 1..loan.periods
           /\ Eligible(i) # {} => Cardinality(Eligible(i)) \in Nat \ {0}
           /\ \A j \in Eligible(i) : Collected(j) < BaseDue(j)
<1>1. PICK n \in Nat : n = loan.periods
  BY ProjectedLoan
<1>2. Eligible(i) \subseteq i + 1..n /\ \A j \in Eligible(i) : Collected(j) < BaseDue(j)
  BY <1>1 DEF Eligible
<1>3. i + 1..n \subseteq 1..n
  OBVIOUS
<1>4. IsFiniteSet(1..n)
  BY FS_Interval, 1 \in Int
<1>5. Eligible(i) \in SUBSET (1..n) /\ IsFiniteSet(Eligible(i))
  BY <1>2, <1>3, <1>4, FS_Subset
<1>6. Eligible(i) # {} => Cardinality(Eligible(i)) \in Nat \ {0}
  BY <1>5, FS_CardinalityType, FS_EmptySet
<1>7. QED
  BY <1>1, <1>2, <1>5, <1>6 DEF Contracted

(* The shares of a shortfall are amounts, the larger the more is short.    *)
LEMMA SharesTyped ==
    ASSUME SchedulesTyped, Projects(loan), NEW i \in Nat, Eligible(i) # {}, NEW short \in Int
    PROVE  /\ ExtensionFor(i, short) \in ExtensionOf
           /\ short >= 0 => ExtensionFor(i, short).each >= 0
           /\ \A more \in Int :
                 short <= more => ExtensionFor(i, short).each <= ExtensionFor(i, more).each
<1>1. PICK c \in Nat \ {0} : c = Cardinality(Eligible(i))
  BY EligibleTyped
<1>2. RoundDiv(short, c) \in Int
  BY RoundDivBounds
<1>3. LastShare(short, c) \in Int
  BY <1>2 DEF LastShare
<1>4. short >= 0 => RoundDiv(short, c) >= 0
  BY RoundDivNonnegative
<1>5. \A more \in Int : short <= more => RoundDiv(short, c) <= RoundDiv(more, c)
  BY RoundDivMonotone
<1>6. Eligible(i) \in SUBSET Contracted
  BY EligibleTyped
<1>7. QED
  BY <1>1, <1>2, <1>3, <1>4, <1>5, <1>6 DEF ExtensionFor, ExtensionOf

(* A turn spreads what is short of a missed installment, or nothing.       *)
LEMMA SpreadIs ==
    ASSUME SchedulesTyped, Projects(loan), NEW p \in StateOf, NEW resolved
    PROVE  LET i == At(p)
           IN  Spread(i, RowAt(p), resolved) =
                   IF IsMissed(RowAt(p)) /\ i \in Contracted /\ resolved[i] = "EXTEND_EMI"
                      /\ Eligible(i) # {}
                   THEN {ExtensionFor(i, DueAt(p) - CameIn(p))} ELSE {}
<1>1. RowAt(p).due = DueAt(p) /\ RowAt(p).paid = CameIn(p)
  BY DEF RowAt
<1>2. QED
  BY <1>1 DEF Spread, ExtensionFor

(* An installment that no extension raises is as it was agreed.            *)
LEMMA AddOnUntouched ==
    ASSUME NEW X, NEW i, \A e \in X : i \notin e.eligible
    PROVE  AddOn(X, i) = 0
<1>1. {e \in X : i \in e.eligible} = {}
  OBVIOUS
<1>2. QED
  BY <1>1, SumOfNothing DEF AddOn

(* An extension more adds its share.                                       *)
LEMMA AddOnOfOneMore ==
    ASSUME SchedulesTyped, Projects(loan), NEW X \in SUBSET ExtensionOf, IsFiniteSet(X),
           NEW e \in ExtensionOf, e \notin X, NEW i \in Nat
    PROVE  /\ AddOn(X \cup {e}, i) = AddOn(X, i) + ShareOf(e, i)
           /\ AddOn(X, i) \in Int /\ ShareOf(e, i) \in Int
<1> DEFINE few == [y \in X |-> IF i = Max(y.eligible) THEN y.last ELSE y.each]
           more == [y \in X \cup {e} |-> IF i = Max(y.eligible) THEN y.last ELSE y.each]
           touched == {y \in X : i \in y.eligible}
           all == {y \in X \cup {e} : i \in y.eligible}
<1>1. /\ IntegersOn(few, touched) /\ IntegersOn(more, touched) /\ more[e] \in Int
      /\ \A y \in touched : more[y] = few[y]
  <2>1. IsFiniteSet(touched)
    BY FS_Subset
  <2>2. QED
    BY <2>1 DEF IntegersOn, ExtensionOf
<1>2. AddOn(X, i) = SumFunctionOnSet(few, touched) /\ AddOn(X \cup {e}, i) = SumFunctionOnSet(more, all)
  BY DEF AddOn
<1>3. i \in e.eligible => all = touched \cup {e} /\ ShareOf(e, i) = more[e]
  BY DEF ShareOf
<1>4. i \notin e.eligible => all = touched /\ ShareOf(e, i) = 0
  BY DEF ShareOf
<1>5. e \notin touched
  OBVIOUS
<1> HIDE DEF few, more, touched, all
<1>6. SumFunctionOnSet(more, touched) = SumFunctionOnSet(few, touched)
  BY <1>1, SumOfEquals
<1>7. SumFunctionOnSet(few, touched) \in Int
  BY <1>1, SumIsInteger
<1>8. i \in e.eligible => SumFunctionOnSet(more, all) = SumFunctionOnSet(more, touched) + more[e]
  BY <1>1, <1>3, <1>5, SumWith
<1>9. QED
  BY <1>1, <1>2, <1>3, <1>4, <1>6, <1>7, <1>8

(* Extensions that take nothing off add up to no less than nothing.        *)
LEMMA AddOnNatural ==
    ASSUME NEW X \in SUBSET ExtensionOf, IsFiniteSet(X), \A e \in X : e.each >= 0 /\ e.last >= 0, NEW i
    PROVE  AddOn(X, i) \in Nat
<1> DEFINE share == [e \in X |-> IF i = Max(e.eligible) THEN e.last ELSE e.each]
           touched == {e \in X : i \in e.eligible}
<1>1. IsFiniteSet(touched)
  BY FS_Subset
<1>2. \A e \in touched : share[e] \in Nat
  BY DEF ExtensionOf
<1>3. AddOn(X, i) = SumFunctionOnSet(share, touched)
  BY DEF AddOn
<1> HIDE DEF share, touched
<1>4. QED
  BY <1>1, <1>2, <1>3, SumIsNatural

(* The shares of a shortfall add up to it, to the paisa.                   *)
LEMMA SharesAreTheShortfall ==
    ASSUME SchedulesTyped, Projects(loan), NEW i \in Nat, Eligible(i) # {}, NEW short \in Int, NEW f,
           \A j \in Contracted : f[j] = ShareOf(ExtensionFor(i, short), j)
    PROVE  SumFunctionOnSet(f, Eligible(i)) = short
<1> DEFINE e == ExtensionFor(i, short)
           S == Eligible(i)
           m == Max(S)
<1>1. PICK c \in Nat \ {0} : c = Cardinality(S)
  BY EligibleTyped
<1>2. S \in SUBSET Contracted /\ IsFiniteSet(S)
  BY EligibleTyped
<1>3. m \in S
  <2>1. S \in SUBSET Int
    BY <1>2, ProjectedLoan DEF Contracted
  <2>2. QED
    BY <1>2, <2>1, GreatestElement
<1>4. PICK r \in Int : r = RoundDiv(short, c)
  BY RoundDivBounds
<1>5. e.eligible = S /\ e.each = r /\ e.last = short - (c - 1) * r
  BY <1>1, <1>4 DEF ExtensionFor, LastShare
<1>6. f[m] = short - (c - 1) * r /\ \A j \in S \ {m} : f[j] = r
  BY <1>2, <1>3, <1>5 DEF ShareOf
<1> HIDE DEF m, S, e
<1>7. IsFiniteSet(S \ {m}) /\ Cardinality(S \ {m}) = c - 1
  BY <1>1, <1>2, <1>3, FS_RemoveElement
<1>8. SumFunctionOnSet(f, S \ {m}) = (c - 1) * r
  BY <1>6, <1>7, SumOfEqualParts
<1>9. (c - 1) * r \in Int
  OBVIOUS
<1>10. IntegersOn(f, S)
  BY <1>2, <1>6, <1>9 DEF IntegersOn
<1>11. SumFunctionOnSet(f, S) = f[m] + SumFunctionOnSet(f, S \ {m})
  BY <1>3, <1>10, SumByParts
<1>12. SumFunctionOnSet(f, S) = short
  BY <1>6, <1>8, <1>9, <1>11
<1>13. QED
  BY <1>12 DEF S

(* What the extensions add to the installments after the k-th.             *)
Pending(X, k) == SumFunctionOnSet([j \in Contracted |-> AddOn(X, j)], k + 1..loan.periods)

(* What is pending after a period is what was pending before it, less its  *)
(* own add-on.                                                             *)
LEMMA PendingFalls ==
    ASSUME SchedulesTyped, Projects(loan), NEW X \in SUBSET ExtensionOf, IsFiniteSet(X), NEW k \in Nat
    PROVE  /\ Pending(X, k) \in Int
           /\ k >= loan.periods => Pending(X, k) = 0
           /\ k < loan.periods => Pending(X, k) = AddOn(X, k + 1) + Pending(X, k + 1)
<1> DEFINE f == [j \in Contracted |-> AddOn(X, j)]
<1>1. PICK n \in Nat : n = loan.periods /\ Contracted = 1..n
  BY ProjectedLoan DEF Contracted
<1>2. \A j \in 1..n : f[j] = AddOn(X, j) /\ f[j] \in Int
  BY <1>1, AddOnTyped
<1>3. \A l \in Nat : Pending(X, l) = SumFunctionOnSet(f, l + 1..n)
  BY <1>1 DEF Pending
<1> HIDE DEF f
<1>4. ASSUME NEW l \in Nat PROVE IntegersOn(f, l + 1..n)
  <2>1. IsFiniteSet(l + 1..n)
    BY FS_Interval, l + 1 \in Int
  <2>2. l + 1..n \subseteq 1..n
    OBVIOUS
  <2>3. QED
    BY <1>2, <2>1, <2>2 DEF IntegersOn
<1>5. SumFunctionOnSet(f, k + 1..n) \in Int
  BY <1>4, SumIsInteger
<1>6. ASSUME k >= n PROVE SumFunctionOnSet(f, k + 1..n) = 0
  <2>1. k + 1..n = {}
    BY <1>6
  <2>2. QED
    BY <2>1, SumOfNothing
<1>7. ASSUME k < n
      PROVE  SumFunctionOnSet(f, k + 1..n) = f[k + 1] + SumFunctionOnSet(f, k + 1 + 1..n)
  <2>1. k + 1 \in k + 1..n /\ (k + 1..n) \ {k + 1} = k + 1 + 1..n
    BY <1>7
  <2>2. QED
    BY <1>4, <2>1, SumByParts
<1>8. k < n => f[k + 1] = AddOn(X, k + 1)
  BY <1>2
<1>9. QED
  BY <1>1, <1>3, <1>5, <1>6, <1>7, <1>8, SMTT(30)

(* As long as no share is negative, nothing pending is.                    *)
LEMMA PendingNatural ==
    ASSUME SchedulesTyped, Projects(loan), NEW X \in SUBSET ExtensionOf, IsFiniteSet(X),
           \A e \in X : e.each >= 0 /\ e.last >= 0, NEW k \in Nat
    PROVE  Pending(X, k) \in Nat
<1> DEFINE f == [j \in Contracted |-> AddOn(X, j)]
<1>1. PICK n \in Nat : n = loan.periods /\ Contracted = 1..n
  BY ProjectedLoan DEF Contracted
<1>2. \A j \in k + 1..n : f[j] \in Nat
  BY <1>1, AddOnNatural
<1>3. IsFiniteSet(k + 1..n)
  BY FS_Interval, k + 1 \in Int
<1>4. SumFunctionOnSet(f, k + 1..n) \in Nat
  <2> HIDE DEF f
  <2>1. QED
    BY <1>2, <1>3, SumIsNatural
<1>5. QED
  BY <1>1, <1>4 DEF Pending

(* An extension more makes what is pending as much more as was short.      *)
LEMMA PendingOfOneMore ==
    ASSUME SchedulesTyped, Projects(loan), NEW X \in SUBSET ExtensionOf, IsFiniteSet(X),
           NEW i \in Nat, Eligible(i) # {}, NEW short \in Int, ExtensionFor(i, short) \notin X
    PROVE  Pending(X \cup {ExtensionFor(i, short)}, i) = Pending(X, i) + short
<1> DEFINE e == ExtensionFor(i, short)
           S == Eligible(i)
           f == [j \in Contracted |-> AddOn(X, j)]
           g == [j \in Contracted |-> ShareOf(e, j)]
           h == [j \in Contracted |-> AddOn(X \cup {e}, j)]
<1>1. PICK n \in Nat : n = loan.periods /\ Contracted = 1..n
  BY ProjectedLoan DEF Contracted
<1> DEFINE later == i + 1..n
<1>2. later \subseteq Contracted /\ IsFiniteSet(later)
  <2>1. later \subseteq 1..n
    OBVIOUS
  <2>2. IsFiniteSet(i + 1..n)
    BY FS_Interval, i + 1 \in Int
  <2>3. QED
    BY <1>1, <2>1, <2>2
<1>3. S \subseteq later /\ IsFiniteSet(S) /\ e.eligible = S
  BY <1>1, EligibleTyped DEF ExtensionFor
<1>4. \A j \in Contracted : /\ f[j] \in Int /\ g[j] \in Int /\ h[j] = f[j] + g[j]
                            /\ j \notin S => g[j] = 0
  <2>1. e \in ExtensionOf /\ e \notin X
    BY SharesTyped
  <2>2. \A j \in Contracted : /\ AddOn(X \cup {e}, j) = AddOn(X, j) + ShareOf(e, j)
                              /\ AddOn(X, j) \in Int /\ ShareOf(e, j) \in Int
    <3> HIDE DEF e
    <3>1. QED
      BY <1>1, <2>1, AddOnOfOneMore
  <2>3. \A j \in Contracted : j \notin S => ShareOf(e, j) = 0
    BY <1>3 DEF ShareOf
  <2>4. QED
    BY <2>2, <2>3
<1>5. SumFunctionOnSet(g, S) = short
  <2>1. \A j \in Contracted : g[j] = ShareOf(ExtensionFor(i, short), j)
    OBVIOUS
  <2> HIDE DEF g
  <2>2. QED
    BY <2>1, SharesAreTheShortfall
<1>6. Pending(X, i) = SumFunctionOnSet(f, later) /\ Pending(X \cup {e}, i) = SumFunctionOnSet(h, later)
  BY <1>1 DEF Pending
<1> HIDE DEF e, S, f, g, h, later
<1>7. IntegersOn(f, later) /\ IntegersOn(g, later)
  BY <1>2, <1>4 DEF IntegersOn
<1>8. SumFunctionOnSet(h, later) = SumFunctionOnSet(f, later) + SumFunctionOnSet(g, later)
  BY <1>2, <1>4, <1>7, SumOfTwo
<1>9. SumFunctionOnSet(g, later) = short
  <2>1. IsFiniteSet(later \ S) /\ S \cup (later \ S) = later /\ S \cap (later \ S) = {}
    BY <1>2, <1>3, FS_Subset
  <2>2. SumFunctionOnSet(g, later) = SumFunctionOnSet(g, S) + SumFunctionOnSet(g, later \ S)
    BY <1>7, <2>1, SumOfUnion
  <2>3. SumFunctionOnSet(g, later \ S) = Cardinality(later \ S) * 0
    BY <1>2, <1>4, <2>1, SumOfEqualParts
  <2>4. Cardinality(later \ S) * 0 = 0
    BY <2>1, FS_CardinalityType
  <2>5. QED
    BY <1>5, <2>2, <2>3, <2>4
<1>10. SumFunctionOnSet(f, later) \in Int
  BY <1>7, SumIsInteger
<1>11. QED
  BY <1>6, <1>8, <1>9 DEF e

-----------------------------------------------------------------------------
(* PaidWholeIsNeverShort. *)

(* So far no installment paid whole is short, and none is raised.          *)
PaidWholeSoFar ==
    {p \in StateOf :
        /\ \A i \in 1..Len(p.rows) :
              i < loan.periods /\ Collected(i) >= BaseDue(i) => ~IsMissed(p.rows[i])
        /\ \A e \in p.extensions : \A j \in e.eligible : Collected(j) < BaseDue(j)}

(* A turn keeps that: nobody is chased for a period that was paid whole.   *)
LEMMA TurnKeepsPaidWhole ==
    ASSUME SchedulesTyped, Projects(loan), NEW p \in PaidWholeSoFar, NEW resolved
    PROVE  Turn(p, resolved) \in PaidWholeSoFar
<1> DEFINE q == Turn(p, resolved)
           i == At(p)
<1>1. /\ p \in StateOf
      /\ \A j \in 1..Len(p.rows) :
            j < loan.periods /\ Collected(j) >= BaseDue(j) => ~IsMissed(p.rows[j])
      /\ \A e \in p.extensions : \A j \in e.eligible : Collected(j) < BaseDue(j)
  BY DEF PaidWholeSoFar
<1>2. PICK k \in Nat : k = Len(p.rows) /\ i = k + 1
  <2>1. Len(p.rows) \in Nat
    BY <1>1 DEF StateOf
  <2>2. QED
    BY <2>1 DEF At
<1>3. /\ q \in StateOf /\ Len(q.rows) = k + 1
      /\ \A j \in 1..k : q.rows[j] = p.rows[j]
      /\ q.rows[k + 1] = RowAt(p)
  BY <1>1, <1>2, TurnTyped
<1>4. \A e \in q.extensions : \A j \in e.eligible : Collected(j) < BaseDue(j)
  <2>1. q.extensions = p.extensions \cup Spread(i, RowAt(p), resolved)
    BY TurnIs
  <2>2. \A e \in Spread(i, RowAt(p), resolved) : e.eligible = Eligible(i)
    BY <1>1, SpreadTyped
  <2>3. \A j \in Eligible(i) : Collected(j) < BaseDue(j)
    BY DEF Eligible
  <2>4. QED
    BY <1>1, <2>1, <2>2, <2>3
<1>5. ASSUME i < loan.periods, Collected(i) >= BaseDue(i)
      PROVE  ~IsMissed(RowAt(p))
  <2>1. PICK c, b \in Int : c = Collected(i) /\ b = BaseDue(i) /\ b = Emi(loan) /\ c >= b
    <3>1. i \in Contracted /\ i \in Nat
      <4>1. PICK n \in Nat : n = loan.periods
        BY ProjectedLoan
      <4>2. i \in 1..n /\ i \in Nat
        BY <1>2, <1>5, <4>1
      <4>3. QED
        BY <4>1, <4>2 DEF Contracted
    <3>2. Collected(i) \in Int
      BY <3>1, ProjectedLoan
    <3>3. BaseDue(i) = Emi(loan) /\ Emi(loan) \in Int
      BY <1>5, <3>1, ProjectedLoan
    <3>4. QED
      BY <1>5, <3>2, <3>3
  <2>2. AddOn(p.extensions, i) = 0
    <3>1. ~(Collected(i) < BaseDue(i))
      BY <2>1
    <3>2. \A e \in p.extensions : i \notin e.eligible
      BY <1>1, <3>1
    <3>3. QED
      BY <3>2, AddOnUntouched
  <2>3. PICK d, o, m \in Int :
             /\ d = DueAt(p) /\ o = Owed(p) /\ m = CameIn(p)
             /\ d <= o /\ d <= Emi(loan) + AddOn(p.extensions, i)
             /\ IsMissed(RowAt(p)) <=> i <= past /\ m < d /\ ~Today(i)
    BY <1>1, TurnNumbers
  <2>4. d <= b
    BY <2>1, <2>2, <2>3
  <2>5. m = IF i > past THEN d ELSE Least(c, o)
    BY <2>1, <2>3 DEF CameIn
  <2>6. past \in Nat
    BY DEF SchedulesTyped
  <2>7. QED
    BY <1>2, <2>1, <2>3, <2>4, <2>5, <2>6 DEF Least
<1> HIDE DEF q
<1>6. ASSUME NEW j \in 1..Len(q.rows), j < loan.periods, Collected(j) >= BaseDue(j)
      PROVE  ~IsMissed(q.rows[j])
  <2>1. CASE j = k + 1
    BY <1>2, <1>3, <1>5, <1>6, <2>1
  <2>2. CASE j # k + 1
    <3>1. j \in 1..k
      BY <1>3, <2>2
    <3>2. QED
      BY <1>1, <1>2, <1>3, <1>6, <3>1
  <2>3. QED
    BY <2>1, <2>2
<1>7. q \in PaidWholeSoFar
  BY <1>3, <1>4, <1>6 DEF PaidWholeSoFar
<1>8. QED
  BY <1>7 DEF q

(* Nothing that is decided about an installment makes a later one that was *)
(* paid whole look short: only those that were not are raised.             *)
THEOREM PaidWholeIsNeverShortAlways == Spec => []PaidWholeIsNeverShort
<1>1. SchedulesTyped => PaidWholeIsNeverShort
  <2> SUFFICES ASSUME SchedulesTyped, Projects(loan)
               PROVE  LET p == Projection(resolution)
                      IN  \A i \in DOMAIN p.rows :
                              i < loan.periods /\ Collected(i) >= BaseDue(i) => ~IsMissed(p.rows[i])
    BY DEF PaidWholeIsNeverShort
  <2>1. Start \in PaidWholeSoFar
    <3>1. Start \in StateOf
      BY TurnsUnfold, 0 \in 0..Cap
    <3>2. 1..Len(Start.rows) = {} /\ Start.extensions = {}
      BY DEF Start
    <3>3. QED
      BY <3>1, <3>2 DEF PaidWholeSoFar
  <2>2. PaidWholeSoFar \in SUBSET StateOf
    BY DEF PaidWholeSoFar
  <2>3. \A p \in PaidWholeSoFar : Settled(p) \/ Turn(p, resolution) \in PaidWholeSoFar
    BY TurnKeepsPaidWhole
  <2>4. PICK p \in PaidWholeSoFar : p = Projection(resolution)
    BY <2>1, <2>2, <2>3, ProjectionInduction
  <2>5. DOMAIN p.rows = 1..Len(p.rows)
    BY DEF PaidWholeSoFar, StateOf
  <2>6. QED
    BY <2>4, <2>5 DEF PaidWholeSoFar
<1>2. QED
  BY <1>1, SchedulesTypeCorrect, PTL

-----------------------------------------------------------------------------
(* SpreadEndsOnTime. *)

(* What is still owed, and that no more was paid than that.                *)
Debt(p) == p.principal + p.unpaidInterest
NotOverpaid(p) == p.principal >= 0 /\ p.unpaidInterest >= 0

(* What came in is taken off what is owed, and never more than that.       *)
LEMMA TurnPays ==
    ASSUME SchedulesTyped, Projects(loan), NEW p \in StateOf, NotOverpaid(p), NEW resolved
    PROVE  /\ NotOverpaid(Turn(p, resolved))
           /\ Debt(Turn(p, resolved)) = Owed(p) - AppliedAt(p)
           /\ Debt(Turn(p, resolved)) \in Int /\ Debt(p) \in Int
           /\ Owed(p) = Debt(p) + InterestPerPeriod(loan)
           /\ Turn(p, resolved).charged = p.charged + InterestPerPeriod(loan)
           /\ Turn(p, resolved).extensions = p.extensions \cup Spread(At(p), RowAt(p), resolved)
<1>1. PICK g, y, x \in Int : /\ g = p.principal /\ y = p.unpaidInterest /\ x = InterestPerPeriod(loan)
                             /\ g >= 0 /\ y >= 0
  BY ProjectedLoan DEF StateOf, NotOverpaid
<1>2. Accrued(p) = y + x /\ Owed(p) = g + (y + x)
  BY <1>1 DEF Accrued, Owed
<1>3. PICK a \in Int : a = AppliedAt(p) /\ a <= Owed(p)
  BY TurnNumbers
<1>4. /\ Turn(p, resolved).principal =
             p.principal - (AppliedAt(p) - Least(AppliedAt(p), Accrued(p)))
      /\ Turn(p, resolved).unpaidInterest = Accrued(p) - Least(AppliedAt(p), Accrued(p))
      /\ Turn(p, resolved).charged = p.charged + InterestPerPeriod(loan)
      /\ Turn(p, resolved).extensions = p.extensions \cup Spread(At(p), RowAt(p), resolved)
  BY TurnIs
<1>5. NotOverpaid(Turn(p, resolved))
  BY <1>1, <1>2, <1>3, <1>4 DEF NotOverpaid, Least
<1>6. Debt(Turn(p, resolved)) = g + (y + x) - a
  BY <1>1, <1>2, <1>3, <1>4 DEF Debt, Least
<1>7. Debt(p) = g + y
  BY <1>1 DEF Debt
<1>8. QED
  BY <1>1, <1>2, <1>3, <1>4, <1>5, <1>6, <1>7

(* Everything is paid when nothing is owed any more.                       *)
LEMMA SettledIs ==
    ASSUME NEW p \in StateOf, NotOverpaid(p)
    PROVE  Debt(p) \in Nat /\ (Settled(p) <=> Debt(p) = 0)
<1>1. PICK g, y \in Nat : g = p.principal /\ y = p.unpaidInterest
  BY DEF StateOf, NotOverpaid
<1>2. QED
  BY <1>1 DEF Debt, Settled

(* A short period that was not spread, or a last share that rounding took. *)
Spoiled(p) ==
    \/ \E i \in 1..Len(p.rows) : IsMissed(p.rows[i]) /\ \A e \in p.extensions : e.missed # i
    \/ \E e \in p.extensions : e.last < 0

(* So far what is owed is what the contracted installments still ahead,    *)
(* with what was spread over them, will pay.                               *)
OnTimeSoFar ==
    {p \in StateOf :
        /\ \A e \in p.extensions : e.missed <= Len(p.rows) /\ e.each >= 0
        /\ \/ Spoiled(p)
           \/ /\ Len(p.rows) <= loan.periods /\ NotOverpaid(p)
              /\ Debt(p) <= (loan.periods - Len(p.rows)) * PrincipalPerPeriod(loan)
                            + Pending(p.extensions, Len(p.rows))}

(* What was spoiled is not mended.                                         *)
LEMMA StaysSpoiled ==
    ASSUME SchedulesTyped, Projects(loan), NEW p \in OnTimeSoFar, Spoiled(p), NEW resolved
    PROVE  Spoiled(Turn(p, resolved))
<1> DEFINE q == Turn(p, resolved)
           i == At(p)
<1>1. p \in StateOf /\ \A e \in p.extensions : e.missed <= Len(p.rows)
  BY DEF OnTimeSoFar
<1>2. PICK k \in Nat : k = Len(p.rows) /\ i = k + 1
  <2>1. Len(p.rows) \in Nat
    BY <1>1 DEF StateOf
  <2>2. QED
    BY <2>1 DEF At
<1>3. Len(q.rows) = k + 1 /\ \A j \in 1..k : q.rows[j] = p.rows[j]
  BY <1>1, <1>2, TurnTyped
<1>4. q.extensions = p.extensions \cup Spread(i, RowAt(p), resolved)
  BY TurnIs
<1>5. \A e \in Spread(i, RowAt(p), resolved) : e.missed = k + 1
  BY <1>1, <1>2, SpreadTyped
<1> HIDE DEF q, i
<1>6. CASE \E e \in p.extensions : e.last < 0
  BY <1>4, <1>6 DEF Spoiled, q
<1>7. ASSUME NEW j \in 1..k, IsMissed(p.rows[j]), \A e \in p.extensions : e.missed # j
      PROVE  Spoiled(q)
  <2>1. j \in 1..Len(q.rows) /\ IsMissed(q.rows[j]) /\ j # k + 1
    BY <1>3, <1>7
  <2>2. \A e \in q.extensions : e.missed # j
    BY <1>4, <1>5, <1>7, <2>1
  <2>3. QED
    BY <2>1, <2>2 DEF Spoiled
<1>8. QED
  BY <1>2, <1>6, <1>7 DEF Spoiled, q

(* A turn leaves the loan on time, unless it spoils it.                    *)
LEMMA TurnOnTime ==
    ASSUME SchedulesTyped, Projects(loan), NEW p \in OnTimeSoFar, ~Settled(p), NEW resolved
    PROVE  Turn(p, resolved) \in OnTimeSoFar
<1> DEFINE q == Turn(p, resolved)
           i == At(p)
           X == p.extensions
<1>1. /\ p \in StateOf /\ X \in SUBSET ExtensionOf /\ IsFiniteSet(X)
      /\ \A e \in X : e.missed <= Len(p.rows) /\ e.each >= 0
  BY DEF OnTimeSoFar, StateOf
<1>2. PICK k \in Nat : k = Len(p.rows) /\ i = k + 1
  <2>1. Len(p.rows) \in Nat
    BY <1>1 DEF StateOf
  <2>2. QED
    BY <2>1 DEF At
<1>3. /\ q \in StateOf /\ Len(q.rows) = k + 1
      /\ q.rows[k + 1] = RowAt(p)
  BY <1>1, <1>2, TurnTyped
<1>4. q.extensions = X \cup Spread(i, RowAt(p), resolved)
  BY TurnIs
<1>5. PICK d, o, m, a, b \in Int :
           /\ d = DueAt(p) /\ o = Owed(p) /\ m = CameIn(p) /\ a = AddOn(X, i) /\ b = AppliedAt(p)
           /\ d <= o /\ (d = o \/ d = Emi(loan) + a)
           /\ IsMissed(RowAt(p)) => m < d /\ b = m
           /\ ~IsMissed(RowAt(p)) => b >= d
  BY <1>1, TurnNumbers
<1>6. \/ Spread(i, RowAt(p), resolved) = {}
      \/ /\ IsMissed(RowAt(p)) /\ Eligible(i) # {}
         /\ Spread(i, RowAt(p), resolved) = {ExtensionFor(i, d - m)}
  <2>1. Spread(i, RowAt(p), resolved) =
            IF IsMissed(RowAt(p)) /\ i \in Contracted /\ resolved[i] = "EXTEND_EMI" /\ Eligible(i) # {}
            THEN {ExtensionFor(i, DueAt(p) - CameIn(p))} ELSE {}
    BY <1>1, SpreadIs
  <2>2. QED
    BY <1>5, <2>1
<1> HIDE DEF q, i, X
<1>7. \A e \in q.extensions : e.missed <= Len(q.rows) /\ e.each >= 0
  <2>1. \A e \in X : e.missed <= k + 1
    <3>1. \A e \in X : e.missed \in Int /\ e.missed <= k
      BY <1>1, <1>2 DEF ExtensionOf
    <3>2. QED
      BY <3>1
  <2>2. ASSUME Eligible(i) # {}, IsMissed(RowAt(p))
        PROVE  ExtensionFor(i, d - m).missed <= k + 1 /\ ExtensionFor(i, d - m).each >= 0
    <3>1. PICK s \in Int : s = d - m /\ s >= 0
      BY <1>5, <2>2
    <3>2. i \in Nat
      BY <1>2
    <3>3. ExtensionFor(i, s).each >= 0
      BY <2>2, <3>1, <3>2, SharesTyped
    <3>4. ExtensionFor(i, s).missed = i
      BY DEF ExtensionFor
    <3>5. QED
      BY <1>2, <3>1, <3>3, <3>4
  <2>3. QED
    BY <1>1, <1>3, <1>4, <1>6, <2>1, <2>2
<1>8. CASE Spoiled(q)
  BY <1>3, <1>7, <1>8 DEF OnTimeSoFar, q
<1>9. CASE ~Spoiled(q)
  <2>1. ~Spoiled(p)
    BY <1>9, StaysSpoiled DEF q
  <2>2. /\ k <= loan.periods /\ NotOverpaid(p)
        /\ Debt(p) <= (loan.periods - k) * PrincipalPerPeriod(loan) + Pending(X, k)
    BY <1>2, <2>1 DEF OnTimeSoFar, X
  <2>3. /\ NotOverpaid(q) /\ Debt(q) = o - b /\ Debt(q) \in Int /\ Debt(p) \in Int
        /\ o = Debt(p) + InterestPerPeriod(loan)
    BY <1>1, <1>5, <2>2, TurnPays DEF q
  <2>4. PICK n \in Nat, r \in Nat, x \in Int :
             /\ n = loan.periods /\ r = PrincipalPerPeriod(loan) /\ x = InterestPerPeriod(loan)
             /\ Emi(loan) = r + x
    BY ProjectedLoan
  <2>5. k < n
    <3>1. ASSUME k = n PROVE FALSE
      <4>1. Pending(X, k) = 0
        BY <1>1, <2>4, <3>1, PendingFalls
      <4>2. (n - k) * r = 0
        BY <3>1
      <4>3. Debt(p) <= 0
        BY <2>2, <2>4, <4>1, <4>2
      <4>4. Debt(p) \in Nat /\ (Settled(p) <=> Debt(p) = 0)
        BY <1>1, <2>2, SettledIs
      <4>5. QED
        BY <4>3, <4>4
    <3>2. QED
      BY <2>2, <2>4, <3>1
  <2>6. \A e \in X : e.each >= 0 /\ e.last >= 0
    <3>1. \A e \in X : e.last \in Int /\ ~(e.last < 0)
      BY <1>1, <2>1 DEF Spoiled, X, ExtensionOf
    <3>2. QED
      BY <1>1, <3>1
  <2>7. PICK w \in Nat : w = Pending(X, k + 1) /\ Pending(X, k) = a + w
    <3>1. Pending(X, k + 1) \in Nat
      BY <1>1, <2>6, PendingNatural
    <3>2. Pending(X, k) = AddOn(X, k + 1) + Pending(X, k + 1)
      BY <1>1, <2>4, <2>5, PendingFalls
    <3>3. QED
      BY <1>2, <1>5, <3>1, <3>2
  <2>8. PICK B \in Nat : B = (n - (k + 1)) * r /\ (n - k) * r = B + r
    <3>1. n - (k + 1) \in Nat
      BY <2>5
    <3>2. (n - (k + 1)) * r \in Nat
      BY <3>1
    <3>3. (n - k) * r = (n - (k + 1)) * r + r
      OBVIOUS
    <3>4. QED
      BY <3>2, <3>3
  <2>9. PICK D \in Int : D = Debt(p) /\ D <= B + r + (a + w) /\ o = D + x
    BY <2>2, <2>3, <2>4, <2>7, <2>8
  <2>10. o - d <= B + w
    BY <1>5, <2>4, <2>9
  <2>11. Debt(q) <= B + Pending(q.extensions, k + 1)
    <3>1. CASE ~IsMissed(RowAt(p))
      <4>1. q.extensions = X
        BY <1>4, <1>6, <3>1
      <4>2. o - b <= B + w
        BY <1>5, <2>10, <3>1
      <4>3. QED
        BY <2>3, <2>7, <4>1, <4>2
    <3>2. CASE IsMissed(RowAt(p))
      <4>1. PICK e \in q.extensions : e.missed = k + 1
        <5>1. k + 1 \in 1..Len(q.rows) /\ IsMissed(q.rows[k + 1])
          BY <1>3, <3>2
        <5>2. QED
          BY <1>9, <5>1 DEF Spoiled
      <4>2. e \notin X
        BY <1>1, <1>2, <4>1
      <4>3. Eligible(i) # {} /\ Spread(i, RowAt(p), resolved) = {ExtensionFor(i, d - m)}
        BY <1>4, <1>6, <4>1, <4>2
      <4>4. PICK s \in Int : s = d - m
        OBVIOUS
      <4>5. ExtensionFor(i, s) \notin X /\ q.extensions = X \cup {ExtensionFor(i, s)}
        BY <1>4, <4>1, <4>2, <4>3, <4>4
      <4>6. Pending(q.extensions, k + 1) = w + s
        <5>1. i \in Nat
          BY <1>2
        <5>2. Pending(X \cup {ExtensionFor(i, s)}, i) = Pending(X, i) + s
          BY <1>1, <4>3, <4>5, <5>1, PendingOfOneMore
        <5>3. QED
          BY <1>2, <2>7, <4>5, <5>2
      <4>7. o - b <= B + (w + s)
        BY <1>5, <2>10, <3>2, <4>4
      <4>8. QED
        BY <2>3, <4>6, <4>7
    <3>3. QED
      BY <3>1, <3>2
  <2>12. /\ Len(q.rows) <= loan.periods
         /\ Debt(q) <= (loan.periods - Len(q.rows)) * PrincipalPerPeriod(loan)
                       + Pending(q.extensions, Len(q.rows))
    BY <1>3, <2>4, <2>5, <2>8, <2>11
  <2>13. q \in OnTimeSoFar
    BY <1>3, <1>7, <2>3, <2>12 DEF OnTimeSoFar
  <2>14. QED
    BY <2>13 DEF q
<1>10. QED
  BY <1>8, <1>9

(* EXTEND_EMI keeps the loan's term: what was missed is paid by the        *)
(* contracted installments still ahead, if every short one is spread.      *)
THEOREM SpreadEndsOnTimeAlways == Spec => []SpreadEndsOnTime
<1>1. SchedulesTyped => SpreadEndsOnTime
  <2> SUFFICES ASSUME SchedulesTyped, Projects(loan), DividesUp, AllSpread(Projection(resolution)),
                      LastSharesLeft(Projection(resolution))
               PROVE  Len(Projection(resolution).rows) <= loan.periods
    BY DEF SpreadEndsOnTime
  <2>1. Start \in OnTimeSoFar
    <3>1. Start \in StateOf
      BY TurnsUnfold, 0 \in 0..Cap
    <3>2. PICK P, n \in Nat \ {0}, r \in Nat :
               P = loan.principal /\ n = loan.periods /\ r = PrincipalPerPeriod(loan)
      BY ProjectedLoan
    <3>3. /\ Len(Start.rows) = 0 /\ Start.extensions = {}
          /\ Start.principal = P /\ Start.unpaidInterest = 0
      BY <3>2 DEF Start
    <3>4. NotOverpaid(Start) /\ Debt(Start) = P
      BY <3>2, <3>3 DEF NotOverpaid, Debt
    <3>5. P <= (n - 0) * r
      BY <3>2 DEF DividesUp
    <3>6. Pending({}, 0) \in Nat
      BY FS_EmptySet, PendingNatural
    <3>7. (n - 0) * r \in Int
      OBVIOUS
    <3>8. Debt(Start) <= (n - 0) * r + Pending({}, 0)
      BY <3>4, <3>5, <3>6, <3>7
    <3>9. /\ Len(Start.rows) <= loan.periods
          /\ Debt(Start) <= (loan.periods - Len(Start.rows)) * PrincipalPerPeriod(loan)
                            + Pending(Start.extensions, Len(Start.rows))
      BY <3>2, <3>3, <3>8
    <3>10. \A e \in Start.extensions : e.missed <= Len(Start.rows) /\ e.each >= 0
      BY <3>3
    <3>11. QED
      BY <3>1, <3>4, <3>9, <3>10 DEF OnTimeSoFar
  <2>2. OnTimeSoFar \in SUBSET StateOf
    BY DEF OnTimeSoFar
  <2>3. \A p \in OnTimeSoFar : Settled(p) \/ Turn(p, resolution) \in OnTimeSoFar
    BY TurnOnTime
  <2>4. PICK p \in OnTimeSoFar : p = Projection(resolution)
    BY <2>1, <2>2, <2>3, ProjectionInduction
  <2>5. ~Spoiled(p)
    <3>1. DOMAIN p.rows = 1..Len(p.rows) /\ p.extensions \in SUBSET ExtensionOf
      BY DEF OnTimeSoFar, StateOf
    <3>2. ~ \E i \in 1..Len(p.rows) : IsMissed(p.rows[i]) /\ \A e \in p.extensions : e.missed # i
      BY <2>4, <3>1 DEF AllSpread
    <3>3. \A e \in p.extensions : e.last \in Int /\ e.last >= 0
      BY <2>4, <3>1 DEF LastSharesLeft, ExtensionOf
    <3>4. QED
      BY <3>2, <3>3 DEF Spoiled
  <2>6. QED
    BY <2>4, <2>5 DEF OnTimeSoFar
<1>2. QED
  BY <1>1, SchedulesTypeCorrect, PTL

-----------------------------------------------------------------------------
(* SpreadingCostsNoMore: two projections side by side. *)

(* The projection is what the last turn leaves: once everything is paid,   *)
(* the others do nothing.                                                  *)
LEMMA ProjectionIsLast ==
    ASSUME SchedulesTyped, Projects(loan), NEW resolved
    PROVE  Projection(resolved) = Turns(resolved)[Cap]
<1>1. PICK c \in Nat : c = Cap
  BY TurnsUnfold
<1> DEFINE after == Turns(resolved)
<1>2. PICK end \in 0..c : Projection(resolved) = after[end] /\ (Settled(after[end]) \/ end = c)
  BY <1>1, ProjectionIsATurn
<1>3. CASE end = c
  BY <1>1, <1>2, <1>3
<1>4. CASE Settled(after[end])
  <2> DEFINE Good == {j \in 0..c : j >= end => after[j] = after[end]}
  <2>1. 0 \in Good
    BY <1>2
  <2>2. ASSUME NEW j \in 0..c, j \in Good, j < c PROVE j + 1 \in Good
    <3>1. after[j + 1] = Onward(after[j], resolved)
      BY <1>1, <2>2, TurnsUnfold
    <3>2. j >= end => after[j + 1] = after[end]
      BY <1>4, <2>2, <3>1 DEF Onward
    <3>3. j + 1 = end \/ ~(j + 1 >= end) \/ j >= end
      BY <2>2
    <3>4. QED
      BY <2>2, <3>2, <3>3
  <2>3. Good \in SUBSET (0..c)
    OBVIOUS
  <2>4. \A j \in 0..c : j \in Good
    <3> HIDE DEF Good
    <3>1. QED
      BY <2>1, <2>2, <2>3, IntervalInduction
  <2>5. c \in 0..c /\ c >= end
    BY <1>2
  <2>6. QED
    BY <1>1, <1>2, <2>4, <2>5
<1>5. QED
  BY <1>2, <1>3, <1>4

(* What relates two projections at the start, and after each turn if       *)
(* before, relates what they end with.                                     *)
LEMMA ProjectionsTogether ==
    ASSUME SchedulesTyped, Projects(loan), NEW as, NEW other, NEW Related \in SUBSET (StateOf \X StateOf),
           <<Start, Start>> \in Related,
           \A p, q \in StateOf :
               <<p, q>> \in Related => <<Onward(p, as), Onward(q, other)>> \in Related
    PROVE  <<Projection(as), Projection(other)>> \in Related
<1>1. PICK c \in Nat : c = Cap
  BY TurnsUnfold
<1> DEFINE f == Turns(as)
           g == Turns(other)
<1>2. /\ f[0] = Start
      /\ \A j \in 0..c : f[j] \in StateOf /\ (j < c => f[j + 1] = Onward(f[j], as))
  BY <1>1, TurnsUnfold
<1>3. /\ g[0] = Start
      /\ \A j \in 0..c : g[j] \in StateOf /\ (j < c => g[j + 1] = Onward(g[j], other))
  BY <1>1, TurnsUnfold
<1>4. Projection(as) = f[c]
  BY <1>1, ProjectionIsLast
<1>5. Projection(other) = g[c]
  BY <1>1, ProjectionIsLast
<1> HIDE DEF f, g
<1> DEFINE Good == {j \in 0..c : <<f[j], g[j]>> \in Related}
<1>6. 0 \in Good
  BY <1>2, <1>3
<1>7. ASSUME NEW j \in 0..c, j \in Good, j < c PROVE j + 1 \in Good
  <2>1. <<f[j], g[j]>> \in Related /\ f[j] \in StateOf /\ g[j] \in StateOf
    <3>1. <<f[j], g[j]>> \in Related
      BY <1>7, Zenon
    <3>2. f[j] \in StateOf /\ g[j] \in StateOf
      BY <1>2, <1>3
    <3>3. QED
      BY <3>1, <3>2
  <2>2. <<Onward(f[j], as), Onward(g[j], other)>> \in Related
    BY <2>1, Zenon
  <2>3. f[j + 1] = Onward(f[j], as)
    BY <1>2, <1>7
  <2>4. g[j + 1] = Onward(g[j], other)
    BY <1>3, <1>7
  <2>5. j + 1 \in 0..c
    <3> HIDE DEF Good
    <3>1. QED
      BY <1>7
  <2>6. QED
    BY <2>2, <2>3, <2>4, <2>5
<1>8. Good \in SUBSET (0..c)
  OBVIOUS
<1>9. \A j \in 0..c : j \in Good
  <2> HIDE DEF Good
  <2>1. QED
    BY <1>6, <1>7, <1>8, IntervalInduction
<1>10. c \in 0..c
  OBVIOUS
<1>11. QED
  BY <1>4, <1>5, <1>9, <1>10

(* What every projection keeps, whatever was decided.                      *)
Sound(p) == p \in StateOf /\ NotOverpaid(p) /\ \A e \in p.extensions : e.missed <= Len(p.rows)

(* Every turn keeps what is sound.                                         *)
LEMMA OnwardIsSound ==
    ASSUME SchedulesTyped, Projects(loan), NEW p, Sound(p), NEW resolved
    PROVE  Sound(Onward(p, resolved)) /\ p.extensions \subseteq Onward(p, resolved).extensions
<1>1. CASE Settled(p)
  BY <1>1 DEF Onward
<1>2. CASE ~Settled(p)
  <2> DEFINE q == Turn(p, resolved)
  <2>1. p \in StateOf /\ NotOverpaid(p) /\ \A e \in p.extensions : e.missed <= Len(p.rows)
    BY DEF Sound
  <2>2. PICK k \in Nat : k = Len(p.rows) /\ At(p) = k + 1
    <3>1. Len(p.rows) \in Nat
      BY <2>1 DEF StateOf
    <3>2. QED
      BY <3>1 DEF At
  <2>3. q \in StateOf /\ NotOverpaid(q) /\ Len(q.rows) = k + 1
    BY <2>1, <2>2, TurnTyped, TurnPays
  <2>4. q.extensions = p.extensions \cup Spread(At(p), RowAt(p), resolved)
    BY TurnIs
  <2>5. \A e \in p.extensions : e.missed <= k + 1
    <3>1. \A e \in p.extensions : e.missed \in Int /\ e.missed <= k
      BY <2>1, <2>2 DEF StateOf, ExtensionOf
    <3>2. QED
      BY <3>1
  <2>6. \A e \in Spread(At(p), RowAt(p), resolved) : e.missed = k + 1
    BY <2>1, <2>2, SpreadTyped
  <2> HIDE DEF q
  <2>7. Sound(q)
    BY <2>3, <2>4, <2>5, <2>6 DEF Sound
  <2>8. QED
    BY <1>2, <2>4, <2>7 DEF Onward, q
<1>3. QED
  BY <1>1, <1>2

(* The rounding of other shares took a last one, or more of it than in the *)
(* first projection.                                                       *)
RoundedAway(p, q) == ~(LastSharesLeft(q) /\ LastSharesRise(p, q))

(* Side by side, every installment of the second asks for no less than in  *)
(* the first, and leaves no more to pay.                                   *)
Keeps(p, q) ==
    /\ Len(p.rows) = Len(q.rows)
    /\ \A j \in Nat : AddOn(p.extensions, j) <= AddOn(q.extensions, j)
    /\ Debt(q) <= Debt(p)
    /\ Len(p.rows) < past => Debt(q) = Debt(p)

(* What comes in, and what is left, when more is due.                      *)
LEMMA MoreDueMorePaid ==
    ASSUME SchedulesTyped, Projects(loan), NEW p, NEW q, Sound(p), Sound(q), Keeps(p, q)
    PROVE  LET i == At(p)
           IN  /\ At(q) = i
               /\ IsMissed(RowAt(p)) => /\ IsMissed(RowAt(q))
                                        /\ DueAt(p) - CameIn(p) <= DueAt(q) - CameIn(q)
               /\ Owed(q) - AppliedAt(q) <= Owed(p) - AppliedAt(p)
               /\ i < past => Owed(q) - AppliedAt(q) = Owed(p) - AppliedAt(p)
<1>1. /\ p \in StateOf /\ NotOverpaid(p) /\ q \in StateOf /\ NotOverpaid(q)
  BY DEF Sound
<1>2. PICK k \in Nat, i \in Nat : k = Len(p.rows) /\ k = Len(q.rows) /\ i = At(p) /\ i = At(q) /\ i = k + 1
  <2>1. Len(p.rows) \in Nat /\ Len(q.rows) = Len(p.rows)
    BY <1>1 DEF StateOf, Keeps
  <2>2. QED
    BY <2>1 DEF At
<1>3. PICK o1, o2 \in Int : o1 = Owed(p) /\ o2 = Owed(q) /\ o2 <= o1 /\ (k < past => o1 = o2)
  <2>1. /\ Owed(p) = Debt(p) + InterestPerPeriod(loan) /\ Debt(p) \in Int
        /\ Owed(q) = Debt(q) + InterestPerPeriod(loan) /\ Debt(q) \in Int
    BY <1>1, TurnPays
  <2>2. InterestPerPeriod(loan) \in Int
    BY ProjectedLoan
  <2>3. Debt(q) <= Debt(p) /\ (k < past => Debt(q) = Debt(p))
    BY <1>2 DEF Keeps
  <2>4. QED
    BY <2>1, <2>2, <2>3
<1>4. PICK e \in Nat, a1, a2 \in Int, c \in Nat :
           /\ e = Emi(loan) /\ a1 = AddOn(p.extensions, i) /\ a2 = AddOn(q.extensions, i) /\ a1 <= a2
           /\ c = Collected(i)
  <2>1. AddOn(p.extensions, i) \in Int /\ AddOn(q.extensions, i) \in Int
    BY <1>1, <1>2, TurnNumbers
  <2>2. Emi(loan) \in Nat /\ Collected(i) \in Nat
    BY ProjectedLoan
  <2>3. QED
    BY <2>1, <2>2 DEF Keeps
<1>5. PICK d1, d2, m1, m2 \in Int :
           /\ d1 = DueAt(p) /\ d1 = Least(e + a1, o1) /\ m1 = CameIn(p)
           /\ d2 = DueAt(q) /\ d2 = Least(e + a2, o2) /\ m2 = CameIn(q)
           /\ m1 = IF i > past THEN d1 ELSE Least(c, o1)
           /\ m2 = IF i > past THEN d2 ELSE Least(c, o2)
  <2>1. DueAt(p) \in Int /\ DueAt(q) \in Int /\ CameIn(p) \in Int /\ CameIn(q) \in Int
    BY <1>1, TurnNumbers
  <2>2. DueAt(p) = Least(e + a1, o1) /\ DueAt(q) = Least(e + a2, o2)
    BY <1>2, <1>3, <1>4 DEF DueAt
  <2>3. /\ CameIn(p) = IF i > past THEN DueAt(p) ELSE Least(c, o1)
        /\ CameIn(q) = IF i > past THEN DueAt(q) ELSE Least(c, o2)
    BY <1>2, <1>3, <1>4 DEF CameIn
  <2>4. QED
    BY <2>1, <2>2, <2>3
<1>6. /\ AppliedAt(p) = IF Today(i) /\ m1 < d1 THEN d1 ELSE m1
      /\ AppliedAt(q) = IF Today(i) /\ m2 < d2 THEN d2 ELSE m2
  BY <1>2, <1>5 DEF AppliedAt, Applied
<1>7. past \in Nat /\ (Today(i) => i = past)
  BY DEF SchedulesTyped, Today
<1>8. /\ IsMissed(RowAt(p)) <=> i <= past /\ m1 < d1 /\ ~Today(i)
      /\ IsMissed(RowAt(q)) <=> i <= past /\ m2 < d2 /\ ~Today(i)
  BY <1>1, <1>2, <1>5, TurnNumbers
<1>9. i <= past => o1 = o2 /\ m1 = m2 /\ d1 <= d2
  <2>1. i <= past => o1 = o2
    BY <1>2, <1>3, <1>7
  <2>2. QED
    BY <1>2, <1>4, <1>5, <1>7, <2>1, SMTT(30) DEF Least
<1>10. IsMissed(RowAt(p)) => IsMissed(RowAt(q)) /\ d1 - m1 <= d2 - m2
  BY <1>8, <1>9
<1>11. i > past => o2 - AppliedAt(q) <= o1 - AppliedAt(p)
  <2>1. i > past => AppliedAt(p) = d1 /\ AppliedAt(q) = d2
    BY <1>2, <1>5, <1>6, <1>7
  <2>2. o2 - d2 <= o1 - d1
    BY <1>3, <1>4, <1>5 DEF Least
  <2>3. QED
    BY <2>1, <2>2
<1>12. i <= past => o2 - AppliedAt(q) <= o1 - AppliedAt(p)
  <2>1. i <= past => AppliedAt(p) <= AppliedAt(q) /\ AppliedAt(p) \in Int /\ AppliedAt(q) \in Int
    BY <1>5, <1>6, <1>9
  <2>2. QED
    BY <1>9, <2>1
<1>13. i < past => o2 - AppliedAt(q) = o1 - AppliedAt(p)
  <2>1. i < past => ~Today(i) /\ i <= past
    BY <1>2, <1>7
  <2>2. i < past => AppliedAt(p) = m1 /\ AppliedAt(q) = m2
    BY <1>6, <2>1
  <2>3. QED
    BY <1>9, <2>1, <2>2
<1>14. i > past \/ i <= past
  BY <1>2, <1>7
<1>15. QED
  BY <1>2, <1>3, <1>5, <1>10, <1>11, <1>12, <1>13, <1>14

(* Whatever is due next, what is spread once more keeps that order.        *)
LEMMA TurnsKeep ==
    ASSUME SchedulesTyped, Projects(loan), NEW p, NEW q, Sound(p), Sound(q), Keeps(p, q),
           NEW as, NEW other, \A j \in Contracted : as[j] = "EXTEND_EMI" => other[j] = "EXTEND_EMI",
           ~RoundedAway(Turn(p, as), Turn(q, other))
    PROVE  Keeps(Turn(p, as), Turn(q, other))
<1> DEFINE p1 == Turn(p, as)
           q1 == Turn(q, other)
           i == At(p)
           X == p.extensions
           Y == q.extensions
           less == Spread(i, RowAt(p), as)
           more == Spread(i, RowAt(q), other)
<1>1. /\ p \in StateOf /\ NotOverpaid(p) /\ q \in StateOf /\ NotOverpaid(q)
      /\ \A e \in X : e.missed <= Len(p.rows)
      /\ \A e \in Y : e.missed <= Len(q.rows)
  BY DEF Sound
<1>2. PICK k \in Nat : k = Len(p.rows) /\ k = Len(q.rows) /\ i = k + 1 /\ At(q) = i
  <2>1. Len(p.rows) \in Nat /\ Len(q.rows) = Len(p.rows)
    BY <1>1 DEF StateOf, Keeps
  <2>2. QED
    BY <2>1 DEF At
<1>3. /\ X \in SUBSET ExtensionOf /\ IsFiniteSet(X) /\ Y \in SUBSET ExtensionOf /\ IsFiniteSet(Y)
      /\ i \in Nat
  BY <1>1, <1>2 DEF StateOf
<1>4. PICK s1, s2 \in Int :
           /\ s1 = DueAt(p) - CameIn(p) /\ s2 = DueAt(q) - CameIn(q)
           /\ IsMissed(RowAt(p)) => IsMissed(RowAt(q)) /\ s1 <= s2
           /\ IsMissed(RowAt(q)) => s2 >= 0
  <2>1. PICK d, m \in Int : d = DueAt(p) /\ m = CameIn(p)
    BY <1>1, TurnNumbers
  <2>2. PICK due, paid \in Int : due = DueAt(q) /\ paid = CameIn(q) /\ (IsMissed(RowAt(q)) => paid < due)
    BY <1>1, TurnNumbers
  <2>3. IsMissed(RowAt(p)) => /\ IsMissed(RowAt(q))
                              /\ DueAt(p) - CameIn(p) <= DueAt(q) - CameIn(q)
    BY MoreDueMorePaid
  <2>4. DueAt(p) - CameIn(p) \in Int
    BY <2>1
  <2>5. DueAt(q) - CameIn(q) \in Int /\ (IsMissed(RowAt(q)) => DueAt(q) - CameIn(q) >= 0)
    BY <2>2
  <2>6. QED
    BY <2>3, <2>4, <2>5
<1>5. p1.extensions = X \cup less /\ q1.extensions = Y \cup more
  <2>1. p1.extensions = X \cup less
    BY TurnIs
  <2>2. q1.extensions = Y \cup Spread(At(q), RowAt(q), other)
    BY TurnIs
  <2>3. QED
    BY <1>2, <2>1, <2>2
<1> DEFINE e1 == ExtensionFor(i, s1)
           e2 == ExtensionFor(i, s2)
           spreads == IsMissed(RowAt(p)) /\ i \in Contracted /\ as[i] = "EXTEND_EMI" /\ Eligible(i) # {}
           spreadsMore == IsMissed(RowAt(q)) /\ i \in Contracted /\ other[i] = "EXTEND_EMI"
                          /\ Eligible(i) # {}
<1>6. less = IF spreads THEN {e1} ELSE {}
  BY <1>1, <1>4, SpreadIs
<1>7. more = IF spreadsMore THEN {e2} ELSE {}
  <2>1. Spread(At(q), RowAt(q), other) =
            IF IsMissed(RowAt(q)) /\ At(q) \in Contracted /\ other[At(q)] = "EXTEND_EMI"
               /\ Eligible(At(q)) # {}
            THEN {ExtensionFor(At(q), DueAt(q) - CameIn(q))} ELSE {}
    BY <1>1, SpreadIs
  <2>2. QED
    BY <1>2, <1>4, <2>1
<1>8. spreads => spreadsMore /\ s1 <= s2
  BY <1>4
<1>9. e1 \notin X /\ e2 \notin Y
  <2>1. e1.missed = k + 1 /\ e2.missed = k + 1
    BY <1>2 DEF ExtensionFor
  <2>2. QED
    BY <1>1, <1>2, <2>1
<1>10. Eligible(i) # {} => e1 \in ExtensionOf
  BY <1>3, SharesTyped
<1>11. Eligible(i) # {} => e2 \in ExtensionOf
  BY <1>3, SharesTyped
<1>12. Eligible(i) # {} => e2.each \in Int /\ (s2 >= 0 => e2.each >= 0)
  BY <1>3, <1>11, SharesTyped DEF ExtensionOf
<1>13. Eligible(i) # {} => e1.each \in Int /\ (s1 <= s2 => e1.each <= e2.each)
  BY <1>3, <1>10, SharesTyped DEF ExtensionOf
<1>14. spreadsMore => e2.last >= 0 /\ e2.last \in Int
  BY <1>5, <1>7, <1>11 DEF RoundedAway, LastSharesLeft, ExtensionOf
<1>15. spreads => e1.last <= e2.last /\ e1.last \in Int
  <2>1. e1.missed = e2.missed
    BY DEF ExtensionFor
  <2>2. QED
    BY <1>5, <1>6, <1>7, <1>8, <1>10, <2>1 DEF RoundedAway, LastSharesRise, ExtensionOf
<1>16. e1.eligible = Eligible(i) /\ e2.eligible = Eligible(i)
  BY DEF ExtensionFor
<1> HIDE DEF e1, e2, less, more
<1>17. \A j \in Nat : AddOn(p1.extensions, j) <= AddOn(q1.extensions, j)
  <2> SUFFICES ASSUME NEW j \in Nat PROVE AddOn(X \cup less, j) <= AddOn(Y \cup more, j)
    BY <1>5
  <2>1. AddOn(X, j) \in Int /\ AddOn(Y, j) \in Int /\ AddOn(X, j) <= AddOn(Y, j)
    <3>1. AddOn(X, j) \in Int
      BY <1>3, AddOnTyped
    <3>2. AddOn(Y, j) \in Int
      BY <1>3, AddOnTyped
    <3>3. QED
      BY <3>1, <3>2 DEF Keeps
  <2>2. spreads => AddOn(X \cup less, j) = AddOn(X, j) + ShareOf(e1, j) /\ ShareOf(e1, j) \in Int
    BY <1>3, <1>6, <1>9, <1>10, AddOnOfOneMore
  <2>3. spreadsMore => AddOn(Y \cup more, j) = AddOn(Y, j) + ShareOf(e2, j) /\ ShareOf(e2, j) \in Int
    BY <1>3, <1>7, <1>9, <1>11, AddOnOfOneMore
  <2>4. ~spreads => AddOn(X \cup less, j) = AddOn(X, j)
    <3>1. ~spreads => X \cup less = X
      BY <1>6
    <3>2. QED
      BY <3>1
  <2>5. ~spreadsMore => AddOn(Y \cup more, j) = AddOn(Y, j)
    <3>1. ~spreadsMore => Y \cup more = Y
      BY <1>7
    <3>2. QED
      BY <3>1
  <2>6. spreadsMore => ShareOf(e2, j) >= 0
    BY <1>4, <1>12, <1>14 DEF ShareOf
  <2>7. spreads => ShareOf(e1, j) <= ShareOf(e2, j)
    BY <1>8, <1>13, <1>15, <1>16 DEF ShareOf
  <2> HIDE DEF spreads, spreadsMore, X, Y
  <2>8. CASE spreads
    BY <1>8, <2>1, <2>2, <2>3, <2>7, <2>8
  <2>9. CASE ~spreads /\ spreadsMore
    BY <2>1, <2>3, <2>4, <2>6, <2>9
  <2>10. CASE ~spreads /\ ~spreadsMore
    BY <2>1, <2>4, <2>5, <2>10
  <2>11. QED
    BY <2>8, <2>9, <2>10
<1>18. Len(p1.rows) = k + 1 /\ Len(q1.rows) = k + 1
  <2>1. Len(p1.rows) = k + 1
    BY <1>1, <1>2, TurnTyped
  <2>2. Len(q1.rows) = k + 1
    BY <1>1, <1>2, TurnTyped
  <2>3. QED
    BY <2>1, <2>2
<1>19. Debt(p1) = Owed(p) - AppliedAt(p)
  BY <1>1, TurnPays
<1>20. Debt(q1) = Owed(q) - AppliedAt(q)
  BY <1>1, TurnPays
<1>21. Debt(q1) <= Debt(p1) /\ (k + 1 < past => Debt(q1) = Debt(p1))
  <2>1. /\ Owed(q) - AppliedAt(q) <= Owed(p) - AppliedAt(p)
        /\ At(p) < past => Owed(q) - AppliedAt(q) = Owed(p) - AppliedAt(p)
    BY MoreDueMorePaid
  <2>2. QED
    BY <1>2, <1>19, <1>20, <2>1
<1>22. QED
  BY <1>17, <1>18, <1>21 DEF Keeps

(* So far the second projection has fewer periods, or as many and no less  *)
(* due, unless the rounding took a last share.                             *)
SideBySide ==
    {pair \in StateOf \X StateOf :
        LET p == pair[1]
            q == pair[2]
        IN  /\ Sound(p) /\ Sound(q)
            /\ \/ RoundedAway(p, q)
               \/ /\ Len(q.rows) <= Len(p.rows) /\ q.charged <= p.charged
                  /\ Settled(q) \/ Keeps(p, q)}

(* A turn on both sides keeps them side by side.                           *)
LEMMA OnwardSideBySide ==
    ASSUME SchedulesTyped, Projects(loan), InterestPerPeriod(loan) >= 0,
           NEW as, NEW other, \A j \in Contracted : as[j] = "EXTEND_EMI" => other[j] = "EXTEND_EMI",
           NEW p \in StateOf, NEW q \in StateOf, <<p, q>> \in SideBySide
    PROVE  <<Onward(p, as), Onward(q, other)>> \in SideBySide
<1> DEFINE p1 == Onward(p, as)
           q1 == Onward(q, other)
<1>1. /\ Sound(p) /\ Sound(q)
      /\ \/ RoundedAway(p, q)
         \/ /\ Len(q.rows) <= Len(p.rows) /\ q.charged <= p.charged
            /\ Settled(q) \/ Keeps(p, q)
  BY DEF SideBySide
<1>2. Sound(p1) /\ p.extensions \subseteq p1.extensions
  BY <1>1, OnwardIsSound
<1>3. Sound(q1) /\ q.extensions \subseteq q1.extensions
  BY <1>1, OnwardIsSound
<1>4. SUFFICES \/ RoundedAway(p1, q1)
               \/ /\ Len(q1.rows) <= Len(p1.rows) /\ q1.charged <= p1.charged
                  /\ Settled(q1) \/ Keeps(p1, q1)
  <2>1. p1 \in StateOf /\ q1 \in StateOf
    BY <1>2, <1>3 DEF Sound
  <2> HIDE DEF p1, q1
  <2>2. ASSUME \/ RoundedAway(p1, q1)
               \/ /\ Len(q1.rows) <= Len(p1.rows) /\ q1.charged <= p1.charged
                  /\ Settled(q1) \/ Keeps(p1, q1)
        PROVE  <<p1, q1>> \in SideBySide
    BY <1>2, <1>3, <2>1, <2>2 DEF SideBySide
  <2>3. QED
    BY <2>2 DEF p1, q1
<1>5. CASE RoundedAway(p, q)
  <2>1. RoundedAway(p1, q1)
    BY <1>2, <1>3, <1>5 DEF RoundedAway, LastSharesLeft, LastSharesRise
  <2>2. QED
    BY <2>1
<1>6. CASE RoundedAway(p1, q1)
  BY <1>6
<1>7. PICK k, l \in Nat, x \in Nat, cp, cq \in Int :
           /\ k = Len(p.rows) /\ l = Len(q.rows) /\ x = InterestPerPeriod(loan)
           /\ cp = p.charged /\ cq = q.charged
  BY ProjectedLoan, SMTT(30) DEF StateOf
<1>8. ASSUME ~Settled(p)
      PROVE  p1 = Turn(p, as) /\ Len(p1.rows) = k + 1 /\ p1.charged = cp + x
  BY <1>1, <1>7, <1>8, TurnTyped, TurnPays DEF Onward, Sound
<1>9. ASSUME ~Settled(q)
      PROVE  q1 = Turn(q, other) /\ Len(q1.rows) = l + 1 /\ q1.charged = cq + x
  BY <1>1, <1>7, <1>9, TurnTyped, TurnPays DEF Onward, Sound
<1>10. k <= Len(p1.rows) /\ cp <= p1.charged
  <2>1. Settled(p) => p1 = p
    BY DEF Onward
  <2>2. ~Settled(p) => Len(p1.rows) = k + 1 /\ p1.charged = cp + x
    BY <1>8
  <2> HIDE DEF p1
  <2>3. CASE Settled(p)
    BY <1>7, <2>1, <2>3
  <2>4. CASE ~Settled(p)
    BY <2>2, <2>4
  <2>5. QED
    BY <2>3, <2>4
<1>11. ASSUME ~RoundedAway(p, q), Settled(q)
       PROVE  Len(q1.rows) <= Len(p1.rows) /\ q1.charged <= p1.charged /\ Settled(q1)
  <2>1. q1 = q
    BY <1>11 DEF Onward
  <2>2. l <= k /\ cq <= cp
    BY <1>1, <1>7, <1>11
  <2>3. Len(p1.rows) \in Nat /\ p1.charged \in Int
    <3>1. p1 \in StateOf
      BY <1>2 DEF Sound
    <3> HIDE DEF p1
    <3>2. QED
      BY <3>1 DEF StateOf
  <2> HIDE DEF p1, q1
  <2>4. QED
    BY <1>7, <1>10, <1>11, <2>1, <2>2, <2>3, SMTT(30)
<1>12. ASSUME ~RoundedAway(p, q), ~Settled(q), ~RoundedAway(p1, q1)
       PROVE  Len(q1.rows) <= Len(p1.rows) /\ q1.charged <= p1.charged /\ Keeps(p1, q1)
  <2>1. Keeps(p, q) /\ l = k /\ cq <= cp
    BY <1>1, <1>7, <1>12 DEF Keeps
  <2>2. ~Settled(p)
    <3>1. Debt(p) \in Nat /\ (Settled(p) <=> Debt(p) = 0)
      BY <1>1, SettledIs DEF Sound
    <3>2. Debt(q) \in Nat /\ (Settled(q) <=> Debt(q) = 0)
      BY <1>1, SettledIs DEF Sound
    <3>3. Debt(q) <= Debt(p)
      BY <2>1 DEF Keeps
    <3>4. QED
      BY <1>12, <3>1, <3>2, <3>3
  <2>3. p1 = Turn(p, as) /\ Len(p1.rows) = k + 1 /\ p1.charged = cp + x
    BY <1>8, <2>2
  <2>4. q1 = Turn(q, other) /\ Len(q1.rows) = l + 1 /\ q1.charged = cq + x
    BY <1>9, <1>12
  <2>5. Keeps(Turn(p, as), Turn(q, other))
    BY <1>1, <1>12, <2>1, <2>3, <2>4, TurnsKeep
  <2> HIDE DEF p1, q1
  <2>6. QED
    BY <2>1, <2>3, <2>4, <2>5
<1>13. QED
  BY <1>5, <1>6, <1>11, <1>12

(* What was decided about an installment is one of the resolutions, and    *)
(* every contracted one has one.                                           *)
ResolutionsTyped == resolution \in [Contracted -> {"NONE", "EXTEND_EMI"}]

(* Only contracted installments are resolved, and only EXTEND_EMI counts   *)
(* here.                                                                   *)
THEOREM ResolutionsTypeCorrect == Spec => []ResolutionsTyped
<1>1. Init => ResolutionsTyped
  BY DEF Init, ResolutionsTyped
<1>2. ResolutionsTyped /\ [Next]_vars => ResolutionsTyped'
  <2> SUFFICES ASSUME ResolutionsTyped, [Next]_vars PROVE ResolutionsTyped'
    OBVIOUS
  <2>1. ASSUME NEW i \in Contracted, ExtendEmi(i) \/ ResolveOtherwise(i) PROVE ResolutionsTyped'
    BY <2>1 DEF ResolutionsTyped, ExtendEmi, ResolveOtherwise, Contracted
  <2>2. ASSUME NEW i \in DOMAIN collected, NEW amount, Collect(i, amount) PROVE ResolutionsTyped'
    BY <2>2 DEF ResolutionsTyped, Collect, Contracted
  <2>3. ASSUME TimePasses PROVE ResolutionsTyped'
    BY <2>3 DEF ResolutionsTyped, TimePasses, Contracted
  <2>4. CASE UNCHANGED vars
    BY <2>4 DEF ResolutionsTyped, vars, Contracted
  <2>5. QED
    BY <2>1, <2>2, <2>3, <2>4 DEF Next
<1>3. QED
  BY <1>1, <1>2, PTL DEF Spec

(* To spread a missed installment never makes the loan dearer or longer    *)
(* than to leave it: every turn, as much is due or more, and no more is    *)
(* left.                                                                   *)
THEOREM SpreadingCostsNoMoreAlways == Spec => []SpreadingCostsNoMore
<1>1. SchedulesTyped /\ ResolutionsTyped => SpreadingCostsNoMore
  <2> SUFFICES ASSUME SchedulesTyped, ResolutionsTyped, Projects(loan), InterestPerPeriod(loan) >= 0,
                      NEW i \in Contracted, resolution[i] = "NONE",
                      LastSharesLeft(Candidate(i)),
                      LastSharesRise(Projection(resolution), Candidate(i))
               PROVE  /\ Payable(Candidate(i)) <= Payable(Projection(resolution))
                      /\ Len(Candidate(i).rows) <= Len(Projection(resolution).rows)
    BY DEF SpreadingCostsNoMore
  <2> DEFINE other == [resolution EXCEPT ![i] = "EXTEND_EMI"]
             p == Projection(resolution)
             q == Projection(other)
  <2>1. \A j \in Contracted : resolution[j] = "EXTEND_EMI" => other[j] = "EXTEND_EMI"
    BY DEF ResolutionsTyped
  <2>2. Start \in StateOf
    BY TurnsUnfold, 0 \in 0..Cap
  <2>3. Sound(Start)
    <3>1. loan.principal \in Nat
      BY ProjectedLoan
    <3>2. NotOverpaid(Start) /\ Start.extensions = {}
      BY <3>1 DEF Start, NotOverpaid
    <3>3. QED
      BY <2>2, <3>2 DEF Sound
  <2>4. Keeps(Start, Start) /\ Len(Start.rows) <= Len(Start.rows) /\ Start.charged <= Start.charged
    <3>1. \A j \in Nat : AddOn(Start.extensions, j) = 0
      BY AddOnUntouched DEF Start
    <3>2. Debt(Start) \in Int /\ Len(Start.rows) \in Nat /\ Start.charged \in Int
      BY <2>2, <2>3, SettledIs DEF Sound, StateOf
    <3>3. QED
      BY <3>1, <3>2 DEF Keeps
  <2>5. <<Start, Start>> \in SideBySide
    BY <2>2, <2>3, <2>4 DEF SideBySide
  <2>6. SideBySide \in SUBSET (StateOf \X StateOf)
    BY DEF SideBySide
  <2> HIDE DEF other
  <2>7. \A y, z \in StateOf :
            <<y, z>> \in SideBySide => <<Onward(y, resolution), Onward(z, other)>> \in SideBySide
    BY <2>1, OnwardSideBySide
  <2>8. <<p, q>> \in SideBySide
    BY <2>5, <2>6, <2>7, ProjectionsTogether
  <2>9. q = Candidate(i)
    BY DEF Candidate, other
  <2>10. ~RoundedAway(p, q)
    BY <2>9 DEF RoundedAway
  <2> HIDE DEF p, q
  <2>11. Len(q.rows) <= Len(p.rows) /\ q.charged <= p.charged /\ p \in StateOf /\ q \in StateOf
    BY <2>8, <2>10 DEF SideBySide
  <2>12. Payable(q) <= Payable(p)
    <3>1. loan.principal \in Int
      BY ProjectedLoan
    <3>2. p.charged \in Int /\ q.charged \in Int
      BY <2>11 DEF StateOf
    <3>3. QED
      BY <2>11, <3>1, <3>2 DEF Payable
  <2>13. QED
    BY <2>9, <2>11, <2>12 DEF p
<1>2. QED
  BY <1>1, SchedulesTypeCorrect, ResolutionsTypeCorrect, PTL

(* What the collector is told of EXTEND_EMI holds, however decisions and   *)
(* payments follow each other.                                             *)
THEOREM ExtendEmiKeepsItsPromiseAlways == Spec => []ExtendEmiKeepsItsPromise
<1>1. PaidWholeIsNeverShort /\ SpreadEndsOnTime /\ SpreadingCostsNoMore => ExtendEmiKeepsItsPromise
  BY DEF ExtendEmiKeepsItsPromise
<1>2. QED
  BY <1>1, PaidWholeIsNeverShortAlways, SpreadEndsOnTimeAlways, SpreadingCostsNoMoreAlways, PTL
=============================================================================
