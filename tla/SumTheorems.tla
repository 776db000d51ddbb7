----------------------------- MODULE SumTheorems -----------------------------
(***************************************************************************)
(* What the proofs need of sums, of greatest elements and of lists over    *)
(* finite sets, whatever is summed, and of the query that classifies a     *)
(* loan as NPA (Npa), which counts.  The induction is by a least           *)
(* counterexample: the strict subsets of a finite set are well-founded, so *)
(* a collection of good subsets that is not all of them would leave one    *)
(* out that is least.                                                      *)
(***************************************************************************)
EXTENDS Npa, FiniteSetTheorems, TLAPS

(* If a subset is good whenever all its strict subsets are, all are good.  *)
LEMMA SetInduction ==
    ASSUME NEW S, IsFiniteSet(S),
           NEW Good \in SUBSET (SUBSET S),
           \A T \in SUBSET S : (\A U \in SUBSET T : U # T => U \in Good) => T \in Good
    PROVE  \A T \in SUBSET S : T \in Good
<1> DEFINE Bad == {T \in SUBSET S : T \notin Good}
<1>1. SUFFICES ASSUME Bad # {} PROVE FALSE
  OBVIOUS
<1>2. IsWellFoundedOn(StrictSubsetOrdering(S), SUBSET S)
  BY FS_StrictSubsetOrderingWellFounded, FS_FiniteSubsetsOfFinite
<1>3. PICK T \in Bad : \A U \in Bad : <<U, T>> \notin StrictSubsetOrdering(S)
  <2>1. Bad \subseteq SUBSET S
    OBVIOUS
  <2> HIDE DEF Bad
  <2>2. QED
    BY <1>1, <1>2, <2>1, WFMin
<1>4. ASSUME NEW U \in SUBSET T, U # T
      PROVE  U \in Good
  <2>1. <<U, T>> \in StrictSubsetOrdering(S)
    BY <1>4 DEF StrictSubsetOrdering
  <2>2. QED
    BY <1>3, <2>1
<1>5. QED
  BY <1>4

(* If the empty set is good, and a good subset with one more element is,   *)
(* the whole set is good.                                                  *)
LEMMA ElementInduction ==
    ASSUME NEW S, IsFiniteSet(S),
           NEW Good \in SUBSET (SUBSET S),
           {} \in Good,
           \A T \in Good : \A x \in S \ T : T \cup {x} \in Good
    PROVE  S \in Good
<1>1. ASSUME NEW T \in SUBSET S, \A U \in SUBSET T : U # T => U \in Good
      PROVE  T \in Good
  <2>1. CASE T = {}
    BY <2>1
  <2>2. CASE T # {}
    <3>1. PICK x \in T : TRUE
      BY <2>2
    <3>2. T \ {x} \in Good /\ x \in S \ (T \ {x})
      BY <1>1, <3>1
    <3>3. T = (T \ {x}) \cup {x}
      BY <3>1
    <3>4. (T \ {x}) \cup {x} \in Good
      BY <3>2
    <3>5. QED
      BY <3>3, <3>4
  <2>3. QED
    BY <2>1, <2>2
<1>2. \A T \in SUBSET S : T \in Good
  BY <1>1, SetInduction
<1>3. QED
  BY <1>2

-----------------------------------------------------------------------------
(* The recursion that defines a sum: its solutions, and that it has one.   *)

SumFirst(s) == CHOOSE x \in s : TRUE
SumUnfolding(f, S, g) ==
    [s \in SUBSET S |-> IF s = {} THEN 0 ELSE f[SumFirst(s)] + g[s \ {SumFirst(s)}]]
SumSolution(f, S, g) == g = SumUnfolding(f, S, g)

(* The sum is the value at S of some function that solves the recursion.   *)
LEMMA SumIsUnfolded ==
    ASSUME NEW f, NEW S
    PROVE  SumFunctionOnSet(f, S) = (CHOOSE g : SumSolution(f, S, g))[S]
BY DEF SumFunctionOnSet, FoldFunctionOnSet, MapThenFoldSet, SumSolution, SumUnfolding, SumFirst

(* The element the recursion picks.                                        *)
LEMMA FirstIsIn == ASSUME NEW s, s # {} PROVE SumFirst(s) \in s
BY DEF SumFirst

(* What a solution of the recursion is at a subset.                        *)
LEMMA SumsAt ==
    ASSUME NEW f, NEW S, NEW g, SumSolution(f, S, g), NEW s \in SUBSET S
    PROVE  g[s] = IF s = {} THEN 0 ELSE f[SumFirst(s)] + g[s \ {SumFirst(s)}]
<1>1. g = SumUnfolding(f, S, g)
  BY DEF SumSolution
<1>2. SumUnfolding(f, S, g)[s] = IF s = {} THEN 0 ELSE f[SumFirst(s)] + g[s \ {SumFirst(s)}]
  BY DEF SumUnfolding
<1>3. QED
  BY <1>1, <1>2

(* Solutions over a set and over a superset of it agree on the set.        *)
LEMMA SumsAgree ==
    ASSUME NEW f, NEW S, NEW T, IsFiniteSet(S), S \subseteq T,
           NEW g, SumSolution(f, S, g), NEW h, SumSolution(f, T, h)
    PROVE  g[S] = h[S]
<1> DEFINE Good == {s \in SUBSET S : g[s] = h[s]}
<1>1. ASSUME NEW s \in SUBSET S, \A u \in SUBSET s : u # s => u \in Good
      PROVE  s \in Good
  <2>0. s \in SUBSET T
    OBVIOUS
  <2>1. /\ g[s] = IF s = {} THEN 0 ELSE f[SumFirst(s)] + g[s \ {SumFirst(s)}]
        /\ h[s] = IF s = {} THEN 0 ELSE f[SumFirst(s)] + h[s \ {SumFirst(s)}]
    BY SumsAt, <2>0
  <2>2. CASE s = {}
    BY <2>1, <2>2
  <2>3. CASE s # {}
    <3>1. s \ {SumFirst(s)} \in Good
      BY <1>1, <2>3, FirstIsIn
    <3>2. g[s \ {SumFirst(s)}] = h[s \ {SumFirst(s)}]
      BY <3>1
    <3>3. QED
      BY <2>1, <2>3, <3>2
  <2>4. QED
    BY <2>2, <2>3
<1>2. Good \in SUBSET (SUBSET S)
  OBVIOUS
<1>3. \A s \in SUBSET S : s \in Good
  <2> HIDE DEF Good
  <2>1. QED
    BY <1>1, <1>2, SetInduction
<1>4. QED
  BY <1>3

(* The recursion has a solution over every finite set: the sums            *)
(* themselves.                                                             *)
LEMMA SumsExist ==
    ASSUME NEW f, NEW S, IsFiniteSet(S)
    PROVE  \E g : SumSolution(f, S, g)
<1> DEFINE Good == {T \in SUBSET S : \E g : SumSolution(f, T, g)}
<1>1. ASSUME NEW T \in SUBSET S, \A U \in SUBSET T : U # T => U \in Good
      PROVE  T \in Good
  <2> DEFINE h == [s \in SUBSET T |-> IF s = {} THEN 0
                      ELSE f[SumFirst(s)] + SumFunctionOnSet(f, s \ {SumFirst(s)})]
  <2>1. ASSUME NEW U \in SUBSET T, U # T
        PROVE  SumFunctionOnSet(f, U) = h[U]
    <3> DEFINE g == CHOOSE g : SumSolution(f, U, g)
    <3>1. SumSolution(f, U, g)
      BY <1>1, <2>1
    <3>2. SumFunctionOnSet(f, U) = g[U]
      BY SumIsUnfolded
    <3>3. g[U] = IF U = {} THEN 0 ELSE f[SumFirst(U)] + g[U \ {SumFirst(U)}]
      <4> HIDE DEF g
      <4>1. QED
        BY <3>1, SumsAt
    <3>4. CASE U = {}
      BY <3>2, <3>3, <3>4
    <3>5. CASE U # {}
      <4> DEFINE V == U \ {SumFirst(U)}
      <4> DEFINE k == CHOOSE k : SumSolution(f, V, k)
      <4>1. V \in SUBSET T /\ V # T
        BY <2>1, <3>5, FirstIsIn
      <4>2. SumSolution(f, V, k)
        <5>1. V \in Good
          BY <1>1, <4>1
        <5>2. QED
          BY <5>1
      <4>3. SumFunctionOnSet(f, V) = k[V]
        BY SumIsUnfolded
      <4>4. k[V] = g[V]
        <5>1. IsFiniteSet(V) /\ V \subseteq U
          BY <4>1, FS_Subset
        <5> HIDE DEF V, k, g
        <5>2. QED
          BY <5>1, <4>2, <3>1, SumsAgree
      <4>5. QED
        BY <3>2, <3>3, <3>5, <4>3, <4>4
    <3>6. QED
      BY <3>4, <3>5
  <2>2. h = SumUnfolding(f, T, h)
    <3>1. ASSUME NEW s \in SUBSET T
          PROVE  h[s] = IF s = {} THEN 0 ELSE f[SumFirst(s)] + h[s \ {SumFirst(s)}]
      <4>1. CASE s = {}
        BY <4>1
      <4>2. CASE s # {}
        <5>1. s \ {SumFirst(s)} \in SUBSET T /\ s \ {SumFirst(s)} # T
          BY <4>2, FirstIsIn
        <5>2. h[s \ {SumFirst(s)}] = SumFunctionOnSet(f, s \ {SumFirst(s)})
          BY <2>1, <5>1
        <5>3. h[s] = f[SumFirst(s)] + SumFunctionOnSet(f, s \ {SumFirst(s)})
          BY <4>2
        <5> HIDE DEF h
        <5>4. QED
          BY <4>2, <5>2, <5>3
      <4>3. QED
        BY <4>1, <4>2
    <3>2. h = [s \in SUBSET T |-> h[s]]
      OBVIOUS
    <3> HIDE DEF h
    <3>3. QED
      BY <3>1, <3>2 DEF SumUnfolding
  <2>3. QED
    <3> HIDE DEF h
    <3>1. SumSolution(f, T, h)
      BY <2>2 DEF SumSolution
    <3>2. QED
      BY <3>1
<1>2. Good \in SUBSET (SUBSET S)
  OBVIOUS
<1>3. \A T \in SUBSET S : T \in Good
  <2> HIDE DEF Good
  <2>1. QED
    BY <1>1, <1>2, SetInduction
<1>4. QED
  BY <1>3

(* So the sum obeys the recursion.                                         *)
LEMMA SumUnfolds ==
    ASSUME NEW f, NEW S, IsFiniteSet(S)
    PROVE  SumFunctionOnSet(f, S) =
               IF S = {} THEN 0 ELSE f[SumFirst(S)] + SumFunctionOnSet(f, S \ {SumFirst(S)})
<1> DEFINE g == CHOOSE g : SumSolution(f, S, g)
<1>1. SumSolution(f, S, g)
  BY SumsExist
<1>2. SumFunctionOnSet(f, S) = g[S]
  BY SumIsUnfolded
<1>3. g[S] = IF S = {} THEN 0 ELSE f[SumFirst(S)] + g[S \ {SumFirst(S)}]
  <2> HIDE DEF g
  <2>1. QED
    BY <1>1, SumsAt, SMTT(30)
<1> DEFINE T == S \ {SumFirst(S)}
<1> DEFINE h == CHOOSE h : SumSolution(f, T, h)
<1>4. IsFiniteSet(T) /\ T \subseteq S
  BY FS_Subset
<1>5. SumSolution(f, T, h)
  BY <1>4, SumsExist
<1>6. SumFunctionOnSet(f, T) = h[T]
  BY SumIsUnfolded
<1>7. h[T] = g[T]
  <2> HIDE DEF T, g, h
  <2>1. QED
    BY <1>1, <1>4, <1>5, SumsAgree
<1>8. QED
  BY <1>2, <1>3, <1>6, <1>7

-----------------------------------------------------------------------------
(* Sums of integers. *)

IntegersOn(f, S) == IsFiniteSet(S) /\ \A x \in S : f[x] \in Int

(* Nothing adds up to zero.                                                *)
LEMMA SumOfNothing == ASSUME NEW f PROVE SumFunctionOnSet(f, {}) = 0
BY SumUnfolds, FS_EmptySet

(* Any element may be taken out first, not only the one the recursion      *)
(* picks.                                                                  *)
LEMMA SumByParts ==
    ASSUME NEW f, NEW S, IntegersOn(f, S)
    PROVE  /\ SumFunctionOnSet(f, S) \in Int
           /\ \A x \in S : SumFunctionOnSet(f, S) = f[x] + SumFunctionOnSet(f, S \ {x})
<1> DEFINE Sum(T) == SumFunctionOnSet(f, T)
<1> DEFINE Good == {T \in SUBSET S : Sum(T) \in Int /\ \A x \in T : Sum(T) = f[x] + Sum(T \ {x})}
<1>1. ASSUME NEW T \in SUBSET S, \A U \in SUBSET T : U # T => U \in Good
      PROVE  T \in Good
  <2>0. IsFiniteSet(T) /\ \A x \in T : f[x] \in Int
    BY FS_Subset DEF IntegersOn
  <2>1. CASE T = {}
    BY <2>1, SumOfNothing
  <2>2. CASE T # {}
    <3> DEFINE c == SumFirst(T)
    <3>1. c \in T
      BY <2>2, FirstIsIn
    <3>2. Sum(T) = f[c] + Sum(T \ {c})
      BY <2>0, <2>2, SumUnfolds
    <3> HIDE DEF c
    <3>3. \A x \in T : T \ {x} \in Good
      BY <1>1
    <3>4. \A x \in T : Sum(T \ {x}) \in Int
      BY <3>3
    <3>5. Sum(T) \in Int
      BY <2>0, <3>1, <3>2, <3>4
    <3>6. ASSUME NEW x \in T, x # c
          PROVE  Sum(T) = f[x] + Sum(T \ {x})
      <4> DEFINE R == (T \ {c}) \ {x}
      <4>1. R = (T \ {x}) \ {c} /\ x \in T \ {c} /\ c \in T \ {x}
        BY <3>1, <3>6
      <4>2. Sum(T \ {c}) = f[x] + Sum(R)
        BY <3>1, <3>3, <4>1
      <4>3. Sum(T \ {x}) = f[c] + Sum(R)
        BY <3>3, <4>1
      <4>4. Sum(R) \in Int
        <5>1. R \in SUBSET T /\ R # T
          BY <4>1
        <5>2. R \in Good
          BY <1>1, <5>1
        <5>3. QED
          BY <5>2
      <4>5. f[x] \in Int /\ f[c] \in Int
        BY <2>0, <3>1
      <4> HIDE DEF R, Sum
      <4>6. QED
        BY <3>2, <4>2, <4>3, <4>4, <4>5
    <3>7. \A x \in T : Sum(T) = f[x] + Sum(T \ {x})
      BY <3>2, <3>6
    <3>8. QED
      BY <3>5, <3>7
  <2>3. QED
    BY <2>1, <2>2
<1>2. Good \in SUBSET (SUBSET S)
  OBVIOUS
<1>3. \A T \in SUBSET S : T \in Good
  <2> HIDE DEF Good
  <2>1. QED
    BY <1>1, <1>2, SetInduction DEF IntegersOn
<1>4. QED
  BY <1>3

(* A sum of integers is one.                                               *)
THEOREM SumIsInteger ==
    ASSUME NEW f, NEW S, IntegersOn(f, S)
    PROVE  SumFunctionOnSet(f, S) \in Int
BY SumByParts

(* Without one of its elements a set adds up to as much less.              *)
THEOREM SumWithout ==
    ASSUME NEW f, NEW S, IntegersOn(f, S), NEW x \in S
    PROVE  SumFunctionOnSet(f, S \ {x}) = SumFunctionOnSet(f, S) - f[x]
<1>1. SumFunctionOnSet(f, S) = f[x] + SumFunctionOnSet(f, S \ {x})
  BY SumByParts
<1>2. IntegersOn(f, S \ {x}) /\ f[x] \in Int
  BY FS_RemoveElement DEF IntegersOn
<1>3. SumFunctionOnSet(f, S \ {x}) \in Int
  BY <1>2, SumByParts
<1>4. QED
  BY <1>1, <1>2, <1>3

(* With one element more a set adds up to as much more.                    *)
THEOREM SumWith ==
    ASSUME NEW f, NEW S, IntegersOn(f, S), NEW x, x \notin S, f[x] \in Int
    PROVE  SumFunctionOnSet(f, S \cup {x}) = SumFunctionOnSet(f, S) + f[x]
<1> DEFINE T == S \cup {x}
<1>1. T \ {x} = S /\ x \in T
  OBVIOUS
<1>2. IntegersOn(f, T)
  BY FS_AddElement DEF IntegersOn
<1> HIDE DEF T
<1>3. SumFunctionOnSet(f, T) \in Int /\ SumFunctionOnSet(f, S) = SumFunctionOnSet(f, T) - f[x]
  BY <1>1, <1>2, SumWithout, SumByParts
<1>4. QED
  BY <1>3 DEF T

(* Functions that agree on a set have the same sum over it.                *)
THEOREM SumOfEquals ==
    ASSUME NEW f, NEW g, NEW S, IntegersOn(f, S), \A x \in S : f[x] = g[x]
    PROVE  SumFunctionOnSet(f, S) = SumFunctionOnSet(g, S)
<1> DEFINE Good == {T \in SUBSET S : SumFunctionOnSet(f, T) = SumFunctionOnSet(g, T)}
<1>1. {} \in Good
  BY SumOfNothing
<1>2. ASSUME NEW T \in Good, NEW x \in S \ T
      PROVE  T \cup {x} \in Good
  <2>1. IntegersOn(f, T) /\ IntegersOn(g, T) /\ f[x] \in Int /\ g[x] \in Int
    BY FS_Subset DEF IntegersOn
  <2>2. /\ SumFunctionOnSet(f, T \cup {x}) = SumFunctionOnSet(f, T) + f[x]
        /\ SumFunctionOnSet(g, T \cup {x}) = SumFunctionOnSet(g, T) + g[x]
    BY <2>1, SumWith
  <2>3. QED
    BY <2>2
<1>3. Good \in SUBSET (SUBSET S)
  OBVIOUS
<1>4. S \in Good
  <2> HIDE DEF Good
  <2>1. QED
    BY <1>1, <1>2, <1>3, ElementInduction DEF IntegersOn
<1>5. QED
  BY <1>4

(* The sum of what two functions add up to at each element is the sum of   *)
(* their sums.                                                             *)
THEOREM SumOfTwo ==
    ASSUME NEW f, NEW g, NEW h, NEW S, IntegersOn(f, S), IntegersOn(g, S),
           \A x \in S : h[x] = f[x] + g[x]
    PROVE  SumFunctionOnSet(h, S) = SumFunctionOnSet(f, S) + SumFunctionOnSet(g, S)
<1> DEFINE Good == {T \in SUBSET S :
              SumFunctionOnSet(h, T) = SumFunctionOnSet(f, T) + SumFunctionOnSet(g, T)}
<1>1. {} \in Good
  BY SumOfNothing
<1>2. ASSUME NEW T \in Good, NEW x \in S \ T
      PROVE  T \cup {x} \in Good
  <2>1. /\ IntegersOn(f, T) /\ IntegersOn(g, T) /\ f[x] \in Int /\ g[x] \in Int
        /\ IntegersOn(h, T) /\ h[x] \in Int
    BY FS_Subset DEF IntegersOn
  <2>2. /\ SumFunctionOnSet(f, T \cup {x}) = SumFunctionOnSet(f, T) + f[x]
        /\ SumFunctionOnSet(g, T \cup {x}) = SumFunctionOnSet(g, T) + g[x]
        /\ SumFunctionOnSet(h, T \cup {x}) = SumFunctionOnSet(h, T) + h[x]
    BY <2>1, SumWith
  <2>3. SumFunctionOnSet(f, T) \in Int /\ SumFunctionOnSet(g, T) \in Int
    BY <2>1, SumByParts
  <2>4. QED
    BY <2>1, <2>2, <2>3
<1>3. Good \in SUBSET (SUBSET S)
  OBVIOUS
<1>4. S \in Good
  <2> HIDE DEF Good
  <2>1. QED
    BY <1>1, <1>2, <1>3, ElementInduction DEF IntegersOn
<1>5. QED
  BY <1>4

(* The sum over two disjoint sets is the sum of the sums over each.        *)
THEOREM SumOfUnion ==
    ASSUME NEW f, NEW S, NEW T, S \cap T = {}, IntegersOn(f, S \cup T)
    PROVE  SumFunctionOnSet(f, S \cup T) = SumFunctionOnSet(f, S) + SumFunctionOnSet(f, T)
<1> DEFINE Good == {U \in SUBSET T :
              SumFunctionOnSet(f, S \cup U) = SumFunctionOnSet(f, S) + SumFunctionOnSet(f, U)}
<1>0. IntegersOn(f, S) /\ IntegersOn(f, T)
  BY FS_Subset DEF IntegersOn
<1>1. {} \in Good
  BY <1>0, SumOfNothing, SumByParts
<1>2. ASSUME NEW U \in Good, NEW x \in T \ U
      PROVE  U \cup {x} \in Good
  <2> DEFINE V == S \cup U
  <2>1. /\ IntegersOn(f, V) /\ IntegersOn(f, U) /\ f[x] \in Int
        /\ x \notin V /\ x \notin U
    BY FS_Subset DEF IntegersOn
  <2>2. /\ SumFunctionOnSet(f, V \cup {x}) = SumFunctionOnSet(f, V) + f[x]
        /\ SumFunctionOnSet(f, U \cup {x}) = SumFunctionOnSet(f, U) + f[x]
    <3> HIDE DEF V
    <3>1. QED
      BY <2>1, SumWith
  <2>3. SumFunctionOnSet(f, S) \in Int /\ SumFunctionOnSet(f, U) \in Int
    BY <1>0, <2>1, SumByParts
  <2>4. V \cup {x} = S \cup (U \cup {x})
    OBVIOUS
  <2>5. SumFunctionOnSet(f, V) = SumFunctionOnSet(f, S) + SumFunctionOnSet(f, U)
    OBVIOUS
  <2>6. SumFunctionOnSet(f, V \cup {x}) = SumFunctionOnSet(f, S) + SumFunctionOnSet(f, U \cup {x})
    <3> HIDE DEF V
    <3>1. QED
      BY <2>1, <2>2, <2>3, <2>5
  <2>7. QED
    BY <2>4, <2>6
<1>3. Good \in SUBSET (SUBSET T)
  OBVIOUS
<1>4. T \in Good
  <2> HIDE DEF Good
  <2>1. QED
    BY <1>0, <1>1, <1>2, <1>3, ElementInduction DEF IntegersOn
<1>5. QED
  BY <1>4

(* The sum over a set is the sum over an image of it in which every        *)
(* element has an image of its own, of the same worth.                     *)
THEOREM SumOfImage ==
    ASSUME NEW f, NEW S, IntegersOn(f, S), NEW g, NEW image, DOMAIN image = S,
           \A x, y \in S : image[x] = image[y] => x = y,
           \A x \in S : g[image[x]] = f[x]
    PROVE  /\ SumFunctionOnSet(g, {image[x] : x \in S}) = SumFunctionOnSet(f, S)
           /\ IsFiniteSet({image[x] : x \in S})
<1> DEFINE Of(T) == {image[x] : x \in T}
<1> DEFINE Good == {T \in SUBSET S : /\ SumFunctionOnSet(g, Of(T)) = SumFunctionOnSet(f, T)
                                     /\ IsFiniteSet(Of(T))}
<1>1. {} \in Good
  <2>1. Of({}) = {}
    OBVIOUS
  <2> HIDE DEF Of
  <2>2. QED
    BY <2>1, SumOfNothing, FS_EmptySet
<1>2. ASSUME NEW T \in Good, NEW x \in S \ T
      PROVE  T \cup {x} \in Good
  <2>1. T \in SUBSET S /\ IsFiniteSet(Of(T)) /\ SumFunctionOnSet(g, Of(T)) = SumFunctionOnSet(f, T)
    OBVIOUS
  <2>2. /\ Of(T \cup {x}) = Of(T) \cup {image[x]}
        /\ image[x] \notin Of(T)
        /\ \A z \in Of(T) : g[z] \in Int
    BY <2>1 DEF IntegersOn
  <2>3. IntegersOn(f, T) /\ f[x] \in Int /\ g[image[x]] = f[x]
    BY <2>1, FS_Subset DEF IntegersOn
  <2> HIDE DEF Of
  <2>4. IntegersOn(g, Of(T))
    BY <2>1, <2>2 DEF IntegersOn
  <2>5. /\ SumFunctionOnSet(f, T \cup {x}) = SumFunctionOnSet(f, T) + f[x]
        /\ SumFunctionOnSet(g, Of(T) \cup {image[x]}) = SumFunctionOnSet(g, Of(T)) + g[image[x]]
    BY <2>2, <2>3, <2>4, SumWith
  <2>6. IsFiniteSet(Of(T) \cup {image[x]})
    BY <2>1, FS_AddElement
  <2>7. QED
    BY <2>1, <2>2, <2>3, <2>5, <2>6
<1>3. Good \in SUBSET (SUBSET S)
  OBVIOUS
<1>4. S \in Good
  <2> HIDE DEF Good
  <2>1. QED
    BY <1>1, <1>2, <1>3, ElementInduction DEF IntegersOn
<1>5. QED
  BY <1>4

(* A sum of natural numbers is one.                                        *)
THEOREM SumIsNatural ==
    ASSUME NEW f, NEW S, IsFiniteSet(S), \A x \in S : f[x] \in Nat
    PROVE  SumFunctionOnSet(f, S) \in Nat
<1> DEFINE Good == {T \in SUBSET S : SumFunctionOnSet(f, T) \in Nat}
<1>1. {} \in Good
  BY SumOfNothing
<1>2. ASSUME NEW T \in Good, NEW x \in S \ T
      PROVE  T \cup {x} \in Good
  <2>1. IntegersOn(f, T) /\ f[x] \in Nat
    BY FS_Subset DEF IntegersOn
  <2>2. SumFunctionOnSet(f, T \cup {x}) = SumFunctionOnSet(f, T) + f[x]
    BY <2>1, SumWith
  <2>3. QED
    BY <2>1, <2>2
<1>3. Good \in SUBSET (SUBSET S)
  OBVIOUS
<1>4. S \in Good
  <2> HIDE DEF Good
  <2>1. QED
    BY <1>1, <1>2, <1>3, ElementInduction
<1>5. QED
  BY <1>4

(* A change at one element changes the sum by as much.                     *)
THEOREM SumAfterChange ==
    ASSUME NEW f, NEW g, NEW S, IntegersOn(f, S), NEW x \in S, g[x] \in Int,
           \A y \in S \ {x} : g[y] = f[y]
    PROVE  SumFunctionOnSet(g, S) = SumFunctionOnSet(f, S) - f[x] + g[x]
<1>1. IntegersOn(f, S \ {x}) /\ IntegersOn(g, S) /\ f[x] \in Int
  BY FS_RemoveElement DEF IntegersOn
<1>2. SumFunctionOnSet(f, S \ {x}) = SumFunctionOnSet(g, S \ {x})
  BY <1>1, SumOfEquals
<1>3. /\ SumFunctionOnSet(f, S) = f[x] + SumFunctionOnSet(f, S \ {x})
      /\ SumFunctionOnSet(g, S) = g[x] + SumFunctionOnSet(g, S \ {x})
  BY <1>1, SumByParts
<1>4. SumFunctionOnSet(f, S \ {x}) \in Int
  BY <1>1, SumByParts
<1>5. QED
  BY <1>1, <1>2, <1>3, <1>4

(* A part adds up to no more than the whole, if nothing is negative.       *)
THEOREM SumOfPart ==
    ASSUME NEW f, NEW S, NEW T \in SUBSET S, IsFiniteSet(S), \A x \in S : f[x] \in Nat
    PROVE  SumFunctionOnSet(f, T) <= SumFunctionOnSet(f, S)
<1> DEFINE U == S \ T
<1>1. IsFiniteSet(T) /\ IsFiniteSet(U) /\ S = T \cup U /\ T \cap U = {}
  BY FS_Subset
<1>2. \A x \in T \cup U : f[x] \in Nat
  BY <1>1
<1>3. SumFunctionOnSet(f, S) = SumFunctionOnSet(f, T) + SumFunctionOnSet(f, U)
  <2> HIDE DEF U
  <2>1. IntegersOn(f, T \cup U)
    BY <1>1, <1>2 DEF IntegersOn
  <2>2. QED
    BY <1>1, <2>1, SumOfUnion
<1>4. SumFunctionOnSet(f, T) \in Nat /\ SumFunctionOnSet(f, U) \in Nat
  <2> HIDE DEF U
  <2>1. QED
    BY <1>1, <1>2, SumIsNatural
<1>5. QED
  BY <1>3, <1>4

-----------------------------------------------------------------------------
(* Least and greatest elements. *)

(* Every set of natural numbers has a least element.                       *)
LEMMA LeastElement ==
    ASSUME NEW T \in SUBSET Nat, T # {}
    PROVE  \E x \in T : \A y \in T : x <= y
<1>1. PICK x \in T : \A y \in T : ~ (<<y, x>> \in OpToRel(<, Nat))
  BY NatLessThanWellFounded, WFMin
<1>2. \A y \in T : ~ (y < x)
  <2>1. TAKE y \in T
  <2>2. <<y, x>> \in Nat \X Nat
    OBVIOUS
  <2>3. y < x => <<y, x>> \in OpToRel(<, Nat)
    BY <2>2 DEF OpToRel
  <2>4. QED
    BY <1>1, <2>3
<1>3. \A y \in T : x <= y
  BY <1>2
<1>4. QED
  BY <1>3

(* The greatest element of a finite set of integers.                       *)
LEMMA GreatestElement ==
    ASSUME NEW S \in SUBSET Int, S # {}, IsFiniteSet(S)
    PROVE  Max(S) \in S /\ \A y \in S : y <= Max(S)
<1> DEFINE Good == {T \in SUBSET S : T = {} \/ \E x \in T : \A y \in T : x >= y}
<1>1. {} \in Good
  OBVIOUS
<1>2. ASSUME NEW T \in Good, NEW z \in S \ T
      PROVE  T \cup {z} \in Good
  <2>1. CASE T = {}
    BY <2>1
  <2>2. CASE T # {}
    <3>1. PICK x \in T : \A y \in T : x >= y
      BY <2>2
    <3>2. CASE x >= z
      BY <3>1, <3>2
    <3>3. CASE z > x
      <4>1. \A y \in T \cup {z} : z >= y
        BY <3>1, <3>3
      <4>2. QED
        BY <4>1
    <3>4. QED
      BY <3>2, <3>3
  <2>3. QED
    BY <2>1, <2>2
<1>3. Good \in SUBSET (SUBSET S)
  OBVIOUS
<1>4. S \in Good
  <2> HIDE DEF Good
  <2>1. QED
    BY <1>1, <1>2, <1>3, ElementInduction
<1>5. QED
  BY <1>4 DEF Max

-----------------------------------------------------------------------------
(* A set listed in order. *)

(* A strictly ordered list of as many members of a set of numbers as it    *)
(* has lists each of them once.                                            *)
LEMMA OrderedListing ==
    ASSUME NEW S \in SUBSET Int, IsFiniteSet(S),
           NEW list \in [1..Cardinality(S) -> S],
           \A i, j \in 1..Cardinality(S) : i < j => list[i] < list[j]
    PROVE  \A x \in S : \E i \in 1..Cardinality(S) :
               list[i] = x /\ \A j \in 1..Cardinality(S) : list[j] = x => j = i
<1> DEFINE D == 1..Cardinality(S)
<1>0. Cardinality(S) \in Nat
  BY FS_CardinalityType
<1>1. \A i, j \in D : list[i] = list[j] => i = j
  <2>1. TAKE i, j \in D
  <2>2. i < j \/ j < i \/ i = j
    BY <1>0
  <2>3. list[i] \in Int /\ list[j] \in Int
    OBVIOUS
  <2>4. i < j => list[i] < list[j]
    OBVIOUS
  <2>5. j < i => list[j] < list[i]
    OBVIOUS
  <2>6. QED
    BY <2>2, <2>3, <2>4, <2>5
<1>2. list \in Injection(D, S)
  BY <1>1 DEF Injection, IsInjective
<1>3. IsFiniteSet(D) /\ Cardinality(D) = Cardinality(S)
  BY <1>0, FS_Interval
<1>4. list \in Surjection(D, S)
  <2> HIDE DEF D
  <2>1. QED
    BY <1>2, <1>3, FS_Injection
<1>5. QED
  BY <1>1, <1>4 DEF Surjection

-----------------------------------------------------------------------------
(* The gaps-and-islands query of npa.ts, for every set of installments. *)

(* From one number to another the row number grows by as many of the set   *)
(* as lie between: at most as much as the number itself, and as much only  *)
(* if all of them are there.                                               *)
LEMMA RowNumberGrows ==
    ASSUME NEW S \in SUBSET Nat, IsFiniteSet(S), NEW m \in Nat, NEW n \in Nat, m <= n
    PROVE  /\ RowNumber(S, m) \in Nat /\ RowNumber(S, n) \in Nat
           /\ RowNumber(S, n) - RowNumber(S, m) <= n - m
           /\ RowNumber(S, n) - RowNumber(S, m) = n - m <=> m + 1..n \subseteq S
<1> DEFINE upTo == {x \in S : x <= m}
           between == S \cap (m + 1..n)
<1>1. IsFiniteSet(m + 1..n) /\ Cardinality(m + 1..n) = n - m
  <2>1. m + 1 \in Int /\ n \in Int
    OBVIOUS
  <2>2. IsFiniteSet(m + 1..n)
    BY <2>1, FS_Interval
  <2>3. Cardinality(m + 1..n) = IF m + 1 > n THEN 0 ELSE n - (m + 1) + 1
    BY <2>1, FS_Interval
  <2>4. QED
    BY <2>2, <2>3
<1>2. IsFiniteSet(upTo) /\ IsFiniteSet(between)
  BY FS_Subset
<1>3. {x \in S : x <= n} = upTo \cup between /\ upTo \cap between = {}
  <2>1. \A x \in S : (x <= n <=> x <= m \/ x \in m + 1..n) /\ ~(x <= m /\ x \in m + 1..n)
    OBVIOUS
  <2>2. QED
    BY <2>1
<1>4. between \subseteq m + 1..n
  OBVIOUS
<1>5. RowNumber(S, m) = Cardinality(upTo)
  BY DEF RowNumber
<1>6. RowNumber(S, n) = Cardinality({x \in S : x <= n})
  BY DEF RowNumber
<1>7. m + 1..n \subseteq S <=> between = m + 1..n
  OBVIOUS
<1> HIDE DEF upTo, between
<1>8. Cardinality(upTo) \in Nat /\ Cardinality(between) \in Nat
  BY <1>2, FS_CardinalityType
<1>9. Cardinality(upTo \cup between) = Cardinality(upTo) + Cardinality(between)
  BY <1>2, <1>3, <1>8, FS_Union, FS_EmptySet
<1>10. Cardinality(between) <= n - m
  BY <1>1, <1>4, FS_Subset
<1>11. Cardinality(between) = n - m <=> between = m + 1..n
  BY <1>1, <1>4, FS_Subset
<1>12. PICK low \in Nat, gap \in Nat : low = Cardinality(upTo) /\ gap = Cardinality(between)
  BY <1>8
<1>13. RowNumber(S, m) = low
  BY <1>5, <1>12
<1>14. RowNumber(S, n) = low + gap
  BY <1>3, <1>6, <1>9, <1>12
<1>15. gap <= n - m /\ (gap = n - m <=> m + 1..n \subseteq S)
  BY <1>7, <1>10, <1>11, <1>12
<1>16. QED
  <2>1. low \in Nat /\ low + gap \in Nat /\ low + gap - low = gap
    OBVIOUS
  <2>2. QED
    BY <1>13, <1>14, <1>15, <2>1

(* An island is a run of consecutive numbers of the set.                   *)
LEMMA IslandIsInterval ==
    ASSUME NEW S \in SUBSET Nat, IsFiniteSet(S), NEW n \in S
    PROVE  \E a, b \in S : /\ Island(S, n) = a..b /\ a <= b /\ a..b \subseteq S
<1> DEFINE I == Island(S, n)
<1>1. I \subseteq S /\ n \in I /\ \A x, y \in I : x - RowNumber(S, x) = y - RowNumber(S, y)
  BY DEF Island
<1>2. \A x \in S : x - RowNumber(S, x) = n - RowNumber(S, n) => x \in I
  BY DEF Island
<1> HIDE DEF I
<1>3. I \in SUBSET Nat /\ IsFiniteSet(I) /\ I # {}
  BY <1>1, FS_Subset
<1>4. PICK a \in I : \A y \in I : a <= y
  BY <1>3, LeastElement
<1>5. PICK b \in I : \A y \in I : y <= b
  <2>1. I \in SUBSET Int
    BY <1>3
  <2>2. QED
    BY <1>3, <2>1, GreatestElement
<1>6. a \in Nat /\ b \in Nat /\ a <= b /\ a \in S /\ b \in S
  BY <1>1, <1>3, <1>4
<1>7. a + 1..b \subseteq S
  <2>1. a - RowNumber(S, a) = b - RowNumber(S, b)
    BY <1>1
  <2>2. RowNumber(S, a) \in Nat /\ RowNumber(S, b) \in Nat
    BY <1>6, RowNumberGrows
  <2>3. RowNumber(S, b) - RowNumber(S, a) = b - a
    BY <1>6, <2>1, <2>2
  <2>4. QED
    BY <1>6, <2>3, RowNumberGrows
<1>8. a..b \subseteq S
  BY <1>6, <1>7
<1>9. ASSUME NEW x \in a..b PROVE x \in I
  <2>1. x \in Nat /\ a <= x /\ a + 1..x \subseteq S
    BY <1>6, <1>8
  <2>2. /\ RowNumber(S, a) \in Nat /\ RowNumber(S, x) \in Nat
        /\ RowNumber(S, x) - RowNumber(S, a) = x - a
    BY <1>6, <2>1, RowNumberGrows
  <2>3. RowNumber(S, n) \in Nat /\ a - RowNumber(S, a) = n - RowNumber(S, n)
    BY <1>1, RowNumberGrows
  <2>4. x - RowNumber(S, x) = n - RowNumber(S, n)
    BY <1>6, <2>1, <2>2, <2>3
  <2>5. QED
    BY <1>2, <1>8, <2>4
<1>10. I = a..b
  <2>1. \A x \in I : x \in Nat /\ a <= x /\ x <= b
    BY <1>3, <1>4, <1>5
  <2>2. I \subseteq a..b
    BY <1>6, <2>1
  <2>3. QED
    BY <1>9, <2>2
<1>11. QED
  BY <1>6, <1>8, <1>10 DEF I

(***************************************************************************)
(* npaConsecutiveOverdueRunSql finds the longest streak of consecutive     *)
(* numbers, whatever the numbers and the gaps between them.                *)
(***************************************************************************)
THEOREM QueryFindsLongestStreak ==
    ASSUME NEW S \in SUBSET Nat, IsFiniteSet(S)
    PROVE  FindsLongestStreak(S) /\ OverdueRun(S) \in Nat /\ (OverdueRun(S) > 0 <=> S # {})
<1> DEFINE sizes == {Cardinality(Island(S, n)) : n \in S}
           all == {0} \cup sizes
<1>1. \A n \in S : IsFiniteSet(Island(S, n)) /\ Cardinality(Island(S, n)) \in Nat \ {0}
  <2> SUFFICES ASSUME NEW n \in S
               PROVE  IsFiniteSet(Island(S, n)) /\ Cardinality(Island(S, n)) \in Nat \ {0}
    OBVIOUS
  <2>1. Island(S, n) \subseteq S /\ n \in Island(S, n)
    BY DEF Island
  <2>2. IsFiniteSet(Island(S, n))
    BY <2>1, FS_Subset
  <2>3. QED
    BY <2>1, <2>2, FS_CardinalityType, FS_EmptySet
<1>2. all \in SUBSET Nat /\ all # {} /\ IsFiniteSet(all)
  <2>1. IsFiniteSet(sizes)
    <3>1. ASSUME NEW n \in S PROVE Cardinality(Island(S, n)) \in 0..Cardinality(S)
      <4>1. Island(S, n) \subseteq S
        BY DEF Island
      <4>2. Cardinality(Island(S, n)) <= Cardinality(S)
        BY <4>1, FS_Subset
      <4>3. Cardinality(S) \in Nat
        BY FS_CardinalityType
      <4>4. QED
        BY <1>1, <4>2, <4>3
    <3>2. IsFiniteSet(0..Cardinality(S))
      BY FS_CardinalityType, FS_Interval
    <3>3. sizes \subseteq 0..Cardinality(S)
      BY <3>1
    <3>4. QED
      BY <3>2, <3>3, FS_Subset
  <2> HIDE DEF sizes
  <2>2. IsFiniteSet(all)
    BY <2>1, FS_Singleton, FS_Union
  <2>3. QED
    BY <1>1, <2>2 DEF sizes
<1> HIDE DEF all
<1>3. PICK run : run = OverdueRun(S)
  OBVIOUS
<1>4. run \in all /\ \A x \in all : run >= x
  <2>1. all \in SUBSET Int
    BY <1>2
  <2>2. run = Max(all)
    BY <1>3 DEF OverdueRun, all
  <2>3. run \in all /\ \A x \in all : x <= run
    BY <1>2, <2>1, <2>2, GreatestElement
  <2>4. QED
    BY <1>2, <2>3
<1>5. run \in Nat
  BY <1>2, <1>4
<1>6. \E n \in S \cup {1} : n..n + run - 1 \subseteq S
  <2>1. CASE run = 0
    BY <2>1
  <2>2. CASE run # 0
    <3>1. PICK n \in S : run = Cardinality(Island(S, n))
      BY <1>4, <2>2 DEF all
    <3>2. PICK a, b \in S : Island(S, n) = a..b /\ a <= b /\ a..b \subseteq S
      BY IslandIsInterval
    <3>3. a \in Int /\ b \in Int
      OBVIOUS
    <3>4. Cardinality(a..b) = IF a > b THEN 0 ELSE b - a + 1
      BY <3>3, FS_Interval
    <3>5. a..a + run - 1 = a..b
      BY <3>1, <3>2, <3>3, <3>4
    <3>6. QED
      BY <3>2, <3>5
  <2>3. QED
    BY <2>1, <2>2
<1>7. ASSUME NEW n \in S, n..n + run \subseteq S PROVE FALSE
  <2>1. ASSUME NEW x \in n..n + run PROVE x \in Island(S, n)
    <3>1. n \in Nat /\ x \in Nat /\ n <= x /\ n + 1..x \subseteq S /\ x \in S
      BY <1>5, <1>7
    <3>2. /\ RowNumber(S, n) \in Nat /\ RowNumber(S, x) \in Nat
          /\ RowNumber(S, x) - RowNumber(S, n) = x - n
      BY <3>1, RowNumberGrows
    <3>3. x - RowNumber(S, x) = n - RowNumber(S, n)
      BY <3>1, <3>2
    <3>4. QED
      BY <3>1, <3>3 DEF Island
  <2>2. n..n + run \subseteq Island(S, n)
    BY <2>1
  <2>3. n \in Int /\ n + run \in Int
    BY <1>5
  <2>4. PICK last \in Int : last = n + run
    BY <2>3
  <2>5. Cardinality(n..last) = IF n > last THEN 0 ELSE last - n + 1
    BY <2>3, FS_Interval
  <2>6. Cardinality(n..n + run) = run + 1
    BY <1>5, <2>3, <2>4, <2>5
  <2>7. Cardinality(n..n + run) <= Cardinality(Island(S, n))
    BY <1>1, <2>2, FS_Subset
  <2>8. Cardinality(Island(S, n)) \in all /\ Cardinality(Island(S, n)) \in Nat
    BY <1>1 DEF all
  <2>9. QED
    BY <1>4, <1>5, <2>6, <2>7, <2>8
<1>8. run > 0 <=> S # {}
  <2>1. S = {} => run = 0
    BY <1>4 DEF all
  <2>2. ASSUME NEW n \in S PROVE run > 0
    <3>1. Cardinality(Island(S, n)) \in all /\ Cardinality(Island(S, n)) \in Nat \ {0}
      BY <1>1 DEF all
    <3>2. QED
      BY <1>4, <1>5, <3>1
  <2>3. CASE S = {}
    BY <2>1, <2>3
  <2>4. CASE S # {}
    BY <2>2, <2>4
  <2>5. QED
    BY <2>3, <2>4
<1>9. FindsLongestStreak(S)
  <2> SUFFICES /\ \E n \in S \cup {1} : n..n + OverdueRun(S) - 1 \subseteq S
               /\ \A n \in S : ~(n..n + OverdueRun(S) \subseteq S)
    BY DEF FindsLongestStreak
  <2>1. QED
    BY <1>3, <1>6, <1>7
<1>10. QED
  BY <1>3, <1>5, <1>8, <1>9

(* More installments past due and a lower threshold make no loan perform   *)
(* again.                                                                  *)
LEMMA NpaIsMonotone ==
    ASSUME NEW S \in SUBSET Nat, IsFiniteSet(S), NEW T \in SUBSET Nat, IsFiniteSet(T), S \subseteq T,
           NEW limit \in Nat, NEW lower \in Nat, lower <= limit,
           NEW before, NEW after, before => after,
           Npa(S, before, limit)
    PROVE  Npa(T, after, lower)
<1>1. PICK run, more : run = OverdueRun(S) /\ more = OverdueRun(T)
  OBVIOUS
<1>2. run \in Nat /\ more \in Nat /\ run > 0
  BY <1>1, QueryFindsLongestStreak DEF Npa
<1>3. more >= run
  <2>1. PICK n \in S \cup {1} : n..n + run - 1 \subseteq S
    BY <1>1, QueryFindsLongestStreak DEF FindsLongestStreak
  <2>2. n \in Nat /\ n \in n..n + run - 1
    BY <1>2
  <2>3. n \in T /\ ~(n..n + more \subseteq T)
    BY <1>1, <2>1, <2>2, QueryFindsLongestStreak DEF FindsLongestStreak
  <2>4. more < run => n..n + more \subseteq n..n + run - 1
    BY <1>2, <2>2
  <2>5. QED
    BY <1>2, <2>1, <2>3, <2>4
<1>4. before \/ run >= limit
  BY <1>1 DEF Npa
<1>5. more > 0 /\ (after \/ more >= lower)
  BY <1>2, <1>3, <1>4
<1>6. QED
  BY <1>1, <1>5 DEF Npa
=============================================================================
