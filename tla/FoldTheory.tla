------------------------------- MODULE FoldTheory ------------------------------
(***************************************************************************)
(* What a fold over a finite set computes.  The folds of the community     *)
(* modules (MapThenFoldSet, and FoldLeft and FoldSet by it) apply a        *)
(* function that is chosen by its recursion equation: that there is one is *)
(* what a proof about a fold needs first.  Op takes a parameter, what came *)
(* of the rest, and the element picked; an instance names the two.         *)
(***************************************************************************)
EXTENDS Integers, FiniteSets, FiniteSetTheorems, WellFoundedInduction, TLAPS

CONSTANTS Op(_, _, _), Pick(_)

Equation(p, base, domain, g) ==
  g = [s \in domain |-> IF s = {} THEN base ELSE Op(p, g[s \ {Pick(s)}], Pick(s))]

Iter(p, base, S) == CHOOSE g : Equation(p, base, SUBSET S, g)

Picks(S) == \A s \in SUBSET S : s # {} => Pick(s) \in s

-------------------------------------------------------------------------------
(***************************************************************************)
(* Induction over the numbers, of the set of those something holds of.     *)
(***************************************************************************)
LEMMA InductionOverNumbers ==
  ASSUME NEW T \in SUBSET Nat, 0 \in T, \A n \in T : n + 1 \in T
  PROVE  T = Nat
<1> SUFFICES ASSUME Nat \ T # {} PROVE FALSE
  OBVIOUS
<1>1. PICK x \in Nat \ T : \A y \in Nat \ T : ~(<<y, x>> \in OpToRel(<, Nat))
  BY NatLessThanWellFounded, WFMin
<1>2. \A y \in Nat \ T : ~(y < x)
  BY <1>1 DEF OpToRel
<1>3. x - 1 \in T
  BY <1>2
<1> QED
  BY <1>3

\* The greatest and the least of some numbers.
LEMMA BoundedHaveExtremes ==
  \A n \in Nat : \A s \in SUBSET (1 .. n) : s # {} =>
    (\E x \in s : \A y \in s : x >= y) /\ (\E x \in s : \A y \in s : x =< y)
<1> DEFINE Extremes(s) == (\E x \in s : \A y \in s : x >= y) /\ (\E x \in s : \A y \in s : x =< y)
           T == {n \in Nat : \A s \in SUBSET (1 .. n) : s # {} => Extremes(s)}
<1>1. 0 \in T
  <2>1. 1 .. 0 = {}
    OBVIOUS
  <2> QED
    BY <2>1
<1>2. ASSUME NEW n \in T PROVE n + 1 \in T
  <2> SUFFICES ASSUME NEW s \in SUBSET (1 .. n + 1), s # {} PROVE Extremes(s)
    OBVIOUS
  <2>1. CASE n + 1 \notin s
    <3>1. s \in SUBSET (1 .. n)
      BY <2>1
    <3> QED
      BY <3>1
  <2>2. CASE s = {n + 1}
    BY <2>2
  <2>3. CASE n + 1 \in s /\ s # {n + 1}
    <3>1. s \ {n + 1} \in SUBSET (1 .. n) /\ s \ {n + 1} # {}
      BY <2>3
    <3>2. PICK x \in s \ {n + 1} : \A y \in s \ {n + 1} : x =< y
      BY <3>1
    <3>3. x =< n + 1 /\ \A y \in s : y =< n + 1
      OBVIOUS
    <3> QED
      BY <2>3, <3>2, <3>3
  <2> QED
    BY <2>1, <2>2, <2>3
<1> HIDE DEF T
<1>3. T = Nat
  <2>1. T \in SUBSET Nat
    BY DEF T
  <2> QED
    BY <1>1, <1>2, <2>1, InductionOverNumbers
<1> QED
  BY <1>3 DEF T

-------------------------------------------------------------------------------
(***************************************************************************)
(* The equation has a solution: there is one over the subsets of at most n *)
(* elements, for every n.                                                  *)
(***************************************************************************)
UpTo(S, n) == {s \in SUBSET S : Cardinality(s) =< n}

LEMMA OneMoreElement ==
  ASSUME NEW p, NEW base, NEW S, IsFiniteSet(S), Picks(S), NEW n \in Nat,
         NEW g, Equation(p, base, UpTo(S, n), g)
  PROVE  \E h : Equation(p, base, UpTo(S, n + 1), h)
<1> DEFINE Of(f, s) == IF s = {} THEN base ELSE Op(p, f[s \ {Pick(s)}], Pick(s))
           h == [s \in UpTo(S, n + 1) |-> Of(g, s)]
<1>1. \A s \in UpTo(S, n) : s \in UpTo(S, n + 1) /\ g[s] = Of(g, s)
  <2>1. \A s \in SUBSET S : Cardinality(s) \in Nat
    BY FS_Subset, FS_CardinalityType
  <2>2. \A s \in UpTo(S, n) : s \in UpTo(S, n + 1)
    BY <2>1 DEF UpTo
  <2>3. ASSUME NEW s \in UpTo(S, n) PROVE g[s] = Of(g, s)
    BY Zenon DEF Equation
  <2> QED
    BY <2>2, <2>3
<1>2. ASSUME NEW s \in UpTo(S, n + 1), s # {}
      PROVE  s \ {Pick(s)} \in UpTo(S, n)
  <2>1. Pick(s) \in s /\ IsFiniteSet(s) /\ s \in SUBSET S
    BY <1>2, FS_Subset DEF UpTo, Picks
  <2>2. Cardinality(s \ {Pick(s)}) = Cardinality(s) - 1 /\ Cardinality(s) \in Nat
    BY <2>1, FS_RemoveElement, FS_CardinalityType
  <2> QED
    BY <2>1, <2>2 DEF UpTo
<1>3. ASSUME NEW s \in UpTo(S, n + 1)
      PROVE  Of(g, s) = Of(h, s)
  <2>1. CASE s = {}
    BY <2>1
  <2>2. CASE s # {}
    <3>1. s \ {Pick(s)} \in UpTo(S, n)
      BY <1>2, <2>2
    <3>2. g[s \ {Pick(s)}] = h[s \ {Pick(s)}]
      BY <1>1, <3>1
    <3> QED
      BY <3>2
  <2> QED
    BY <2>1, <2>2
<1>4. h = [s \in UpTo(S, n + 1) |-> Of(h, s)]
  BY <1>3
<1> QED
  BY <1>4 DEF Equation

LEMMA EquationIsSolved ==
  ASSUME NEW p, NEW base, NEW S, IsFiniteSet(S), Picks(S)
  PROVE  \E g : Equation(p, base, SUBSET S, g)
<1> DEFINE T == {n \in Nat : \E g : Equation(p, base, UpTo(S, n), g)}
<1>1. 0 \in T
  <2>1. UpTo(S, 0) = {{}}
    <3>1. \A s \in SUBSET S : IsFiniteSet(s)
      BY FS_Subset
    <3>2. \A s \in SUBSET S : Cardinality(s) \in Nat /\ (Cardinality(s) = 0 <=> s = {})
      BY <3>1, FS_CardinalityType, FS_EmptySet
    <3> QED
      BY <3>2 DEF UpTo
  <2>2. Equation(p, base, UpTo(S, 0), [s \in {{}} |-> base])
    BY <2>1 DEF Equation
  <2> QED
    BY <2>2
<1>2. \A n \in T : n + 1 \in T
  BY OneMoreElement
<1>3. T = Nat
  <2>1. T \in SUBSET Nat
    OBVIOUS
  <2> HIDE DEF T
  <2> QED
    BY <1>1, <1>2, <2>1, InductionOverNumbers
<1>4. Cardinality(S) \in T
  BY <1>3, FS_CardinalityType
<1>5. UpTo(S, Cardinality(S)) = SUBSET S
  <2>1. \A s \in SUBSET S : Cardinality(s) =< Cardinality(S)
    BY FS_Subset
  <2> QED
    BY <2>1 DEF UpTo
<1> QED
  BY <1>4, <1>5

\* Induction over the subsets of a finite set, by one element of each.
LEMMA InductionOverSubsets ==
  ASSUME NEW S, IsFiniteSet(S), NEW T, {} \in T,
         \A s \in SUBSET S : s # {} => \E x \in s : s \ {x} \in T => s \in T
  PROVE  SUBSET S \subseteq T
<1> DEFINE N == {n \in Nat : \A s \in UpTo(S, n) : s \in T}
<1>1. \A s \in SUBSET S : IsFiniteSet(s) /\ Cardinality(s) \in Nat /\ (Cardinality(s) = 0 <=> s = {})
  BY FS_Subset, FS_CardinalityType, FS_EmptySet
<1>2. 0 \in N
  BY <1>1 DEF UpTo
<1>3. ASSUME NEW n \in N PROVE n + 1 \in N
  <2> SUFFICES ASSUME NEW s \in UpTo(S, n + 1) PROVE s \in T
    OBVIOUS
  <2>1. CASE s # {}
    <3>1. PICK x \in s : s \ {x} \in T => s \in T
      BY <2>1 DEF UpTo
    <3>2. Cardinality(s \ {x}) = Cardinality(s) - 1 /\ Cardinality(s) \in Nat
      BY <1>1, FS_RemoveElement DEF UpTo
    <3>3. s \ {x} \in UpTo(S, n)
      BY <3>2 DEF UpTo
    <3> QED
      BY <3>1, <3>3
  <2> QED
    BY <2>1
<1>4. N = Nat
  <2>1. N \in SUBSET Nat
    OBVIOUS
  <2> HIDE DEF N
  <2> QED
    BY <1>2, <1>3, <2>1, InductionOverNumbers
<1> QED
  BY <1>1, <1>4 DEF UpTo

\* A fold over a finite set satisfies its equation: nothing of the empty set, and of any
\* other the element picked after the rest.
THEOREM FoldsUnroll ==
  ASSUME NEW p, NEW base, NEW S, IsFiniteSet(S), Picks(S)
  PROVE  Equation(p, base, SUBSET S, Iter(p, base, S))
BY EquationIsSolved DEF Iter

\* A fold that picks the greatest of 1 .. n goes through them in order.
PicksGreatest(n) == \A s \in SUBSET (1 .. n) : s # {} => Pick(s) \in s /\ \A y \in s : Pick(s) >= y

GoesInOrder(p, base, n) ==
  /\ Iter(p, base, 1 .. n)[1 .. 0] = base
  /\ \A k \in 1 .. n :
       Iter(p, base, 1 .. n)[1 .. k] = Op(p, Iter(p, base, 1 .. n)[1 .. (k - 1)], k)

LEMMA GreatestGoInOrder ==
  ASSUME NEW p, NEW base, NEW n \in Nat, PicksGreatest(n)
  PROVE  GoesInOrder(p, base, n)
<1>1. Picks(1 .. n) /\ IsFiniteSet(1 .. n)
  BY FS_Interval DEF Picks, PicksGreatest
<1>2. Equation(p, base, SUBSET (1 .. n), Iter(p, base, 1 .. n))
  BY <1>1, FoldsUnroll
<1>3. Iter(p, base, 1 .. n)[1 .. 0] = base
  <2> DEFINE S == 1 .. n
  <2>1. 1 .. 0 = {}
    OBVIOUS
  <2> HIDE DEF S
  <2>2. Iter(p, base, S)[{}] = base
    BY <1>2 DEF Equation, S
  <2> QED
    BY <2>1, <2>2 DEF S
<1>4. ASSUME NEW k \in 1 .. n
      PROVE  Iter(p, base, 1 .. n)[1 .. k] = Op(p, Iter(p, base, 1 .. n)[1 .. (k - 1)], k)
  <2> DEFINE S == 1 .. n
             K == 1 .. k
  <2>1. K \in SUBSET S /\ k \in K /\ K # {}
    OBVIOUS
  <2>2. Pick(K) = k
    <3>1. Pick(K) \in K /\ Pick(K) >= k
      <4> HIDE DEF K
      <4> QED
        BY <2>1 DEF PicksGreatest
    <3> QED
      BY <3>1
  <2>3. K \ {k} = 1 .. (k - 1)
    OBVIOUS
  <2> HIDE DEF K, S
  <2>4. Iter(p, base, S)[K] = Op(p, Iter(p, base, S)[K \ {Pick(K)}], Pick(K))
    BY <1>2, <2>1 DEF Equation, S
  <2> QED
    BY <2>2, <2>3, <2>4 DEF K, S
<1> QED
  BY <1>3, <1>4 DEF GoesInOrder

THEOREM IntervalsUnroll ==
  ASSUME NEW p, NEW base, NEW n \in Nat, \A s : Pick(s) = CHOOSE x \in s : \A y \in s : x >= y
  PROVE  GoesInOrder(p, base, n)
<1>1. PicksGreatest(n)
  BY BoundedHaveExtremes DEF PicksGreatest
<1> QED
  BY <1>1, GreatestGoInOrder

\* Two folds whose steps agree are one.
THEOREM FoldsAgree ==
  ASSUME NEW p, NEW q, \A rest, x : Op(p, rest, x) = Op(q, rest, x), NEW base, NEW S
  PROVE  Iter(p, base, S) = Iter(q, base, S)
<1>1. ASSUME NEW g PROVE Equation(p, base, SUBSET S, g) <=> Equation(q, base, SUBSET S, g)
  <2> DEFINE Of(r) == [s \in SUBSET S |-> IF s = {} THEN base ELSE Op(r, g[s \ {Pick(s)}], Pick(s))]
  <2>1. \A s \in SUBSET S : Op(p, g[s \ {Pick(s)}], Pick(s)) = Op(q, g[s \ {Pick(s)}], Pick(s))
    OBVIOUS
  <2>2. Of(p) = Of(q)
    BY <2>1
  <2> QED
    BY <2>2 DEF Equation
<1> QED
  BY <1>1 DEF Iter
================================================================================
