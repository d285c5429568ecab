---------------------------- MODULE SumTheorems ----------------------------
(***************************************************************************)
(* Facts about the sums of the community modules (MapThenSumSet), for the  *)
(* proofs that need them.  A sum of naturals counts units: f[x] of them    *)
(* for every x of the set, so what holds of cardinalities gives what holds *)
(* of sums, and the recursion of the fold is shown to count them.          *)
(***************************************************************************)
EXTENDS Integers, FiniteSets, FiniteSetTheorems, TLAPS

Units(f, S) == {u \in S \X Nat : u[2] \in 1 .. f[u[1]]}

SumOf(f, S) == Cardinality(Units(f, S))

NaturalOn(f, S) == \A x \in S : f[x] \in Nat

Pick(S) == CHOOSE x \in S : TRUE

\* g is the function that the fold defines on the subsets of S.
IsSum(f, g, S) ==
    g = [T \in SUBSET S |-> IF T = {} THEN 0 ELSE f[Pick(T)] + g[T \ {Pick(T)}]]

-----------------------------------------------------------------------------
\* Of the subsets of a finite set with some property there is a least one.
LEMMA LeastSubset ==
  ASSUME NEW S, IsFiniteSet(S), NEW Bad, Bad \subseteq SUBSET S, Bad # {}
  PROVE  \E T \in Bad : \A U \in Bad : ~ (U \subseteq T /\ U # T)
<1>1. FiniteSubsetsOf(S) = SUBSET S
  BY FS_FiniteSubsetsOfFinite
<1>2. IsWellFoundedOn(StrictSubsetOrdering(S), SUBSET S)
  BY <1>1, FS_StrictSubsetOrderingWellFounded
<1>3. PICK T \in Bad : \A U \in Bad : ~ (<<U, T>> \in StrictSubsetOrdering(S))
  BY <1>2, WFMin
<1>4. \A U \in Bad : U \subseteq T /\ U # T => <<U, T>> \in StrictSubsetOrdering(S)
  BY DEF StrictSubsetOrdering
<1>5. T \in Bad /\ \A U \in Bad : ~ (U \subseteq T /\ U # T)
  BY <1>3, <1>4
<1> QED
  BY <1>5, Zenon

LEMMA UnitsOfOne ==
  ASSUME NEW f, NEW x, f[x] \in Nat
  PROVE  IsFiniteSet({x} \X (1 .. f[x])) /\ Cardinality({x} \X (1 .. f[x])) = f[x]
<1>1. IsFiniteSet({x}) /\ Cardinality({x}) = 1
  BY FS_Singleton
<1>2. IsFiniteSet(1 .. f[x]) /\ Cardinality(1 .. f[x]) = f[x]
  BY FS_Interval, SMTT(30)
<1>3. /\ IsFiniteSet({x} \X (1 .. f[x]))
      /\ Cardinality({x} \X (1 .. f[x])) = Cardinality({x}) * Cardinality(1 .. f[x])
  BY <1>1, <1>2, FS_Product
<1> QED
  BY <1>1, <1>2, <1>3

LEMMA UnitsSplit ==
  ASSUME NEW f, NEW T, NEW x \in T, f[x] \in Nat
  PROVE  /\ Units(f, T) = Units(f, T \ {x}) \cup ({x} \X (1 .. f[x]))
         /\ Units(f, T \ {x}) \cap ({x} \X (1 .. f[x])) = {}
BY DEF Units

LEMMA UnitsFinite ==
  ASSUME NEW f, NEW S, IsFiniteSet(S), NaturalOn(f, S)
  PROVE  IsFiniteSet(Units(f, S))
<1> DEFINE Bad == {T \in SUBSET S : ~ IsFiniteSet(Units(f, T))}
<1>1. CASE Bad = {}
  BY <1>1
<1>2. CASE Bad # {}
  <2>0. Bad \subseteq SUBSET S
    OBVIOUS
  <2>1. \E T \in Bad : \A U \in Bad : ~ (U \subseteq T /\ U # T)
    <3> HIDE DEF Bad
    <3> QED
      BY <1>2, <2>0, LeastSubset
  <2> PICK T \in Bad : \A U \in Bad : ~ (U \subseteq T /\ U # T)
    BY <2>1
  <2>2. T # {}
    <3>1. Units(f, {}) = {}
      BY DEF Units
    <3> QED
      BY <3>1, FS_EmptySet
  <2>3. PICK x \in T : TRUE
    BY <2>2
  <2>4. T \ {x} \notin Bad /\ T \ {x} \in SUBSET S
    OBVIOUS
  <2>5. IsFiniteSet(Units(f, T \ {x}))
    BY <2>4
  <2>6. f[x] \in Nat
    BY DEF NaturalOn
  <2>7. IsFiniteSet(Units(f, T))
    <3>1. IsFiniteSet({x} \X (1 .. f[x]))
      BY <2>6, UnitsOfOne
    <3>2. Units(f, T) = Units(f, T \ {x}) \cup ({x} \X (1 .. f[x]))
      BY <2>6, UnitsSplit
    <3>3. IsFiniteSet(Units(f, T \ {x}) \cup ({x} \X (1 .. f[x])))
      BY <2>5, <3>1, FS_Union
    <3> QED
      BY <3>2, <3>3
  <2> QED
    BY <2>7
<1> QED
  BY <1>1, <1>2

LEMMA SumNat ==
  ASSUME NEW f, NEW S, IsFiniteSet(S), NaturalOn(f, S)
  PROVE  SumOf(f, S) \in Nat
BY UnitsFinite, FS_CardinalityType DEF SumOf

LEMMA SumEmpty == \A f : SumOf(f, {}) = 0
<1>1. \A f : Units(f, {}) = {}
  BY DEF Units
<1> QED
  BY <1>1, FS_EmptySet DEF SumOf

LEMMA SumSplit ==
  ASSUME NEW f, NEW S, IsFiniteSet(S), NaturalOn(f, S), NEW x \in S
  PROVE  SumOf(f, S) = SumOf(f, S \ {x}) + f[x]
<1>1. f[x] \in Nat /\ NaturalOn(f, S \ {x})
  BY DEF NaturalOn
<1>2. IsFiniteSet(S \ {x})
  BY FS_RemoveElement
<1> DEFINE A == Units(f, S \ {x})
           B == {x} \X (1 .. f[x])
<1>3. IsFiniteSet(A) /\ Cardinality(A) \in Nat
  BY <1>1, <1>2, UnitsFinite, FS_CardinalityType
<1>4. IsFiniteSet(B) /\ Cardinality(B) = f[x]
  BY <1>1, UnitsOfOne
<1>5. Units(f, S) = A \cup B /\ A \cap B = {}
  BY <1>1, UnitsSplit
<1> HIDE DEF A, B
<1>6. Cardinality(A \cup B) = Cardinality(A) + Cardinality(B) - 0
  BY <1>3, <1>4, <1>5, FS_Union, FS_EmptySet
<1>7. Cardinality(A \cup B) = Cardinality(A) + f[x]
  BY <1>1, <1>3, <1>4, <1>6
<1> QED
  BY <1>5, <1>7 DEF SumOf, A

LEMMA SumAdd ==
  ASSUME NEW f, NEW S, NEW x, IsFiniteSet(S), NaturalOn(f, S), f[x] \in Nat, x \notin S
  PROVE  SumOf(f, S \cup {x}) = SumOf(f, S) + f[x]
<1>1. IsFiniteSet(S \cup {x}) /\ NaturalOn(f, S \cup {x})
  BY FS_AddElement DEF NaturalOn
<1>2. (S \cup {x}) \ {x} = S
  OBVIOUS
<1>3. SumOf(f, S \cup {x}) = SumOf(f, (S \cup {x}) \ {x}) + f[x]
  BY <1>1, SumSplit
<1> QED
  BY <1>2, <1>3

LEMMA SumAlike ==
  ASSUME NEW f, NEW g, NEW S, \A x \in S : f[x] = g[x]
  PROVE  SumOf(f, S) = SumOf(g, S)
<1>1. Units(f, S) = Units(g, S)
  BY DEF Units
<1> QED
  BY <1>1 DEF SumOf

LEMMA SumWithin ==
  ASSUME NEW f, NEW S, NEW T \in SUBSET S, IsFiniteSet(S), NaturalOn(f, S)
  PROVE  SumOf(f, T) <= SumOf(f, S)
<1>1. Units(f, T) \in SUBSET Units(f, S)
  BY DEF Units
<1> QED
  BY <1>1, UnitsFinite, FS_Subset DEF SumOf

-----------------------------------------------------------------------------
\* The fold is well defined, and it is the sum.
LEMMA SumExists ==
  ASSUME NEW f, NEW S, IsFiniteSet(S), NaturalOn(f, S)
  PROVE  IsSum(f, [T \in SUBSET S |-> SumOf(f, T)], S)
<1> DEFINE g == [T \in SUBSET S |-> SumOf(f, T)]
<1>1. ASSUME NEW T \in SUBSET S
      PROVE  SumOf(f, T) = IF T = {} THEN 0 ELSE f[Pick(T)] + g[T \ {Pick(T)}]
  <2>1. CASE T = {}
    BY <2>1, SumEmpty
  <2>2. CASE T # {}
    <3>1. Pick(T) \in T
      BY <2>2 DEF Pick
    <3>2. IsFiniteSet(T) /\ NaturalOn(f, T)
      BY FS_Subset DEF NaturalOn
    <3>3. SumOf(f, T) = SumOf(f, T \ {Pick(T)}) + f[Pick(T)]
      BY <3>1, <3>2, SumSplit
    <3>4. IsFiniteSet(T \ {Pick(T)}) /\ NaturalOn(f, T \ {Pick(T)}) /\ f[Pick(T)] \in Nat
      BY <3>1, <3>2, FS_RemoveElement DEF NaturalOn
    <3>5. SumOf(f, T \ {Pick(T)}) \in Nat
      BY <3>4, SumNat
    <3>6. g[T \ {Pick(T)}] = SumOf(f, T \ {Pick(T)})
      OBVIOUS
    <3> HIDE DEF g
    <3> QED
      BY <2>2, <3>3, <3>4, <3>5, <3>6
  <2> QED
    BY <2>1, <2>2
<1> QED
  BY <1>1, Zenon DEF IsSum

LEMMA SumUnique ==
  ASSUME NEW f, NEW g, NEW S, IsFiniteSet(S), NaturalOn(f, S), IsSum(f, g, S)
  PROVE  g[S] = SumOf(f, S)
<1> DEFINE Bad == {T \in SUBSET S : g[T] # SumOf(f, T)}
<1>0. \A T \in SUBSET S : g[T] = IF T = {} THEN 0 ELSE f[Pick(T)] + g[T \ {Pick(T)}]
  BY Zenon DEF IsSum
<1>1. CASE Bad = {}
  BY <1>1
<1>2. CASE Bad # {}
  <2>0. Bad \subseteq SUBSET S
    OBVIOUS
  <2>1. \E T \in Bad : \A U \in Bad : ~ (U \subseteq T /\ U # T)
    <3> HIDE DEF Bad
    <3> QED
      BY <1>2, <2>0, LeastSubset
  <2> PICK T \in Bad : \A U \in Bad : ~ (U \subseteq T /\ U # T)
    BY <2>1
  <2>2. T # {}
    BY <1>0, SumEmpty
  <2>3. Pick(T) \in T
    BY <2>2 DEF Pick
  <2>4. T \ {Pick(T)} \in SUBSET S /\ T \ {Pick(T)} \notin Bad
    BY <2>3
  <2>5. g[T \ {Pick(T)}] = SumOf(f, T \ {Pick(T)})
    BY <2>4
  <2>6. IsFiniteSet(T) /\ NaturalOn(f, T)
    BY FS_Subset DEF NaturalOn
  <2>7. SumOf(f, T) = SumOf(f, T \ {Pick(T)}) + f[Pick(T)]
    BY <2>3, <2>6, SumSplit
  <2>8. IsFiniteSet(T \ {Pick(T)}) /\ NaturalOn(f, T \ {Pick(T)}) /\ f[Pick(T)] \in Nat
    BY <2>3, <2>6, FS_RemoveElement DEF NaturalOn
  <2>9. SumOf(f, T \ {Pick(T)}) \in Nat
    BY <2>8, SumNat
  <2>10. g[T] = f[Pick(T)] + g[T \ {Pick(T)}]
    BY <1>0, <2>2
  <2>11. g[T] = SumOf(f, T)
    BY <2>5, <2>7, <2>8, <2>9, <2>10
  <2> QED
    BY <2>11
<1> QED
  BY <1>1, <1>2


-----------------------------------------------------------------------------
\* Sums compared: term by term, with one term changed, and over a larger set on
\* which the other terms are 0.
LEMMA SumLeq ==
  ASSUME NEW f, NEW g, NEW S, IsFiniteSet(S), NaturalOn(f, S), NaturalOn(g, S),
         \A x \in S : f[x] <= g[x]
  PROVE  SumOf(f, S) <= SumOf(g, S)
<1>1. Units(f, S) \in SUBSET Units(g, S)
  BY DEF Units, NaturalOn
<1> QED
  BY <1>1, UnitsFinite, FS_Subset DEF SumOf

LEMMA SumShift ==
  ASSUME NEW f, NEW g, NEW S, IsFiniteSet(S), NaturalOn(f, S), NaturalOn(g, S), NEW x \in S,
         \A y \in S \ {x} : f[y] = g[y]
  PROVE  SumOf(f, S) - f[x] = SumOf(g, S) - g[x]
<1>1. SumOf(f, S) = SumOf(f, S \ {x}) + f[x] /\ SumOf(g, S) = SumOf(g, S \ {x}) + g[x]
  BY SumSplit
<1>2. SumOf(f, S \ {x}) = SumOf(g, S \ {x})
  BY SumAlike
<1>3. SumOf(f, S \ {x}) \in Nat /\ f[x] \in Nat /\ g[x] \in Nat
  <2>1. IsFiniteSet(S \ {x}) /\ NaturalOn(f, S \ {x})
    BY FS_RemoveElement DEF NaturalOn
  <2> QED
    BY <2>1, SumNat DEF NaturalOn
<1> QED
  BY <1>1, <1>2, <1>3

LEMMA SumPadded ==
  ASSUME NEW f, NEW g, NEW S, NEW T \in SUBSET S, \A x \in T : f[x] = g[x],
         \A x \in S \ T : g[x] = 0
  PROVE  SumOf(f, T) = SumOf(g, S)
<1>1. Units(f, T) = Units(g, S)
  BY DEF Units
<1> QED
  BY <1>1 DEF SumOf
=============================================================================
