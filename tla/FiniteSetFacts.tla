--------------------------- MODULE FiniteSetFacts ---------------------------
(***************************************************************************)
(* Facts about finite sets that the proofs about the components share:     *)
(* induction in the form of minimal elements, the smallest and the largest *)
(* of finitely many integers, and sums.                                    *)
(*                                                                         *)
(* A proof by induction is written as one by a minimal counterexample: the *)
(* set Q of the subsets for which a claim fails, if it is not empty, has a *)
(* minimal member T, and the claim holds for the proper subsets of T.      *)
(***************************************************************************)
EXTENDS Integers, FiniteSets, Functions, FiniteSetTheorems, TLAPS

\* A set of subsets of a finite set has a minimal member.
LEMMA MinimalSet ==
    ASSUME NEW S, IsFiniteSet(S), NEW Q, Q \subseteq SUBSET S, Q # {}
    PROVE  \E T \in Q : \A U \in Q : U \subseteq T => U = T
<1>1. IsWellFoundedOn(StrictSubsetOrdering(S), SUBSET S)
  BY FS_FiniteSubsetsOfFinite, FS_StrictSubsetOrderingWellFounded
<1>2. PICK T \in Q : \A U \in Q : ~(<<U, T>> \in StrictSubsetOrdering(S))
  BY <1>1, WFMin, Zenon
<1> QED BY <1>2 DEF StrictSubsetOrdering

\* Finitely many integers have a largest one and a smallest one.
LEMMA LargestExists ==
    ASSUME NEW S, IsFiniteSet(S), S # {}, \A x \in S : x \in Int
    PROVE  \E x \in S : \A y \in S : y <= x
<1> DEFINE Above(x) == {y \in S : y >= x}
           Q == {Above(x) : x \in S}
<1>1. PICK T \in Q : \A U \in Q : U \subseteq T => U = T
  <2>1. Q \subseteq SUBSET S /\ Q # {}
    OBVIOUS
  <2> HIDE DEF Q
  <2> QED  BY <2>1, MinimalSet
<1>2. PICK x \in S : T = Above(x)
  BY <1>1
<1>3. ASSUME NEW y \in S, ~ (y <= x)
      PROVE  FALSE
  <2>1. Above(y) \in Q
    BY Zenon
  <2>2. Above(y) \subseteq Above(x) /\ x \in Above(x) /\ x \notin Above(y)
    BY <1>3
  <2> HIDE DEF Above, Q
  <2> QED  BY <1>1, <1>2, <2>1, <2>2
<1> QED  BY <1>3

LEMMA SmallestExists ==
    ASSUME NEW S, IsFiniteSet(S), S # {}, \A x \in S : x \in Int
    PROVE  \E x \in S : \A y \in S : x <= y
<1> DEFINE Below(x) == {y \in S : y <= x}
           Q == {Below(x) : x \in S}
<1>1. PICK T \in Q : \A U \in Q : U \subseteq T => U = T
  <2>1. Q \subseteq SUBSET S /\ Q # {}
    OBVIOUS
  <2> HIDE DEF Q
  <2> QED  BY <2>1, MinimalSet
<1>2. PICK x \in S : T = Below(x)
  BY <1>1
<1>3. ASSUME NEW y \in S, ~ (x <= y)
      PROVE  FALSE
  <2>1. Below(y) \in Q
    BY Zenon
  <2>2. Below(y) \subseteq Below(x) /\ x \in Below(x) /\ x \notin Below(y)
    BY <1>3
  <2> HIDE DEF Below, Q
  <2> QED  BY <1>1, <1>2, <2>1, <2>2
<1> QED  BY <1>3

\* The last number of an interval taken away.
LEMMA ShorterInterval ==
    ASSUME NEW n \in Nat
    PROVE  /\ IsFiniteSet(0 .. n) /\ n \in 0 .. n
           /\ (0 .. n) \ {n} = 0 .. n - 1 /\ 0 .. (n + 1) - 1 = 0 .. n
<1>1. IsFiniteSet(0 .. n)
  BY FS_Interval
<1>2. (0 .. n) \ {n} = 0 .. n - 1
  OBVIOUS
<1>3. 0 .. (n + 1) - 1 = 0 .. n
  OBVIOUS
<1> QED  BY <1>1, <1>2, <1>3

-----------------------------------------------------------------------------
Pick(s) == CHOOSE x \in s : TRUE

IsSum(f, S, g) ==
    g = [s \in SUBSET S |-> IF s = {} THEN 0 ELSE f[Pick(s)] + g[s \ {Pick(s)}]]

\* The sum of the library is the value of a function that picks the elements of
\* a set one after the other.
LEMMA SumIsChoice ==
    ASSUME NEW f, NEW S
    PROVE  SumFunctionOnSet(f, S) = (CHOOSE g : IsSum(f, S, g))[S]
BY Zenon DEF SumFunctionOnSet, FoldFunctionOnSet, MapThenFoldSet, IsSum, Pick

\* Two such functions agree on the subsets of R; the equation, set by set.
Agree(g, h, R) == \A s \in SUBSET R : g[s] = h[s]
Unfolds(f, S, g) == \A s \in SUBSET S : s # {} => g[s] = f[Pick(s)] + g[s \ {Pick(s)}]

\* The element picked is one of the set.
LEMMA PickIn == \A s : s # {} => Pick(s) \in s
BY Zenon DEF Pick

\* Two solutions agree on the sets of both.
LEMMA SumUnique ==
    ASSUME NEW f, NEW S, IsFiniteSet(S), NEW T, IsFiniteSet(T), NEW g, NEW h,
           IsSum(f, S, g), IsSum(f, T, h)
    PROVE  Agree(g, h, S \cap T)
<1> DEFINE Q == {s \in SUBSET (S \cap T) : g[s] # h[s]}
<1>1. SUFFICES ASSUME Q # {} PROVE FALSE
  BY DEF Agree
<1>2. PICK s \in Q : \A u \in Q : u \subseteq s => u = s
  <2>1. IsFiniteSet(S \cap T) /\ Q \subseteq SUBSET (S \cap T)
    BY FS_Intersection
  <2> HIDE DEF Q
  <2> QED  BY <1>1, <2>1, MinimalSet
<1>3. s # {}
  BY <1>2 DEF IsSum
<1>4. Pick(s) \in s
  BY <1>3, PickIn
<1>5. g[s \ {Pick(s)}] = h[s \ {Pick(s)}]
  BY <1>2, <1>4
<1>6. g[s] = f[Pick(s)] + g[s \ {Pick(s)}] /\ h[s] = f[Pick(s)] + h[s \ {Pick(s)}]
  BY <1>2, <1>3 DEF IsSum
<1> QED  BY <1>2, <1>5, <1>6

\* The equation of a solution, value by value.
LEMMA SumEquation ==
    ASSUME NEW f, NEW S, NEW g, IsSum(f, S, g)
    PROVE  g[{}] = 0 /\ Unfolds(f, S, g)
BY DEF IsSum, Unfolds

\* The recursion has a solution on every finite set.
LEMMA SumExists ==
    ASSUME NEW f, NEW S, IsFiniteSet(S)
    PROVE  \E g : IsSum(f, S, g)
<1> DEFINE Q == {T \in SUBSET S : ~ \E g : IsSum(f, T, g)}
<1>1. SUFFICES ASSUME Q # {} PROVE FALSE
  BY Zenon
<1>2. PICK T \in Q : \A U \in Q : U \subseteq T => U = T
  <2>1. Q \subseteq SUBSET S
    BY Zenon
  <2> HIDE DEF Q
  <2> QED  BY <1>1, <2>1, MinimalSet
<1>3. PICK sub : \A U \in SUBSET T : U # T => IsSum(f, U, sub[U])
  <2>1. \A U \in SUBSET T : U # T => \E g : IsSum(f, U, g)
    BY <1>2, Zenon
  <2> DEFINE c == [U \in SUBSET T |-> CHOOSE g : IsSum(f, U, g)]
  <2>2. \A U \in SUBSET T : U # T => IsSum(f, U, c[U])
    BY <2>1, Zenon
  <2> QED  BY <2>2, Zenon
<1> DEFINE val(s) == IF s = {} THEN 0 ELSE f[Pick(s)] + sub[s \ {Pick(s)}][s \ {Pick(s)}]
           h == [s \in SUBSET T |-> val(s)]
<1>4. \A s \in SUBSET T : s \ {Pick(s)} \in SUBSET T
  OBVIOUS
<1>5. ASSUME NEW U \in SUBSET T, U # T
      PROVE  val(U) = sub[U][U]
  <2> DEFINE V == U \ {Pick(U)}
  <2>0. IsSum(f, U, sub[U])
    BY <1>3, <1>5
  <2>1. CASE U = {}
    BY <2>0, <2>1, SumEquation
  <2>2. CASE U # {}
    <3>1. Pick(U) \in U
      BY <2>2, PickIn
    <3>2. V \in SUBSET T /\ V # T /\ V \subseteq U
      BY <3>1
    <3>3. sub[U][V] = sub[V][V]
      <4>1. IsFiniteSet(U) /\ IsFiniteSet(V)
        BY FS_Subset, <3>2, <1>2
      <4>2. IsSum(f, V, sub[V])
        BY <1>3, <3>2
      <4>3. V \in SUBSET (U \cap V)
        BY <3>2
      <4>4. Agree(sub[U], sub[V], U \cap V)
        <5> HIDE DEF V
        <5> QED  BY <2>0, <4>1, <4>2, SumUnique
      <4> QED  BY <4>3, <4>4, Zenon DEF Agree
    <3>4. sub[U][U] = f[Pick(U)] + sub[U][V]
      <4>1. Unfolds(f, U, sub[U])
        BY <2>0, SumEquation
      <4>2. U \in SUBSET U
        OBVIOUS
      <4> QED  BY <2>2, <4>1, <4>2, Zenon DEF Unfolds
    <3> QED  BY <2>2, <3>3, <3>4
  <2> QED  BY <2>1, <2>2
<1>6. \A s \in SUBSET T : val(s) = IF s = {} THEN 0 ELSE f[Pick(s)] + h[s \ {Pick(s)}]
  <2> TAKE s \in SUBSET T
  <2>1. CASE s = {}
    BY <2>1
  <2>2. CASE s # {}
    <3>1. s \ {Pick(s)} \in SUBSET T /\ s \ {Pick(s)} # T
      BY <2>2, PickIn
    <3>2. h[s \ {Pick(s)}] = sub[s \ {Pick(s)}][s \ {Pick(s)}]
      <4>1. h[s \ {Pick(s)}] = val(s \ {Pick(s)})
        BY <3>1
      <4> HIDE DEF h, val
      <4> QED  BY <3>1, <4>1, <1>5
    <3> HIDE DEF h
    <3> QED  BY <2>2, <3>2
  <2> QED  BY <2>1, <2>2
<1>7. IsSum(f, T, h)
  <2> HIDE DEF val
  <2> SUFFICES h = [s \in SUBSET T |-> IF s = {} THEN 0 ELSE f[Pick(s)] + h[s \ {Pick(s)}]]
    BY DEF IsSum
  <2> QED  BY <1>6
<1> QED  BY <1>2, <1>7, Zenon

\* The sum over a set that is not empty begins with the element picked.
LEMMA SumUnfold ==
    ASSUME NEW f, NEW S, IsFiniteSet(S)
    PROVE  /\ SumFunctionOnSet(f, {}) = 0
           /\ S # {} => SumFunctionOnSet(f, S) = f[Pick(S)] + SumFunctionOnSet(f, S \ {Pick(S)})
<1>1. ASSUME NEW T, IsFiniteSet(T)
      PROVE  \E g : IsSum(f, T, g) /\ SumFunctionOnSet(f, T) = g[T]
  <2>1. \E g : IsSum(f, T, g)
    BY <1>1, SumExists
  <2>2. IsSum(f, T, CHOOSE g : IsSum(f, T, g))
    BY <2>1, Zenon
  <2> QED  BY <2>2, SumIsChoice, Zenon
<1>2. SumFunctionOnSet(f, {}) = 0
  <2>1. PICK g : IsSum(f, {}, g) /\ SumFunctionOnSet(f, {}) = g[{}]
    BY <1>1, FS_EmptySet, Zenon
  <2> QED  BY <2>1, SumEquation
<1>3. ASSUME S # {}
      PROVE  SumFunctionOnSet(f, S) = f[Pick(S)] + SumFunctionOnSet(f, S \ {Pick(S)})
  <2> DEFINE T == S \ {Pick(S)}
  <2>1. IsFiniteSet(T)
    BY FS_RemoveElement
  <2>2. PICK g : IsSum(f, S, g) /\ SumFunctionOnSet(f, S) = g[S]
    BY <1>1, Zenon
  <2>3. PICK h : IsSum(f, T, h) /\ SumFunctionOnSet(f, T) = h[T]
    BY <1>1, <2>1, Zenon
  <2>4. Agree(g, h, S \cap T)
    <3> HIDE DEF T
    <3> QED  BY <2>1, <2>2, <2>3, SumUnique
  <2>5. g[T] = h[T]
    <3>1. T \in SUBSET (S \cap T)
      OBVIOUS
    <3> QED  BY <2>4, <3>1, Zenon DEF Agree
  <2>6. g[S] = f[Pick(S)] + g[T]
    <3>1. Unfolds(f, S, g)
      BY <2>2, SumEquation
    <3>2. S \in SUBSET S
      OBVIOUS
    <3> QED  BY <1>3, <3>1, <3>2, Zenon DEF Unfolds
  <2> QED  BY <2>2, <2>3, <2>5, <2>6
<1> QED  BY <1>2, <1>3

\* Nothing sums up to nothing.
LEMMA SumEmpty == \A f : SumFunctionOnSet(f, {}) = 0
BY SumUnfold, FS_EmptySet, Zenon

\* The sum of integers is an integer.
THEOREM SumType ==
    ASSUME NEW f, NEW S, IsFiniteSet(S), \A x \in S : f[x] \in Int
    PROVE  SumFunctionOnSet(f, S) \in Int
<1> DEFINE Q == {T \in SUBSET S : SumFunctionOnSet(f, T) \notin Int}
<1>1. SUFFICES ASSUME Q # {} PROVE FALSE
  OBVIOUS
<1>2. PICK T \in Q : \A U \in Q : U \subseteq T => U = T
  <2>1. Q \subseteq SUBSET S
    OBVIOUS
  <2> HIDE DEF Q
  <2> QED  BY <1>1, <2>1, MinimalSet
<1>3. IsFiniteSet(T)
  BY FS_Subset, <1>2
<1>4. T # {}
  BY <1>2, SumEmpty
<1>5. Pick(T) \in T
  BY <1>4, PickIn
<1>6. SumFunctionOnSet(f, T \ {Pick(T)}) \in Int /\ f[Pick(T)] \in Int
  BY <1>2, <1>5
<1> QED  BY <1>2, <1>3, <1>4, <1>6, SumUnfold

\* Any element may be taken out of a sum.
THEOREM SumRemove ==
    ASSUME NEW f, NEW S, IsFiniteSet(S), \A x \in S : f[x] \in Int
    PROVE  \A x \in S : SumFunctionOnSet(f, S) = f[x] + SumFunctionOnSet(f, S \ {x})
<1> DEFINE Sum(T) == SumFunctionOnSet(f, T)
           Q == {T \in SUBSET S : \E x \in T : Sum(T) # f[x] + Sum(T \ {x})}
<1>1. SUFFICES ASSUME Q # {} PROVE FALSE
  OBVIOUS
<1>2. PICK T \in Q : \A U \in Q : U \subseteq T => U = T
  <2>1. Q \subseteq SUBSET S
    OBVIOUS
  <2> HIDE DEF Q
  <2> QED  BY <1>1, <2>1, MinimalSet
<1>3. PICK x \in T : Sum(T) # f[x] + Sum(T \ {x})
  BY <1>2
<1> DEFINE p == Pick(T)
<1>4. IsFiniteSet(T) /\ T # {} /\ p \in T
  BY FS_Subset, <1>2, <1>3, PickIn
<1>5. Sum(T) = f[p] + Sum(T \ {p})
  BY <1>4, SumUnfold
<1>6. x # p
  BY <1>3, <1>5
<1>7. \A y \in T : \A z \in T \ {y} : Sum(T \ {y}) = f[z] + Sum((T \ {y}) \ {z})
  <2> TAKE y \in T
  <2> TAKE z \in T \ {y}
  <2>1. T \ {y} \in SUBSET S /\ T \ {y} \subseteq T /\ T \ {y} # T
    BY <1>2
  <2>2. T \ {y} \notin Q
    BY <1>2, <2>1, Zenon
  <2>3. ~ \E w \in T \ {y} : Sum(T \ {y}) # f[w] + Sum((T \ {y}) \ {w})
    BY <2>1, <2>2, Zenon
  <2> QED  BY <2>3, Zenon
<1>8. /\ Sum(T \ {p}) = f[x] + Sum((T \ {p}) \ {x})
      /\ Sum(T \ {x}) = f[p] + Sum((T \ {x}) \ {p})
  <2>1. x \in T \ {p} /\ p \in T \ {x}
    BY <1>4, <1>6
  <2> HIDE DEF p, Sum
  <2> QED  BY <1>4, <1>7, <2>1, Zenon
<1>9. (T \ {p}) \ {x} = (T \ {x}) \ {p}
  OBVIOUS
<1>10. f[x] \in Int /\ f[p] \in Int /\ Sum((T \ {x}) \ {p}) \in Int
  <2>1. IsFiniteSet((T \ {x}) \ {p}) /\ \A y \in (T \ {x}) \ {p} : f[y] \in Int
    BY <1>2, <1>4, FS_RemoveElement
  <2> QED  BY <2>1, <1>2, <1>3, <1>4, SumType
<1>11. /\ Sum(T) = f[p] + (f[x] + Sum((T \ {x}) \ {p}))
       /\ Sum(T) # f[x] + (f[p] + Sum((T \ {x}) \ {p}))
  <2> HIDE DEF p, Sum
  <2> QED  BY <1>3, <1>5, <1>8, <1>9
<1> HIDE DEF p, Sum, Q
<1> QED  BY <1>10, <1>11

\* A sum depends only on the values summed.
THEOREM SumSame ==
    ASSUME NEW f, NEW g, NEW S, IsFiniteSet(S), \A x \in S : f[x] = g[x]
    PROVE  SumFunctionOnSet(f, S) = SumFunctionOnSet(g, S)
<1> DEFINE Q == {T \in SUBSET S : SumFunctionOnSet(f, T) # SumFunctionOnSet(g, T)}
<1>1. SUFFICES ASSUME Q # {} PROVE FALSE
  OBVIOUS
<1>2. PICK T \in Q : \A U \in Q : U \subseteq T => U = T
  <2>1. Q \subseteq SUBSET S
    OBVIOUS
  <2> HIDE DEF Q
  <2> QED  BY <1>1, <2>1, MinimalSet
<1>3. IsFiniteSet(T)
  BY FS_Subset, <1>2
<1>4. T # {}
  BY <1>2, SumEmpty
<1>5. Pick(T) \in T
  BY <1>4, PickIn
<1>6. SumFunctionOnSet(f, T \ {Pick(T)}) = SumFunctionOnSet(g, T \ {Pick(T)})
  BY <1>2, <1>5
<1> QED  BY <1>2, <1>3, <1>4, <1>5, <1>6, SumUnfold

\* What one changed value does to a sum.
THEOREM SumUpdate ==
    ASSUME NEW S, IsFiniteSet(S), NEW f \in [S -> Int], NEW x \in S, NEW v \in Int
    PROVE  SumFunction([f EXCEPT ![x] = v]) = SumFunction(f) - f[x] + v
<1> DEFINE g == [f EXCEPT ![x] = v]
           R == S \ {x}
<1>1. SumFunction(f) = SumFunctionOnSet(f, S) /\ SumFunction(g) = SumFunctionOnSet(g, S)
  BY DEF SumFunction
<1>2. SumFunctionOnSet(f, S) = f[x] + SumFunctionOnSet(f, R)
  BY SumRemove
<1>3. SumFunctionOnSet(g, S) = g[x] + SumFunctionOnSet(g, R)
  <2>1. \A y \in S : g[y] \in Int
    OBVIOUS
  <2> HIDE DEF g
  <2> QED  BY <2>1, SumRemove
<1>4. SumFunctionOnSet(f, R) = SumFunctionOnSet(g, R)
  <2>1. IsFiniteSet(R) /\ \A y \in R : f[y] = g[y]
    BY FS_RemoveElement
  <2> HIDE DEF g, R
  <2> QED  BY <2>1, SumSame
<1>5. SumFunctionOnSet(f, R) \in Int
  <2>1. IsFiniteSet(R) /\ \A y \in R : f[y] \in Int
    BY FS_RemoveElement
  <2> HIDE DEF R
  <2> QED  BY <2>1, SumType
<1>6. g[x] = v /\ f[x] \in Int
  OBVIOUS
<1>7. SumFunction(g) = SumFunction(f) - f[x] + v
  <2> HIDE DEF g, R
  <2> QED  BY <1>1, <1>2, <1>3, <1>4, <1>5, <1>6
<1> QED  BY <1>7

\* The sum of equal values.
THEOREM SumConstant ==
    ASSUME NEW S, IsFiniteSet(S), NEW f, NEW c \in Int, \A x \in S : f[x] = c
    PROVE  SumFunctionOnSet(f, S) = Cardinality(S) * c
<1> DEFINE Q == {T \in SUBSET S : SumFunctionOnSet(f, T) # Cardinality(T) * c}
<1>1. SUFFICES ASSUME Q # {} PROVE FALSE
  OBVIOUS
<1>2. PICK T \in Q : \A U \in Q : U \subseteq T => U = T
  <2>1. Q \subseteq SUBSET S
    OBVIOUS
  <2> HIDE DEF Q
  <2> QED  BY <1>1, <2>1, MinimalSet
<1>3. IsFiniteSet(T)
  BY FS_Subset, <1>2
<1>4. T # {}
  <2>1. Cardinality({}) * c = 0
    BY FS_EmptySet
  <2> QED  BY <1>2, <2>1, SumEmpty
<1>5. Pick(T) \in T
  BY <1>4, PickIn
<1> DEFINE U == T \ {Pick(T)}
<1>6. SumFunctionOnSet(f, U) = Cardinality(U) * c
  BY <1>2, <1>5
<1>7. SumFunctionOnSet(f, T) = c + SumFunctionOnSet(f, U)
  BY <1>2, <1>3, <1>4, <1>5, SumUnfold
<1>8. Cardinality(T) = Cardinality(U) + 1 /\ Cardinality(U) \in Nat
  <2>1. IsFiniteSet(U) /\ Cardinality(U) = Cardinality(T) - 1
    BY <1>3, <1>5, FS_RemoveElement
  <2> HIDE DEF U
  <2> QED  BY <1>3, <2>1, FS_CardinalityType
<1>9. \A n \in Nat : c + n * c = (n + 1) * c
  OBVIOUS
<1> QED  BY <1>2, <1>6, <1>7, <1>8, <1>9
=============================================================================
