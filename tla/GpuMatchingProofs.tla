------------------------- MODULE GpuMatchingProofs -------------------------
(***************************************************************************)
(* What FindLoop computes, for every list of GPUs and of requirements.  It *)
(* is defined by recursion over the requirements; the induction it needs   *)
(* is stated over sets of naturals, and over subsets of a finite set,      *)
(* which the provers can instantiate.  Of the same kind are the sums over  *)
(* finite sets, which the proofs about the other modules use.              *)
(***************************************************************************)
EXTENDS GpuMatching, FiniteSetTheorems, WellFoundedInduction, TLAPS

----------------------------------------------------------------------------
(* Induction over the naturals, for a set instead of a predicate.          *)

LEMMA SetInduction ==
    ASSUME NEW S \in SUBSET Nat, 0 \in S, \A n \in S : n + 1 \in S
    PROVE  S = Nat
<1> SUFFICES ASSUME S # Nat PROVE FALSE
  OBVIOUS
<1> DEFINE R == OpToRel(<, Nat)
<1>1. IsWellFoundedOn(R, Nat)
  BY NatLessThanWellFounded
<1>2. PICK x \in Nat \ S : \A y \in Nat \ S : ~(<<y, x>> \in R)
  <2>1. Nat \ S \subseteq Nat /\ Nat \ S # {}
    OBVIOUS
  <2> HIDE DEF R
  <2> QED
    BY <1>1, <2>1, WFMin
<1>3. x # 0 /\ x - 1 \in Nat
  OBVIOUS
<1>4. <<x - 1, x>> \in R
  BY <1>3 DEF OpToRel
<1> HIDE DEF R
<1>5. x - 1 \in S
  BY <1>2, <1>3, <1>4
<1>6. (x - 1) + 1 \in S /\ (x - 1) + 1 = x
  BY <1>3, <1>5
<1> QED
  BY <1>2, <1>6

\* A nonempty set of naturals has a least element.
LEMMA LeastElement ==
    ASSUME NEW S \in SUBSET Nat, S # {}
    PROVE  \E x \in S : \A y \in S : x <= y
<1> SUFFICES ASSUME \A x \in S : \E y \in S : y < x PROVE FALSE
  OBVIOUS
<1> DEFINE Below == {n \in Nat : \A m \in S : n <= m}
<1>1. 0 \in Below
  OBVIOUS
<1>2. \A n \in Below : n + 1 \in Below
  OBVIOUS
<1>3. Below = Nat
  <2> HIDE DEF Below
  <2>1. Below \in SUBSET Nat
    BY DEF Below
  <2> QED
    BY <1>1, <1>2, <2>1, SetInduction
<1>4. PICK x : x \in S /\ x \in Nat
  OBVIOUS
<1>5. x + 1 \in Below
  BY <1>3, <1>4
<1>6. x + 1 <= x
  BY <1>4, <1>5
<1> QED
  BY <1>4, <1>6

\* A nonempty collection of subsets of a finite set has a minimal one.
LEMMA MinimalSubset ==
    ASSUME NEW S, IsFiniteSet(S), NEW C \in SUBSET (SUBSET S), C # {}
    PROVE  \E T \in C : \A U \in C : ~(U \subseteq T /\ U # T)
<1> DEFINE R == StrictSubsetOrdering(S)
<1>1. IsWellFoundedOn(R, FiniteSubsetsOf(S)) /\ FiniteSubsetsOf(S) = SUBSET S
  BY FS_StrictSubsetOrderingWellFounded, FS_FiniteSubsetsOfFinite
<1>2. PICK T \in C : \A U \in C : ~(<<U, T>> \in R)
  <2> HIDE DEF R
  <2> QED
    BY <1>1, WFMin
<1>3. ASSUME NEW U \in C, U \subseteq T, U # T PROVE <<U, T>> \in R
  <2>1. <<U, T>> \in (SUBSET S) \X (SUBSET S)
    OBVIOUS
  <2> QED
    BY <1>3, <2>1 DEF StrictSubsetOrdering
<1> HIDE DEF R
<1>4. \A U \in C : ~(U \subseteq T /\ U # T)
  BY <1>2, <1>3, Zenon
<1> QED
  BY <1>4

\* A set of naturals can be listed in ascending order.
LEMMA SortedExists ==
    ASSUME NEW S, IsFiniteSet(S)
    PROVE  S \subseteq Nat =>
              \E f \in [1..Cardinality(S) -> S] : \A i, j \in DOMAIN f : i < j => f[i] < f[j]
<1>0. HAVE S \subseteq Nat
<1> DEFINE Sorts(f, T) == /\ f \in [1..Cardinality(T) -> T]
                          /\ \A i, j \in 1..Cardinality(T) : i < j => f[i] < f[j]
           Failing == {T \in SUBSET S : ~ \E f : Sorts(f, T)}
<1>1. Failing = {}
  <2> SUFFICES ASSUME Failing # {} PROVE FALSE
    OBVIOUS
  <2>1. PICK T \in Failing : \A V \in Failing : ~(V \subseteq T /\ V # T)
    <3>1. Failing \in SUBSET (SUBSET S)
      OBVIOUS
    <3> HIDE DEF Failing, Sorts
    <3> QED
      BY <3>1, MinimalSubset
  <2>2. T \in SUBSET S /\ ~ \E f : Sorts(f, T)
    OBVIOUS
  <2>3. IsFiniteSet(T)
    BY <2>2, FS_Subset
  <2>4. CASE T = {}
    <3>1. Cardinality(T) = 0
      BY <2>4, FS_EmptySet
    <3>2. Sorts(<<>>, T)
      BY <2>4, <3>1
    <3> QED
      BY <2>2, <3>2
  <2>5. CASE T # {}
    <3>1. PICK x \in T : \A y \in T : x <= y
      <4>1. T \in SUBSET Nat
        BY <1>0, <2>2
      <4> QED
        BY <2>5, <4>1, LeastElement
    <3> DEFINE Rest == T \ {x}
    <3>2. PICK f : Sorts(f, Rest)
      <4>1. Rest \in SUBSET S /\ Rest \subseteq T /\ Rest # T
        BY <2>2, <3>1
      <4> QED
        BY <2>1, <4>1
    <3> DEFINE n == Cardinality(Rest)
               g == [i \in 1..(n + 1) |-> IF i = 1 THEN x ELSE f[i - 1]]
    <3>3. n \in Nat /\ Cardinality(T) = n + 1
      <4>1. IsFiniteSet(Rest) /\ Cardinality(Rest) = Cardinality(T) - 1
        BY <2>3, <3>1, FS_RemoveElement
      <4>2. Cardinality(T) \in Nat /\ Cardinality(Rest) \in Nat
        BY <2>3, <4>1, FS_CardinalityType
      <4> QED
        BY <4>1, <4>2
    <3>4. /\ \A i \in 1..n : f[i] \in T /\ f[i] # x /\ f[i] \in Nat /\ x < f[i]
          /\ \A i, j \in 1..n : i < j => f[i] < f[j]
          /\ x \in Nat
      <4>1. f \in [1..n -> Rest] /\ \A i, j \in 1..n : i < j => f[i] < f[j]
        BY <3>2
      <4>2. T \subseteq Nat
        BY <1>0, <2>2
      <4> HIDE DEF n, Failing, Sorts
      <4>3. \A i \in 1..n : f[i] \in T /\ f[i] # x
        BY <4>1
      <4>4. x \in Nat
        BY <4>2
      <4>5. ASSUME NEW i \in 1..n PROVE f[i] \in Nat /\ x < f[i]
        <5>1. f[i] \in T /\ f[i] # x /\ f[i] \in Nat /\ x <= f[i]
          BY <3>1, <4>2, <4>3
        <5> QED
          BY <4>4, <5>1
      <4> QED
        BY <4>1, <4>3, <4>4, <4>5
    <3> HIDE DEF n
    <3>5. g \in [1..(n + 1) -> T]
      BY <3>1, <3>3, <3>4
    <3>6. ASSUME NEW i \in 1..(n + 1), NEW j \in 1..(n + 1), i < j PROVE g[i] < g[j]
      <4>1. j # 1 /\ j - 1 \in 1..n /\ g[j] = f[j - 1]
        BY <3>3, <3>6
      <4>2. CASE i = 1
        BY <3>4, <4>1, <4>2
      <4>3. CASE i # 1
        <5>1. i - 1 \in 1..n /\ i - 1 < j - 1 /\ g[i] = f[i - 1]
          BY <3>3, <3>6, <4>3
        <5> QED
          BY <3>4, <4>1, <5>1
      <4> QED
        BY <4>2, <4>3
    <3>7. Sorts(g, T)
      BY <3>3, <3>5, <3>6
    <3> QED
      BY <2>2, <3>7
  <2> QED
    BY <2>4, <2>5
<1>2. PICK f : Sorts(f, S)
  BY <1>1
<1> QED
  BY <1>2

----------------------------------------------------------------------------
(* What the sum over a set is: the recursion that defines it takes the     *)
(* elements in a fixed order, which does not matter.                       *)

\* The sum of the weights w of the elements of S.
SumOver(w, S) == MapThenSumSet(LAMBDA x : w[x], S)

\* The element that is taken first.
First(T) == CHOOSE x \in T : TRUE

\* The equation that defines the sum over the subsets of S.
SumStep(w, S, f) ==
    [T \in SUBSET S |-> IF T = {} THEN 0 ELSE w[First(T)] + f[T \ {First(T)}]]

Sums(w, S, f) == f = SumStep(w, S, f)

LEMMA SumIsChosen ==
    ASSUME NEW w, NEW S
    PROVE  SumOver(w, S) = (CHOOSE f : Sums(w, S, f))[S]
  BY DEF Sums, SumOver, MapThenSumSet, MapThenFoldSet, SumStep, First

LEMMA FirstIsIn ==
    ASSUME NEW T, T # {}
    PROVE  First(T) \in T
  BY DEF First

\* What the equation says of each subset.
LEMMA SumStepAt ==
    ASSUME NEW w, NEW S, NEW f, Sums(w, S, f)
    PROVE  \A T \in SUBSET S : f[T] = IF T = {} THEN 0 ELSE w[First(T)] + f[T \ {First(T)}]
<1>1. \A T \in SUBSET S : f[T] = SumStep(w, S, f)[T]
  BY DEF Sums
<1> QED
  BY <1>1 DEF SumStep

\* The solutions for two sets agree on their common subsets.
LEMMA SumUnique ==
    ASSUME NEW w, NEW S, NEW W, NEW U, IsFiniteSet(U), U \subseteq S, U \subseteq W,
           NEW f, Sums(w, S, f), NEW g, Sums(w, W, g)
    PROVE  f[U] = g[U]
<1>1. \A T \in SUBSET S : f[T] = IF T = {} THEN 0 ELSE w[First(T)] + f[T \ {First(T)}]
  BY SumStepAt
<1>2. \A T \in SUBSET W : g[T] = IF T = {} THEN 0 ELSE w[First(T)] + g[T \ {First(T)}]
  BY SumStepAt
<1> DEFINE Failing == {T \in SUBSET U : f[T] # g[T]}
<1> SUFFICES ASSUME Failing # {} PROVE FALSE
  OBVIOUS
<1>3. PICK T \in Failing : \A V \in Failing : ~(V \subseteq T /\ V # T)
  <2>1. Failing \in SUBSET (SUBSET U)
    OBVIOUS
  <2> HIDE DEF Failing
  <2> QED
    BY <2>1, MinimalSubset
<1>4. T \in SUBSET U /\ f[T] # g[T] /\ T \in SUBSET S /\ T \in SUBSET W
  OBVIOUS
<1>5. /\ f[T] = IF T = {} THEN 0 ELSE w[First(T)] + f[T \ {First(T)}]
      /\ g[T] = IF T = {} THEN 0 ELSE w[First(T)] + g[T \ {First(T)}]
  BY <1>4, <1>1, <1>2
<1>6. T # {}
  BY <1>4, <1>5
<1>7. First(T) \in T
  BY <1>6, FirstIsIn
<1>8. f[T \ {First(T)}] = g[T \ {First(T)}]
  <2>1. T \ {First(T)} \in SUBSET U /\ T \ {First(T)} \subseteq T /\ T \ {First(T)} # T
    BY <1>4, <1>7
  <2> QED
    BY <1>3, <2>1
<1> QED
  BY <1>4, <1>5, <1>6, <1>8

\* There is a solution for every finite set, and SumOver is its value.
LEMMA SumOfSolution ==
    ASSUME NEW w, NEW S, IsFiniteSet(S), NEW f, Sums(w, S, f), NEW U \in SUBSET S
    PROVE  SumOver(w, U) = f[U]
<1> DEFINE g == [T \in SUBSET U |-> f[T]]
           chosen == CHOOSE h : Sums(w, U, h)
           Solves(h) == Sums(w, U, h)
<1>1. Solves(g)
  <2>1. ASSUME NEW T \in SUBSET U
        PROVE  g[T] = IF T = {} THEN 0 ELSE w[First(T)] + g[T \ {First(T)}]
    <3>1. f[T] = IF T = {} THEN 0 ELSE w[First(T)] + f[T \ {First(T)}]
      <4>1. T \in SUBSET S
        OBVIOUS
      <4> HIDE DEF g, chosen
      <4> QED
        BY <4>1, SumStepAt
    <3>2. T \ {First(T)} \in SUBSET U
      OBVIOUS
    <3> QED
      BY <3>1, <3>2
  <2>2. g = [T \in SUBSET U |-> g[T]]
    OBVIOUS
  <2> HIDE DEF g
  <2> QED
    BY <2>1, <2>2 DEF Sums, SumStep
<1>2. chosen = CHOOSE h : Solves(h)
  OBVIOUS
<1> HIDE DEF chosen, Solves, g
<1>3. Solves(chosen)
  BY <1>1, <1>2
<1>4. IsFiniteSet(U)
  BY FS_Subset
<1>5. chosen[U] = f[U]
  <2>1. Sums(w, U, chosen)
    BY <1>3 DEF Solves
  <2> QED
    BY <1>4, <2>1, SumUnique
<1> QED
  BY <1>5, SumIsChosen DEF chosen

LEMMA SumSolvable ==
    ASSUME NEW w, NEW S, IsFiniteSet(S)
    PROVE  \E f : Sums(w, S, f)
<1> DEFINE Failing == {T \in SUBSET S : ~ \E f : Sums(w, T, f)}
<1> SUFFICES ASSUME Failing # {} PROVE FALSE
  OBVIOUS
<1>1. PICK T \in Failing : \A V \in Failing : ~(V \subseteq T /\ V # T)
  <2>1. Failing \in SUBSET (SUBSET S)
    OBVIOUS
  <2> HIDE DEF Failing
  <2> QED
    BY <2>1, MinimalSubset
<1> DEFINE g == [V \in SUBSET T |->
                    IF V = {} THEN 0 ELSE w[First(V)] + SumOver(w, V \ {First(V)})]
<1>2. ASSUME NEW V \in SUBSET T, V # T
      PROVE  SumOver(w, V) = g[V]
  <2>1. PICK f : Sums(w, V, f)
    BY <1>1, <1>2
  <2>2. IsFiniteSet(V)
    BY FS_Subset
  <2>3. SumOver(w, V) = f[V] /\ SumOver(w, V \ {First(V)}) = f[V \ {First(V)}]
    <3> HIDE DEF Failing, g
    <3> QED
      BY <2>1, <2>2, SumOfSolution
  <2>4. f[V] = IF V = {} THEN 0 ELSE w[First(V)] + f[V \ {First(V)}]
    <3> HIDE DEF Failing, g
    <3>1. \A W \in SUBSET V : f[W] = IF W = {} THEN 0 ELSE w[First(W)] + f[W \ {First(W)}]
      BY <2>1, SumStepAt
    <3> QED
      BY <3>1
  <2> QED
    BY <2>3, <2>4
<1>3. ASSUME NEW V \in SUBSET T
      PROVE  g[V] = IF V = {} THEN 0 ELSE w[First(V)] + g[V \ {First(V)}]
  <2>1. CASE V = {}
    BY <2>1
  <2>2. CASE V # {}
    <3>1. First(V) \in V
      BY <2>2, FirstIsIn
    <3>2. V \ {First(V)} \in SUBSET T /\ V \ {First(V)} # T
      BY <3>1
    <3>3. SumOver(w, V \ {First(V)}) = g[V \ {First(V)}]
      <4> HIDE DEF Failing, g
      <4> QED
        BY <1>2, <3>2
    <3>4. g[V] = w[First(V)] + SumOver(w, V \ {First(V)})
      BY <2>2
    <3> HIDE DEF g
    <3> QED
      BY <2>2, <3>3, <3>4
  <2> QED
    BY <2>1, <2>2
<1>4. g = [V \in SUBSET T |-> g[V]]
  OBVIOUS
<1> HIDE DEF g
<1>5. Sums(w, T, g)
  BY <1>3, <1>4 DEF Sums, SumStep
<1> QED
  BY <1>1, <1>5

\* The recursion, of SumOver itself.
LEMMA SumOverFirst ==
    ASSUME NEW w, NEW S, IsFiniteSet(S)
    PROVE  SumOver(w, S) = IF S = {} THEN 0 ELSE w[First(S)] + SumOver(w, S \ {First(S)})
<1>1. PICK f : Sums(w, S, f)
  BY SumSolvable
<1>2. S \in SUBSET S /\ S \ {First(S)} \in SUBSET S
  OBVIOUS
<1>3. SumOver(w, S) = f[S] /\ SumOver(w, S \ {First(S)}) = f[S \ {First(S)}]
  BY <1>1, <1>2, SumOfSolution
<1>4. \A T \in SUBSET S : f[T] = IF T = {} THEN 0 ELSE w[First(T)] + f[T \ {First(T)}]
  BY <1>1, SumStepAt
<1> QED
  BY <1>2, <1>3, <1>4

LEMMA SumOverEmpty == \A w : SumOver(w, {}) = 0
  BY FS_EmptySet, SumOverFirst

\* A sum of naturals is one.
LEMMA SumOverType ==
    ASSUME NEW w, NEW S, IsFiniteSet(S), \A z \in S : w[z] \in Nat
    PROVE  SumOver(w, S) \in Nat
<1> DEFINE Failing == {T \in SUBSET S : SumOver(w, T) \notin Nat}
<1> SUFFICES ASSUME Failing # {} PROVE FALSE
  OBVIOUS
<1>1. PICK T \in Failing : \A V \in Failing : ~(V \subseteq T /\ V # T)
  <2>1. Failing \in SUBSET (SUBSET S)
    OBVIOUS
  <2> HIDE DEF Failing
  <2> QED
    BY <2>1, MinimalSubset
<1>2. T \in SUBSET S /\ SumOver(w, T) \notin Nat
  OBVIOUS
<1>3. IsFiniteSet(T)
  BY <1>2, FS_Subset
<1>4. SumOver(w, T) = IF T = {} THEN 0 ELSE w[First(T)] + SumOver(w, T \ {First(T)})
  BY <1>3, SumOverFirst
<1>5. T # {}
  BY <1>2, <1>4
<1>6. First(T) \in T /\ w[First(T)] \in Nat
  BY <1>2, <1>5, FirstIsIn
<1>7. T \ {First(T)} \in SUBSET S /\ T \ {First(T)} \subseteq T /\ T \ {First(T)} # T
  BY <1>2, <1>6
<1>8. SumOver(w, T \ {First(T)}) \in Nat
  BY <1>1, <1>7
<1> QED
  BY <1>2, <1>4, <1>5, <1>6, <1>8

\* Any element may be taken first.
LEMMA SumOverRemove ==
    ASSUME NEW w, NEW S, IsFiniteSet(S), \A z \in S : w[z] \in Nat, NEW x \in S
    PROVE  SumOver(w, S) = w[x] + SumOver(w, S \ {x})
<1> DEFINE Failing == {T \in SUBSET S : \E y \in T : SumOver(w, T) # w[y] + SumOver(w, T \ {y})}
<1> SUFFICES ASSUME Failing # {} PROVE FALSE
  OBVIOUS
<1>1. PICK T \in Failing : \A V \in Failing : ~(V \subseteq T /\ V # T)
  <2>1. Failing \in SUBSET (SUBSET S)
    OBVIOUS
  <2> HIDE DEF Failing
  <2> QED
    BY <2>1, MinimalSubset
<1>2. PICK y \in T : SumOver(w, T) # w[y] + SumOver(w, T \ {y})
  OBVIOUS
<1> DEFINE c == First(T)
<1>3. T \in SUBSET S /\ c \in T
  BY <1>2, FirstIsIn
<1>4. \A U \in SUBSET T : IsFiniteSet(U) /\ SumOver(w, U) \in Nat
  <2> SUFFICES ASSUME NEW U \in SUBSET T PROVE IsFiniteSet(U) /\ SumOver(w, U) \in Nat
    OBVIOUS
  <2>1. U \in SUBSET S /\ \A z \in U : w[z] \in Nat
    BY <1>3
  <2> HIDE DEF Failing
  <2>2. IsFiniteSet(U)
    BY <2>1, FS_Subset
  <2> QED
    BY <2>1, <2>2, SumOverType
<1>5. \A U \in SUBSET T : \A z \in U : U # T =>
         SumOver(w, U) = w[z] + SumOver(w, U \ {z})
  BY <1>1, <1>3
<1>6. T # {} /\ w[c] \in Nat /\ w[y] \in Nat
  BY <1>3
<1> HIDE DEF c, Failing
<1>7. SumOver(w, T) = w[c] + SumOver(w, T \ {c})
  <2>1. IsFiniteSet(T)
    BY <1>4
  <2> QED
    BY <1>6, <2>1, SumOverFirst DEF c
<1>8. y # c
  BY <1>2, <1>7
<1>9. SumOver(w, T \ {c}) = w[y] + SumOver(w, (T \ {c}) \ {y})
  <2>1. T \ {c} \in SUBSET T /\ T \ {c} # T /\ y \in T \ {c}
    BY <1>3, <1>8
  <2> QED
    BY <1>5, <2>1
<1>10. SumOver(w, T \ {y}) = w[c] + SumOver(w, (T \ {c}) \ {y})
  <2>1. T \ {y} \in SUBSET T /\ T \ {y} # T /\ c \in T \ {y}
    BY <1>3, <1>8
  <2>2. (T \ {y}) \ {c} = (T \ {c}) \ {y}
    OBVIOUS
  <2> QED
    BY <1>5, <2>1, <2>2
<1>11. SumOver(w, (T \ {c}) \ {y}) \in Nat
  <2>1. (T \ {c}) \ {y} \in SUBSET T
    OBVIOUS
  <2> QED
    BY <1>4, <2>1
<1> QED
  BY <1>2, <1>6, <1>7, <1>9, <1>10, <1>11

\* The elements of a part and the rest make up the whole.
LEMMA SumOverParts ==
    ASSUME NEW w, NEW S, IsFiniteSet(S), \A z \in S : w[z] \in Nat, NEW P \in SUBSET S
    PROVE  SumOver(w, S) = SumOver(w, S \ P) + SumOver(w, P)
<1> DEFINE Failing == {T \in SUBSET P : SumOver(w, S) # SumOver(w, S \ T) + SumOver(w, T)}
<1> SUFFICES ASSUME Failing # {} PROVE FALSE
  OBVIOUS
<1>0. IsFiniteSet(P)
  BY FS_Subset
<1>1. PICK T \in Failing : \A V \in Failing : ~(V \subseteq T /\ V # T)
  <2>1. Failing \in SUBSET (SUBSET P)
    OBVIOUS
  <2> HIDE DEF Failing
  <2> QED
    BY <1>0, <2>1, MinimalSubset
<1>2. T \in SUBSET P /\ SumOver(w, S) # SumOver(w, S \ T) + SumOver(w, T)
  OBVIOUS
<1>3. \A U \in SUBSET S : IsFiniteSet(U) /\ SumOver(w, U) \in Nat
  <2> SUFFICES ASSUME NEW U \in SUBSET S PROVE IsFiniteSet(U) /\ SumOver(w, U) \in Nat
    OBVIOUS
  <2>1. \A z \in U : w[z] \in Nat
    OBVIOUS
  <2> HIDE DEF Failing
  <2>2. IsFiniteSet(U)
    BY FS_Subset
  <2> QED
    BY <2>1, <2>2, SumOverType
<1>4. T # {}
  <2>1. SumOver(w, {}) = 0
    BY SumOverEmpty
  <2>2. SumOver(w, S) \in Nat /\ S \ {} = S
    BY <1>3
  <2> HIDE DEF Failing
  <2> QED
    BY <1>2, <2>1, <2>2
<1>5. PICK x : x \in T
  BY <1>4
<1>6. T \ {x} \in SUBSET P /\ T \ {x} # T /\ T \ {x} \subseteq T
  BY <1>2, <1>5
<1>7. SumOver(w, S) = SumOver(w, S \ (T \ {x})) + SumOver(w, T \ {x})
  BY <1>1, <1>6
<1> HIDE DEF Failing
<1>8. SumOver(w, T) = w[x] + SumOver(w, T \ {x})
  <2>1. (\A z \in T : w[z] \in Nat) /\ IsFiniteSet(T)
    BY <1>2, <1>3
  <2> QED
    BY <1>5, <2>1, SumOverRemove
<1>9. SumOver(w, S \ (T \ {x})) = w[x] + SumOver(w, S \ T)
  <2>1. /\ \A z \in S \ (T \ {x}) : w[z] \in Nat
        /\ IsFiniteSet(S \ (T \ {x}))
        /\ x \in S \ (T \ {x})
    BY <1>2, <1>3, <1>5
  <2>2. (S \ (T \ {x})) \ {x} = S \ T
    BY <1>5
  <2> QED
    BY <2>1, <2>2, SumOverRemove
<1>10. /\ w[x] \in Nat /\ SumOver(w, S \ T) \in Nat /\ SumOver(w, T \ {x}) \in Nat
  <2>1. x \in S /\ S \ T \in SUBSET S /\ T \ {x} \in SUBSET S
    BY <1>2, <1>5
  <2> QED
    BY <1>3, <2>1
<1> QED
  BY <1>2, <1>7, <1>8, <1>9, <1>10

----------------------------------------------------------------------------
(* The recursion of FindLoop.                                              *)

\* The requirements that GPU i could serve.
Servable(gpus, available, requirements, i) ==
    {k \in 1..Len(requirements) : Satisfies(gpus[i], available[i], requirements[k])}

\* What has been taken after the first k requirements: each GPU that serves
\* one of them, by the first that it serves.
TakenBy(gpus, available, requirements, k) ==
    [i \in {j \in DOMAIN gpus :
               \E l \in 1..k : l \in Servable(gpus, available, requirements, j)} |->
        Min(Servable(gpus, available, requirements, i))]

\* The equation that defines taken in FindLoop.
TakenStep(gpus, available, requirements, f) ==
    [k \in 0..Len(requirements) |->
        IF k = 0 THEN <<>> ELSE TakeFor(k, f[k - 1], gpus, available, requirements)]

\* The minimum of a nonempty set of naturals is its least element.
LEMMA MinOfNaturals ==
    ASSUME NEW S \in SUBSET Nat, S # {}
    PROVE  Min(S) \in S /\ \A y \in S : Min(S) <= y
  BY LeastElement DEF Min

LEMMA TakenExtends ==
    ASSUME NEW gpus, NEW available, NEW requirements, Len(requirements) \in Nat,
           NEW k \in 1..Len(requirements)
    PROVE  TakenBy(gpus, available, requirements, k) =
              TakeFor(k, TakenBy(gpus, available, requirements, k - 1), gpus, available, requirements)
<1> DEFINE Serves(i) == Servable(gpus, available, requirements, i)
           D(m) == {j \in DOMAIN gpus : \E l \in 1..m : l \in Serves(j)}
           New == {j \in DOMAIN gpus \ D(k - 1) :
                         Satisfies(gpus[j], available[j], requirements[k])}
           T(m) == [i \in D(m) |-> Min(Serves(i))]
<1>1. \A i : Serves(i) \subseteq 1..Len(requirements)
  BY DEF Servable
<1>2. \A j \in DOMAIN gpus :
         k \in Serves(j) <=> Satisfies(gpus[j], available[j], requirements[k])
  BY DEF Servable
<1>3. New = {j \in DOMAIN gpus \ D(k - 1) : k \in Serves(j)}
  BY <1>2
<1> HIDE DEF Serves
<1>4. D(k) = D(k - 1) \cup New
  <2>1. \A l : l \in 1..k <=> (l \in 1..(k - 1) \/ l = k)
    OBVIOUS
  <2> QED
    BY <1>3, <2>1
<1>5. ASSUME NEW i \in New PROVE Min(Serves(i)) = k
  <2>1. k \in Serves(i) /\ Serves(i) \in SUBSET Nat
    BY <1>1, <1>3, <1>5
  <2>2. /\ Min(Serves(i)) \in Serves(i)
        /\ \A y \in Serves(i) : Min(Serves(i)) <= y
    BY <2>1, MinOfNaturals
  <2>3. \A l \in 1..(k - 1) : l \notin Serves(i)
    BY <1>3, <1>5
  <2>4. Min(Serves(i)) <= k /\ Min(Serves(i)) \in 1..Len(requirements)
    BY <1>1, <2>1, <2>2
  <2> QED
    BY <2>2, <2>3, <2>4
<1> HIDE DEF D, New
<1>6. T(k) = [i \in D(k - 1) \cup New |-> IF i \in New THEN k ELSE T(k - 1)[i]]
  BY <1>4, <1>5
<1>7. \A m : TakenBy(gpus, available, requirements, m) = T(m)
  BY DEF TakenBy, D, Serves
<1>8. DOMAIN T(k - 1) = D(k - 1)
  OBVIOUS
<1> HIDE DEF T
<1> QED
  BY <1>6, <1>7, <1>8 DEF New, TakeFor

\* The recursion has one solution.
LEMMA TakenSolves ==
    ASSUME NEW gpus, NEW available, NEW requirements, Len(requirements) \in Nat,
           NEW f, f = TakenStep(gpus, available, requirements, f)
    PROVE  \A k \in 0..Len(requirements) : f[k] = TakenBy(gpus, available, requirements, k)
<1> DEFINE Good == {k \in Nat : k \in 0..Len(requirements) =>
                                   f[k] = TakenBy(gpus, available, requirements, k)}
<1>1. 0 \in Good
  <2>1. f[0] = <<>>
    BY DEF TakenStep
  <2>2. TakenBy(gpus, available, requirements, 0) = <<>>
    BY DEF TakenBy
  <2> QED
    BY <2>1, <2>2
<1>2. ASSUME NEW k \in Good PROVE k + 1 \in Good
  <2>1. SUFFICES ASSUME k + 1 \in 0..Len(requirements)
                 PROVE  f[k + 1] = TakenBy(gpus, available, requirements, k + 1)
    BY <1>2
  <2>2. k + 1 \in 1..Len(requirements) /\ (k + 1) - 1 = k /\ k \in 0..Len(requirements)
    BY <2>1, <1>2
  <2>3. f[k] = TakenBy(gpus, available, requirements, k)
    BY <1>2, <2>2
  <2>4. f[k + 1] = TakeFor(k + 1, f[k], gpus, available, requirements)
    <3>1. f[k + 1] = TakenStep(gpus, available, requirements, f)[k + 1]
      OBVIOUS
    <3> QED
      BY <2>2, <3>1 DEF TakenStep
  <2>5. TakenBy(gpus, available, requirements, k + 1) =
           TakeFor(k + 1, TakenBy(gpus, available, requirements, (k + 1) - 1),
                   gpus, available, requirements)
    <3> HIDE DEF Good
    <3> QED
      BY <2>2, TakenExtends
  <2> QED
    BY <2>2, <2>3, <2>4, <2>5
<1>3. Good = Nat
  <2>1. Good \in SUBSET Nat
    OBVIOUS
  <2> HIDE DEF Good
  <2> QED
    BY <1>1, <1>2, <2>1, SetInduction
<1> QED
  BY <1>3

\* And TakenBy is that solution.
LEMMA TakenExists ==
    ASSUME NEW gpus, NEW available, NEW requirements, Len(requirements) \in Nat
    PROVE  \E f : f = TakenStep(gpus, available, requirements, f)
<1> DEFINE g == [k \in 0..Len(requirements) |-> TakenBy(gpus, available, requirements, k)]
<1>1. ASSUME NEW k \in 0..Len(requirements)
      PROVE  g[k] = TakenStep(gpus, available, requirements, g)[k]
  <2>1. CASE k = 0
    BY <2>1 DEF TakenBy, TakenStep
  <2>2. CASE k # 0
    <3>1. k \in 1..Len(requirements) /\ k - 1 \in 0..Len(requirements)
      BY <2>2
    <3>2. TakenBy(gpus, available, requirements, k) =
             TakeFor(k, TakenBy(gpus, available, requirements, k - 1), gpus, available, requirements)
      BY <3>1, TakenExtends
    <3>3. g[k - 1] = TakenBy(gpus, available, requirements, k - 1)
      BY <3>1
    <3>4. g[k] = TakenBy(gpus, available, requirements, k)
      OBVIOUS
    <3> HIDE DEF g
    <3> QED
      BY <2>2, <3>1, <3>2, <3>3, <3>4 DEF TakenStep
  <2> QED
    BY <2>1, <2>2
<1>2. g = TakenStep(gpus, available, requirements, g)
  <2> HIDE DEF g
  <2>1. ASSUME NEW k \in 0..Len(requirements)
        PROVE  g[k] = (IF k = 0 THEN <<>> ELSE TakeFor(k, g[k - 1], gpus, available, requirements))
    BY <1>1 DEF TakenStep
  <2>2. g = [k \in 0..Len(requirements) |-> g[k]]
    BY DEF g
  <2> QED
    BY <2>1, <2>2 DEF TakenStep
<1> QED
  BY <1>2

\* Find's loops (gpu.go) give every GPU that satisfies some requirement to the
\* first requirement it satisfies, whatever the lists: the function defined by
\* recursion over the requirements is this one.
THEOREM FindLoopIsFirstMatch ==
    ASSUME NEW gpus, NEW available, NEW requirements, Len(requirements) \in Nat
    PROVE  FindLoop(gpus, available, requirements) =
              [i \in {j \in DOMAIN gpus : Servable(gpus, available, requirements, j) # {}} |->
                  Min(Servable(gpus, available, requirements, i))]
<1> DEFINE taken == CHOOSE f : f = TakenStep(gpus, available, requirements, f)
           Solves(f) == f = TakenStep(gpus, available, requirements, f)
           n == Len(requirements)
<1>1. FindLoop(gpus, available, requirements) = taken[n]
  BY DEF FindLoop, TakenStep
<1>2. \E f : Solves(f)
  BY TakenExists
<1>3. taken = CHOOSE f : Solves(f)
  OBVIOUS
<1> HIDE DEF taken, Solves
<1>4. Solves(taken)
  BY <1>2, <1>3
<1>5. taken[n] = TakenBy(gpus, available, requirements, n)
  <2>1. taken = TakenStep(gpus, available, requirements, taken)
    BY <1>4 DEF Solves
  <2>2. n \in 0..Len(requirements)
    OBVIOUS
  <2> QED
    BY <2>1, <2>2, TakenSolves
<1>6. \A i : Servable(gpus, available, requirements, i) # {} <=>
              \E l \in 1..n : l \in Servable(gpus, available, requirements, i)
  BY DEF Servable
<1> QED
  BY <1>1, <1>5, <1>6 DEF TakenBy

\* A selection is made of GPUs of the list, each charged what one of the
\* requirements asks and satisfied by the GPU on what it had available.
LEMMA SelectionSatisfies ==
    ASSUME NEW gpus, NEW available, NEW requirements, Len(requirements) \in Nat,
           NEW i \in DOMAIN Selection(gpus, available, requirements)
    PROVE  /\ i \in DOMAIN gpus
           /\ \E k \in 1..Len(requirements) :
                 /\ Selection(gpus, available, requirements)[i] = requirements[k].vram
                 /\ Satisfies(gpus[i], available[i], requirements[k])
<1> DEFINE serves == Servable(gpus, available, requirements, i)
           loop == FindLoop(gpus, available, requirements)
<1>1. loop = [j \in {j \in DOMAIN gpus : Servable(gpus, available, requirements, j) # {}} |->
                 Min(Servable(gpus, available, requirements, j))]
  BY FindLoopIsFirstMatch
<1>2. i \in DOMAIN loop /\ Selection(gpus, available, requirements)[i] = requirements[loop[i]].vram
  BY DEF Selection
<1> HIDE DEF loop
<1>3. i \in DOMAIN gpus /\ serves # {} /\ loop[i] = Min(serves)
  BY <1>1, <1>2
<1>4. serves \in SUBSET Nat
  BY DEF Servable
<1> HIDE DEF serves
<1>5. loop[i] \in serves
  BY <1>3, <1>4, MinOfNaturals
<1>6. loop[i] \in 1..Len(requirements) /\ Satisfies(gpus[i], available[i], requirements[loop[i]])
  BY <1>5 DEF serves, Servable
<1> QED
  BY <1>2, <1>3, <1>6

============================================================================
