-------------------------- MODULE AlgorithmProofs --------------------------
(***************************************************************************)
(* Proofs about the two algorithms that are modelled an iteration at a     *)
(* time: GpuSet.Find selects the same GPUs in every order in which Go may  *)
(* iterate over the map, and the loops of calculatePercentiles, which      *)
(* share their counters, find the nearest rank where it is a whole number. *)
(***************************************************************************)
EXTENDS GpuFind, Percentiles, GpuMatchingProofs

----------------------------------------------------------------------------
(* The selection of Find.                                                  *)

FindTypes ==
    /\ gpus \in GpuLists
    /\ requirements \in RequirementLists
    /\ before \in [DOMAIN gpus -> Nat]
    /\ vramAvailable \in [DOMAIN gpus -> Nat]
    /\ result \in {"running", "found", "error"}
    /\ current \in 1..(Len(requirements) + 1)
    /\ owner = [i \in DOMAIN owner |-> owner[i]]

\* The requirements GPU i could serve, judged on the VRAM Find started from.
Serves(i) == {k \in DOMAIN requirements : Satisfies(gpus[i], before[i], requirements[k])}

\* A GPU is selected or available, and what is unvisited is available.
SetsInv ==
    /\ DOMAIN owner \subseteq DOMAIN gpus
    /\ availableGpus = DOMAIN gpus \ DOMAIN owner
    /\ unvisited \subseteq availableGpus

\* A selected GPU is at the first requirement it satisfies, one that is still
\* available satisfies none of those before the current one, nor the current one
\* if it has been visited.
FirstMatchInv ==
    /\ \A i \in DOMAIN owner : owner[i] \in Serves(i) /\ \A k \in Serves(i) : owner[i] <= k
    /\ \A i \in availableGpus : \A k \in Serves(i) : k >= current /\ (i \notin unvisited => k > current)

\* The set is charged at the end, and only if enough GPUs are selected.
ChargeInv ==
    /\ result = "running" => vramAvailable = before
    /\ result # "running" => current > Len(requirements)
    /\ result = "error" => vramAvailable = before
    /\ result # "running" => (result = "found" <=> Enough)

FindInv == FindTypes /\ SetsInv /\ FirstMatchInv /\ ChargeInv

\* The lists of one call, and what a GPU could serve.
LEMMA ListFacts ==
    ASSUME FindTypes
    PROVE  /\ Len(requirements) \in Nat
           /\ DOMAIN requirements = 1..Len(requirements)
           /\ \A k \in 1..Len(requirements) : requirements[k].vram \in Nat
           /\ \A i : Serves(i) \in SUBSET (1..Len(requirements))
<1> DEFINE Requirement == [vram : Nat, pciBus : STRING]
<1>1. requirements \in Seq(Requirement)
  BY FindAssumption DEF FindTypes
<1> HIDE DEF Requirement
<1>2. Len(requirements) \in Nat /\ DOMAIN requirements = 1..Len(requirements)
  BY <1>1
<1>3. \A k \in 1..Len(requirements) : requirements[k] \in Requirement
  BY <1>1
<1>4. \A i : Serves(i) \in SUBSET (1..Len(requirements))
  BY <1>2 DEF Serves
<1> QED
  BY <1>2, <1>3, <1>4 DEF Requirement

LEMMA FindStarts == FindInit => FindInv
<1> SUFFICES ASSUME FindInit PROVE FindInv
  OBVIOUS
<1> USE DEF FindInit
<1>1. before \in [DOMAIN gpus -> Nat] /\ requirements \in Seq([vram : Nat, pciBus : STRING])
  BY FindAssumption
<1>2. DOMAIN owner = {} /\ owner = [i \in DOMAIN owner |-> owner[i]]
  OBVIOUS
<1>3. FindTypes
  BY <1>1, <1>2 DEF FindTypes
<1>4. SetsInv
  BY <1>2 DEF SetsInv
<1>5. FirstMatchInv
  BY <1>2, <1>3, ListFacts DEF FirstMatchInv
<1> QED
  BY <1>3, <1>4, <1>5 DEF FindInv, ChargeInv

LEMMA SelectGpuStep ==
    ASSUME FindInv, NEW i \in DOMAIN gpus, SelectGpu(i)
    PROVE  FindInv'
<1> USE DEF FindInv
<1>1. /\ result = "running" /\ current \in 1..Len(requirements) /\ i \in unvisited
      /\ Satisfies(gpus[i], vramAvailable[i], requirements[current])
      /\ availableGpus' = availableGpus \ {i}
      /\ unvisited' = unvisited \ {i}
      /\ UNCHANGED <<gpus, requirements, before, vramAvailable, current, result>>
  BY ListFacts DEF SelectGpu, Trying, ToVisit, inputs, FindTypes
<1>2. owner' = [j \in DOMAIN owner \cup {i} |-> IF j = i THEN current ELSE owner[j]]
  BY DEF SelectGpu
<1>3. DOMAIN owner' = DOMAIN owner \cup {i} /\ owner' = [j \in DOMAIN owner' |-> owner'[j]]
  BY <1>2
<1>4. /\ owner'[i] = current
      /\ \A j \in DOMAIN owner : j # i => owner'[j] = owner[j]
  BY <1>2
<1>5. i \in availableGpus /\ i \notin DOMAIN owner
  BY <1>1 DEF SetsInv
<1>6. current \in Serves(i) /\ \A k \in Serves(i) : current <= k
  <2>1. current \in Serves(i)
    BY <1>1, ListFacts DEF Serves, ChargeInv
  <2>2. \A k \in Serves(i) : k >= current
    BY <1>5 DEF FirstMatchInv
  <2> QED
    BY <2>1, <2>2
<1>7. \A j : Serves(j)' = Serves(j)
  BY <1>1 DEF Serves
<1>8. FindTypes'
  BY <1>1, <1>3 DEF FindTypes
<1>9. SetsInv'
  BY <1>1, <1>3 DEF SetsInv
<1>10. FirstMatchInv'
  <2>1. ASSUME NEW j \in DOMAIN owner' PROVE owner'[j] \in Serves(j) /\ \A k \in Serves(j) : owner'[j] <= k
    BY <1>3, <1>4, <1>6, <2>1 DEF FirstMatchInv
  <2>2. ASSUME NEW j \in availableGpus', NEW k \in Serves(j)
        PROVE  k >= current /\ (j \notin unvisited' => k > current)
    BY <1>1, <2>2 DEF FirstMatchInv
  <2> QED
    BY <1>1, <1>7, <2>1, <2>2 DEF FirstMatchInv
<1>11. ChargeInv'
  BY <1>1 DEF ChargeInv
<1> QED
  BY <1>8, <1>9, <1>10, <1>11

LEMMA SkipGpuStep ==
    ASSUME FindInv, NEW i \in DOMAIN gpus, SkipGpu(i)
    PROVE  FindInv'
<1> USE DEF FindInv
<1>1. /\ result = "running" /\ i \in unvisited
      /\ ~Satisfies(gpus[i], vramAvailable[i], requirements[current])
      /\ unvisited' = unvisited \ {i}
      /\ UNCHANGED <<gpus, requirements, before, vramAvailable, availableGpus, current, owner, result>>
  BY DEF SkipGpu, Trying, inputs
<1>2. current \notin Serves(i)
  BY <1>1 DEF Serves, ChargeInv
<1>3. \A j : Serves(j)' = Serves(j)
  BY <1>1 DEF Serves
<1>4. FindTypes' /\ SetsInv' /\ ChargeInv'
  BY <1>1 DEF FindTypes, SetsInv, ChargeInv
<1>5. FirstMatchInv'
  <2>1. ASSUME NEW j \in availableGpus, NEW k \in Serves(j)
        PROVE  k >= current /\ (j \notin unvisited' => k > current)
    <3>1. k \in Nat /\ current \in Nat /\ k >= current
      BY ListFacts DEF FirstMatchInv, FindTypes
    <3> QED
      BY <1>1, <1>2, <2>1, <3>1 DEF FirstMatchInv
  <2> QED
    BY <1>1, <1>3, <2>1 DEF FirstMatchInv
<1> QED
  BY <1>4, <1>5

LEMMA NextRequirementStep ==
    ASSUME FindInv, NextRequirement
    PROVE  FindInv'
<1> USE DEF FindInv
<1>1. /\ current <= Len(requirements) /\ unvisited = {} /\ result = "running"
      /\ current' = current + 1
      /\ unvisited' = availableGpus
      /\ UNCHANGED <<gpus, requirements, before, vramAvailable, availableGpus, owner, result>>
  BY DEF NextRequirement, inputs
<1>2. \A j : Serves(j)' = Serves(j)
  BY <1>1 DEF Serves
<1>3. FindTypes' /\ SetsInv' /\ ChargeInv'
  BY <1>1, ListFacts DEF FindTypes, SetsInv, ChargeInv
<1>4. FirstMatchInv'
  <2>1. ASSUME NEW j \in availableGpus, NEW k \in Serves(j) PROVE k >= current + 1
    BY <1>1, ListFacts DEF FirstMatchInv, FindTypes
  <2> QED
    BY <1>1, <1>2, <2>1 DEF FirstMatchInv
<1> QED
  BY <1>3, <1>4

LEMMA FinishStep ==
    ASSUME FindInv, Finish
    PROVE  FindInv'
<1> USE DEF FindInv
<1>1. /\ current > Len(requirements) /\ vramAvailable = before
      /\ result' = IF Enough THEN "found" ELSE "error"
      /\ vramAvailable' = [i \in DOMAIN gpus |-> Charged(i)]
      /\ UNCHANGED <<gpus, requirements, before, availableGpus, unvisited, current, owner>>
  BY DEF Finish, inputs, ChargeInv
<1>2. \A j : Serves(j)' = Serves(j)
  BY <1>1 DEF Serves
<1>3. ASSUME NEW i \in DOMAIN gpus PROVE Charged(i) \in Nat /\ (~Enough => Charged(i) = before[i])
  <2>1. before[i] \in Nat
    BY DEF FindTypes
  <2>2. CASE ~(Enough /\ i \in DOMAIN owner)
    BY <1>1, <2>1, <2>2 DEF Charged
  <2>3. CASE Enough /\ i \in DOMAIN owner
    <3>1. /\ Charged(i) = before[i] - requirements[owner[i]].vram
          /\ owner[i] \in Serves(i)
      BY <1>1, <2>3 DEF Charged, FirstMatchInv
    <3>2. /\ Satisfies(gpus[i], before[i], requirements[owner[i]])
          /\ requirements[owner[i]].vram \in Nat
      BY <3>1, ListFacts DEF Serves
    <3> QED
      BY <2>1, <2>3, <3>1, <3>2 DEF Satisfies
  <2> QED
    BY <2>2, <2>3
<1>4. vramAvailable' \in [DOMAIN gpus -> Nat]
  BY <1>1, <1>3
<1>5. ~Enough => vramAvailable' = before
  BY <1>1, <1>3 DEF FindTypes
<1>6. FindTypes' /\ SetsInv'
  BY <1>1, <1>4 DEF FindTypes, SetsInv
<1>7. FirstMatchInv'
  BY <1>1, <1>2 DEF FirstMatchInv
<1>8. ChargeInv'
  <2>1. Enough' <=> Enough
    BY <1>1 DEF Enough
  <2> QED
    BY <1>1, <1>5, <2>1 DEF ChargeInv
<1> QED
  BY <1>6, <1>7, <1>8

LEMMA FindStep == FindInv /\ [FindNext]_findVars => FindInv'
<1> SUFFICES ASSUME FindInv, [FindNext]_findVars PROVE FindInv'
  OBVIOUS
<1>1. CASE UNCHANGED findVars
  BY <1>1 DEF findVars, FindInv, FindTypes, SetsInv, FirstMatchInv, ChargeInv, Serves, Enough
<1> QED
  BY <1>1, SelectGpuStep, SkipGpuStep, NextRequirementStep, FinishStep DEF FindNext, Done

LEMMA FindInvariant == FindSpec => []FindInv
  BY FindStarts, FindStep, PTL DEF FindSpec

\* At the end nothing that is available can serve any requirement.
LEMMA SameAtTheEnd == FindInv => OrderDoesNotMatter
<1> SUFFICES ASSUME FindInv, result \in {"found", "error"}
             PROVE  /\ owner = FindLoop(gpus, before, requirements)
                    /\ result = "found" <=> FindSucceeds(gpus, before, requirements)
  BY DEF OrderDoesNotMatter
<1> USE DEF FindInv
<1>1. \A i : Serves(i) \in SUBSET (1..Len(requirements)) /\ Serves(i) \in SUBSET Nat
  BY ListFacts
<1>2. DOMAIN owner = {i \in DOMAIN gpus : Serves(i) # {}}
  <2>1. ASSUME NEW i \in availableGpus PROVE Serves(i) = {}
    <3>1. \A k \in Serves(i) : k >= current /\ k \in 1..Len(requirements)
      BY <1>1 DEF FirstMatchInv
    <3> QED
      BY <3>1, ListFacts DEF ChargeInv, FindTypes
  <2> QED
    BY <2>1 DEF SetsInv, FirstMatchInv
<1>3. ASSUME NEW i \in DOMAIN owner PROVE owner[i] = Min(Serves(i))
  <2>1. /\ Min(Serves(i)) \in Serves(i)
        /\ \A k \in Serves(i) : Min(Serves(i)) <= k
    BY <1>1, <1>2, MinOfNaturals
  <2>2. owner[i] \in Serves(i) /\ \A k \in Serves(i) : owner[i] <= k
    BY DEF FirstMatchInv
  <2>3. owner[i] <= Min(Serves(i)) /\ Min(Serves(i)) <= owner[i] /\ owner[i] \in Nat /\ Min(Serves(i)) \in Nat
    BY <1>1, <2>1, <2>2
  <2> QED
    BY <2>3
<1>4. owner = FindLoop(gpus, before, requirements)
  <2>1. \A i : Serves(i) = Servable(gpus, before, requirements, i)
    BY ListFacts DEF Serves, Servable
  <2>2. FindLoop(gpus, before, requirements) =
            [i \in {j \in DOMAIN gpus : Serves(j) # {}} |-> Min(Serves(i))]
    <3>1. Len(requirements) \in Nat
      BY ListFacts
    <3>2. FindLoop(gpus, before, requirements) =
              [i \in {j \in DOMAIN gpus : Servable(gpus, before, requirements, j) # {}} |->
                  Min(Servable(gpus, before, requirements, i))]
      BY <3>1, FindLoopIsFirstMatch
    <3> QED
      BY <2>1, <3>2, Zenon
  <2>3. owner = [i \in DOMAIN owner |-> owner[i]]
    BY DEF FindTypes
  <2> QED
    BY <1>2, <1>3, <2>2, <2>3
<1>5. result = "found" <=> Enough
  BY DEF ChargeInv
<1> QED
  BY <1>4, <1>5 DEF FindSucceeds, Enough

\* Whatever the order of the map, Find has the same outcome (gpu.go): for any GPUs
\* and any number of requirements, that of the operators of GpuMatching.
THEOREM OrderDoesNotMatterHolds == FindSpec => []OrderDoesNotMatter
  BY FindInvariant, SameAtTheEnd, PTL

\* No vramAvailable, a uint64, is driven below zero, and an error leaves the set
\* as it was.
THEOREM ChargesOnlyWhatIsThereHolds == FindSpec => []ChargesOnlyWhatIsThere
<1>1. FindInv => ChargesOnlyWhatIsThere
  BY DEF FindInv, FindTypes, ChargeInv, ChargesOnlyWhatIsThere
<1> QED
  BY <1>1, FindInvariant, PTL

----------------------------------------------------------------------------
(* The percentiles of calculatePercentiles.                                *)

\* A strictly ascending list of as many elements as the set has leaves none out.
LEMMA SortedKeysFacts ==
    ASSUME counts \in Samples
    PROVE  /\ Len(sortedKeys) \in Nat \ {0}
           /\ DOMAIN sortedKeys = 1..Len(sortedKeys)
           /\ \A i \in 1..Len(sortedKeys) : sortedKeys[i] \in DOMAIN counts
           /\ \A i, j \in 1..Len(sortedKeys) : i < j => sortedKeys[i] < sortedKeys[j]
           /\ \A k \in DOMAIN counts : \E i \in 1..Len(sortedKeys) : sortedKeys[i] = k
           /\ sortedKeys \in Seq(DOMAIN counts)
<1> DEFINE D == DOMAIN counts
           n == Cardinality(D)
           q == sortedKeys
           Sorted(f) == \A i, j \in DOMAIN f : i < j => f[i] < f[j]
<1>1. D \in SUBSET Nat /\ IsFiniteSet(D) /\ D # {}
  BY PercentilesAssumption
<1>2. n \in Nat \ {0}
  BY <1>1, FS_CardinalityType, FS_EmptySet
<1>3. \E f \in [1..n -> D] : Sorted(f)
  BY <1>1, SortedExists
<1>4. q = CHOOSE f \in [1..n -> D] : Sorted(f)
  BY DEF sortedKeys
<1> HIDE DEF n, q, D, Sorted
<1>5. q \in [1..n -> D] /\ Sorted(q)
  BY <1>3, <1>4
<1>6. \A i, j \in 1..n : i < j => q[i] < q[j]
  BY <1>5 DEF Sorted
<1>7. q \in Seq(D) /\ Len(q) = n
  BY <1>2, <1>5
<1>8. \A i, j \in 1..n : q[i] = q[j] => i = j
  <2>1. \A i \in 1..n : q[i] \in Nat
    BY <1>1, <1>5
  <2> QED
    BY <1>2, <1>6, <2>1
<1>9. ASSUME NEW k \in D PROVE \E i \in 1..n : q[i] = k
  <2>1. q \in Injection(1..n, D)
    BY <1>5, <1>8 DEF Injection, IsInjective
  <2>2. IsFiniteSet(1..n) /\ Cardinality(1..n) = n
    BY <1>2, FS_Interval
  <2>3. q \in Surjection(1..n, D)
    BY <1>1, <2>1, <2>2, FS_Injection DEF n
  <2> QED
    BY <2>3 DEF Surjection
<1> QED
  BY <1>2, <1>5, <1>6, <1>7, <1>9 DEF q, D

\* The keys the loops have passed after n iterations.
Passed(n) == {sortedKeys[i] : i \in 1..n}

LEMMA PassedAreTheLeast ==
    ASSUME counts \in Samples, NEW n \in 1..Len(sortedKeys)
    PROVE  /\ Passed(n) = {k \in DOMAIN counts : k <= sortedKeys[n]}
           /\ Passed(n) = Passed(n - 1) \cup {sortedKeys[n]}
           /\ sortedKeys[n] \notin Passed(n - 1)
           /\ AtMost(sortedKeys[n]) = SumOver(counts, Passed(n))
<1> DEFINE q == sortedKeys
<1>1. /\ Len(q) \in Nat /\ n \in 1..Len(q)
      /\ \A i \in 1..Len(q) : q[i] \in DOMAIN counts /\ q[i] \in Nat
      /\ \A i, j \in 1..Len(q) : i < j => q[i] < q[j]
      /\ \A k \in DOMAIN counts : \E i \in 1..Len(q) : q[i] = k
  BY SortedKeysFacts, PercentilesAssumption
<1> HIDE DEF q
<1>2. {q[i] : i \in 1..n} = {k \in DOMAIN counts : k <= q[n]}
  <2>1. ASSUME NEW i \in 1..n PROVE q[i] \in DOMAIN counts /\ q[i] <= q[n]
    <3>1. i \in 1..Len(q) /\ (i < n \/ i = n)
      BY <1>1
    <3>2. i < n => q[i] < q[n]
      BY <1>1, <3>1
    <3>3. q[i] \in DOMAIN counts /\ q[i] \in Nat /\ q[n] \in Nat
      BY <1>1, <3>1
    <3> QED
      BY <3>1, <3>2, <3>3
  <2>2. ASSUME NEW k \in DOMAIN counts, k <= q[n] PROVE \E i \in 1..n : q[i] = k
    <3>1. PICK i \in 1..Len(q) : q[i] = k
      BY <1>1
    <3>2. i <= n
      <4>1. q[i] \in Nat /\ q[n] \in Nat /\ q[i] <= q[n]
        BY <1>1, <2>2, <3>1
      <4>2. n < i => q[n] < q[i]
        BY <1>1, <3>1
      <4>3. i \in Int /\ n \in Int
        BY <1>1
      <4> QED
        BY <4>1, <4>2, <4>3
    <3> QED
      BY <3>1, <3>2
  <2> QED
    BY <2>1, <2>2
<1>3. {q[i] : i \in 1..n} = {q[i] : i \in 1..(n - 1)} \cup {q[n]}
  <2>1. 1..n = (1..(n - 1)) \cup {n}
    BY <1>1
  <2> QED
    BY <2>1
<1>4. q[n] \notin {q[i] : i \in 1..(n - 1)}
  <2> SUFFICES ASSUME NEW i \in 1..(n - 1) PROVE q[i] # q[n]
    OBVIOUS
  <2>1. i \in 1..Len(q) /\ i < n
    BY <1>1
  <2>2. q[i] < q[n] /\ q[i] \in Nat /\ q[n] \in Nat
    BY <1>1, <2>1
  <2> QED
    BY <2>2
<1>5. AtMost(q[n]) = SumOver(counts, {k \in DOMAIN counts : k <= q[n]})
  BY DEF AtMost, SumOver
<1> QED
  BY <1>2, <1>3, <1>4, <1>5, Zenon DEF Passed, q

\* Sums of the counts of some of the keys.
LEMMA CountsAdd ==
    ASSUME counts \in Samples, NEW S \in SUBSET DOMAIN counts
    PROVE  /\ SumOver(counts, S) \in Nat
           /\ \A T \in SUBSET S : SumOver(counts, T) <= SumOver(counts, S)
           /\ \A k \in DOMAIN counts \ S :
                 SumOver(counts, S \cup {k}) = SumOver(counts, S) + counts[k]
           /\ Total = SumOver(counts, DOMAIN counts)
<1>1. IsFiniteSet(DOMAIN counts) /\ \A k \in DOMAIN counts : counts[k] \in Nat
  BY PercentilesAssumption
<1>2. \A T \in SUBSET DOMAIN counts : IsFiniteSet(T) /\ SumOver(counts, T) \in Nat
  <2> SUFFICES ASSUME NEW T \in SUBSET DOMAIN counts
               PROVE  IsFiniteSet(T) /\ SumOver(counts, T) \in Nat
    OBVIOUS
  <2>1. IsFiniteSet(T)
    BY <1>1, FS_Subset
  <2> QED
    BY <1>1, <2>1, SumOverType
<1>3. ASSUME NEW T \in SUBSET S PROVE SumOver(counts, T) <= SumOver(counts, S)
  <2>1. SumOver(counts, S) = SumOver(counts, S \ T) + SumOver(counts, T)
    BY <1>1, <1>2, SumOverParts
  <2>2. SumOver(counts, S \ T) \in Nat /\ SumOver(counts, T) \in Nat /\ SumOver(counts, S) \in Nat
    BY <1>2
  <2> QED
    BY <2>1, <2>2
<1>4. ASSUME NEW k \in DOMAIN counts \ S
      PROVE  SumOver(counts, S \cup {k}) = SumOver(counts, S) + counts[k]
  <2>1. /\ S \cup {k} \in SUBSET DOMAIN counts /\ k \in S \cup {k} /\ (S \cup {k}) \ {k} = S
        /\ \A z \in S \cup {k} : counts[z] \in Nat
    BY <1>1
  <2>2. SumOver(counts, S \cup {k}) = counts[k] + SumOver(counts, (S \cup {k}) \ {k})
    BY <1>2, <2>1, SumOverRemove
  <2>3. SumOver(counts, S) \in Nat /\ counts[k] \in Nat
    BY <1>1, <1>2
  <2> QED
    BY <2>1, <2>2, <2>3
<1>5. Total = SumOver(counts, DOMAIN counts)
  BY DEF Total, SumOver
<1> QED
  BY <1>2, <1>3, <1>4, <1>5

\* The ranks are in the order of the loops, and none is past the last GPU.
LEMMA RanksAscend ==
    ASSUME counts \in Samples
    PROVE  /\ \A i \in 1..5 : Rank(Percents[i]) \in Nat /\ Rank(Percents[i]) <= Total
           /\ \A i, j \in 1..5 : i <= j => Rank(Percents[i]) <= Rank(Percents[j])
<1>1. Total \in Nat
  BY CountsAdd
<1> DEFINE n == Total
           r(p) == (n * p) \div 100
<1> HIDE DEF n
<1>2. /\ r(10) \in Nat /\ r(25) \in Nat /\ r(50) \in Nat /\ r(75) \in Nat /\ r(90) \in Nat
      /\ r(10) <= r(25) /\ r(25) <= r(50) /\ r(50) <= r(75) /\ r(75) <= r(90) /\ r(90) <= n
  BY <1>1 DEF n
<1> HIDE DEF r
<1>3. /\ Percents[1] = 10 /\ Percents[2] = 25 /\ Percents[3] = 50
      /\ Percents[4] = 75 /\ Percents[5] = 90
  BY DEF Percents
<1>4. \A p : Rank(p) = r(p)
  BY DEF Rank, r, n
<1>5. n \in Nat
  BY <1>1 DEF n
<1>6. \A i \in 1..5 : i = 1 \/ i = 2 \/ i = 3 \/ i = 4 \/ i = 5
  OBVIOUS
<1> QED
  BY <1>2, <1>3, <1>4, <1>5, <1>6 DEF n

\* The counters are those of a single loop: the keys passed and how many GPUs
\* they stand for; the last key was needed for the rank of this loop.
LoopInv ==
    /\ counts \in Samples
    /\ loop \in 1..6
    /\ keysIndex \in 0..Len(sortedKeys)
    /\ index = SumOver(counts, Passed(keysIndex))
    /\ key = IF keysIndex = 0 THEN FirstKey ELSE sortedKeys[keysIndex]
    /\ keysIndex > 0 /\ loop <= 5 => SumOver(counts, Passed(keysIndex - 1)) < Rank(Percents[loop])
    /\ \A i \in 1..5 : i < loop => Percents[i] \in DOMAIN percentile

\* Each percentile is the one a loop of its own would find.
FoundByRank ==
    \A i \in DOMAIN Percents : i < loop =>
        percentile[Percents[i]] =
            IF Rank(Percents[i]) = 0 THEN FirstKey
            ELSE Min({k \in DOMAIN counts : AtMost(k) >= Rank(Percents[i])})

PercentileInv == LoopInv /\ FoundByRank

\* What the counters hold when a loop ends is the percentile by its rank.
LEMMA LoopFindsRank ==
    ASSUME LoopInv, loop \in 1..5, ~GoesOn(Percents[loop])
    PROVE  key = IF Rank(Percents[loop]) = 0 THEN FirstKey
                 ELSE Min({k \in DOMAIN counts : AtMost(k) >= Rank(Percents[loop])})
<1> DEFINE q == sortedKeys
           r == Rank(Percents[loop])
           High == {k \in DOMAIN counts : AtMost(k) >= r}
<1>1. counts \in Samples /\ keysIndex \in 0..Len(q) /\ index = SumOver(counts, Passed(keysIndex))
  BY DEF LoopInv
<1>2. /\ Len(q) \in Nat \ {0}
      /\ \A i \in 1..Len(q) : q[i] \in DOMAIN counts /\ q[i] \in Nat
      /\ \A i, j \in 1..Len(q) : i < j => q[i] < q[j]
      /\ \A k \in DOMAIN counts : \E i \in 1..Len(q) : q[i] = k
  BY <1>1, SortedKeysFacts, PercentilesAssumption
<1>3. r \in Nat /\ r <= Total
  BY <1>1, RanksAscend
<1>4. \A n \in 0..Len(q) : Passed(n) \in SUBSET DOMAIN counts /\ SumOver(counts, Passed(n)) \in Nat
  <2> SUFFICES ASSUME NEW n \in 0..Len(q)
               PROVE  Passed(n) \in SUBSET DOMAIN counts /\ SumOver(counts, Passed(n)) \in Nat
    OBVIOUS
  <2>1. \A i \in 1..n : i \in 1..Len(q)
    BY <1>2
  <2>2. \A i \in 1..n : q[i] \in DOMAIN counts
    <3> HIDE DEF q
    <3> QED
      BY <1>2, <2>1
  <2>3. Passed(n) \in SUBSET DOMAIN counts
    BY <2>2 DEF Passed
  <2> QED
    BY <1>1, <2>3, CountsAdd
<1>5. index >= r
  <2>1. CASE keysIndex = Len(q)
    <3>1. Passed(Len(q)) = DOMAIN counts
      BY <1>2 DEF Passed
    <3>2. index = Total
      BY <1>1, <2>1, <3>1, CountsAdd
    <3> QED
      BY <1>1, <1>3, <1>4, <3>2
  <2>2. CASE keysIndex # Len(q)
    <3>1. keysIndex < Len(q)
      BY <1>1, <1>2, <2>2
    <3> QED
      BY <1>1, <1>3, <1>4, <3>1 DEF GoesOn
  <2> QED
    BY <2>1, <2>2
<1>6. CASE keysIndex = 0
  <2>1. Passed(0) = {}
    BY DEF Passed
  <2>2. index = 0
    BY <1>1, <1>6, <2>1, SumOverEmpty
  <2>3. r = 0
    BY <1>3, <1>5, <2>2
  <2> QED
    BY <1>6, <2>3 DEF LoopInv
<1>7. CASE keysIndex # 0
  <2>1. keysIndex \in 1..Len(q)
    BY <1>1, <1>2, <1>7
  <2>2. SumOver(counts, Passed(keysIndex - 1)) < r /\ key = q[keysIndex]
    BY <1>7, <2>1 DEF LoopInv
  <2>3. r # 0
    <3>1. SumOver(counts, Passed(keysIndex - 1)) \in Nat
      <4>1. keysIndex - 1 \in 0..Len(q)
        BY <1>2, <2>1
      <4> QED
        BY <1>4, <4>1
    <3> QED
      BY <1>3, <2>2, <3>1
  <2>4. key \in High
    <3>1. AtMost(q[keysIndex]) = index
      BY <1>1, <2>1, PassedAreTheLeast
    <3> QED
      BY <1>2, <1>5, <2>1, <2>2, <3>1
  <2>5. ASSUME NEW k \in High PROVE key <= k
    <3>1. PICK i \in 1..Len(q) : q[i] = k
      BY <1>2
    <3>2. AtMost(k) = SumOver(counts, Passed(i))
      BY <1>1, <3>1, PassedAreTheLeast
    <3>3. SUFFICES ASSUME i < keysIndex PROVE FALSE
      <4>1. keysIndex < i => q[keysIndex] < q[i]
        BY <1>2, <2>1
      <4>2. q[keysIndex] \in Nat /\ q[i] \in Nat /\ keysIndex \in Nat /\ i \in Nat
        BY <1>2, <2>1
      <4> QED
        BY <2>2, <3>1, <4>1, <4>2
    <3>4. i <= keysIndex - 1 /\ i \in Nat /\ keysIndex - 1 \in 0..Len(q)
      BY <1>2, <2>1, <3>3
    <3>5. Passed(i) \in SUBSET Passed(keysIndex - 1)
      BY <3>4 DEF Passed
    <3>6. SumOver(counts, Passed(i)) <= SumOver(counts, Passed(keysIndex - 1))
      BY <1>1, <1>4, <3>4, <3>5, CountsAdd
    <3>7. SumOver(counts, Passed(i)) >= r
      BY <3>2
    <3>8. SumOver(counts, Passed(i)) \in Nat /\ SumOver(counts, Passed(keysIndex - 1)) \in Nat
      BY <1>4, <3>4
    <3> QED
      BY <1>3, <2>2, <3>6, <3>7, <3>8
  <2>6. Min(High) = key
    <3>1. High \in SUBSET Nat /\ High # {}
      BY <1>1, <2>4, PercentilesAssumption
    <3> HIDE DEF High
    <3>2. Min(High) \in High /\ \A y \in High : Min(High) <= y
      BY <3>1, MinOfNaturals
    <3>3. Min(High) \in Nat /\ key \in Nat /\ Min(High) <= key /\ key <= Min(High)
      BY <2>4, <2>5, <3>1, <3>2
    <3> QED
      BY <3>3
  <2> QED
    BY <2>3, <2>6
<1> QED
  BY <1>6, <1>7

\* The input stays, and with it all that is derived from it.
LEMMA TotalIsSum == Total = SumOver(counts, DOMAIN counts)
  BY DEF Total, SumOver

LEMMA AtMostIsSum == \A k : AtMost(k) = SumOver(counts, {j \in DOMAIN counts : j <= k})
  BY DEF AtMost, SumOver

LEMMA InputStays ==
    ASSUME UNCHANGED <<driver, counts>>
    PROVE  /\ sortedKeys' = sortedKeys
           /\ FirstKey' = FirstKey
           /\ \A p : Rank(p)' = Rank(p)
           /\ \A k : AtMost(k)' = AtMost(k)
<1>1. sortedKeys' = sortedKeys
  BY DEF sortedKeys
<1>2. FirstKey' = FirstKey
  BY <1>1 DEF FirstKey
<1>3. Total' = Total
  <2>1. (Total = SumOver(counts, DOMAIN counts))'
    BY TotalIsSum, PTL
  <2> QED
    BY <2>1, TotalIsSum
<1>4. \A p : Rank(p)' = Rank(p)
  BY <1>3 DEF Rank
<1>5. \A k : AtMost(k)' = AtMost(k)
  <2>1. (\A k : AtMost(k) = SumOver(counts, {j \in DOMAIN counts : j <= k}))'
    BY AtMostIsSum, PTL
  <2> QED
    BY <2>1, AtMostIsSum
<1> QED
  BY <1>1, <1>2, <1>4, <1>5

LEMMA IterateStep ==
    ASSUME PercentileInv, Iterate
    PROVE  PercentileInv'
<1> USE DEF PercentileInv
<1>1. /\ loop \in 1..5 /\ keysIndex < Len(sortedKeys) /\ index < Rank(Percents[loop])
      /\ keysIndex' = keysIndex + 1
      /\ key' = sortedKeys[keysIndex + 1]
      /\ index' = index + counts[sortedKeys[keysIndex + 1]]
      /\ UNCHANGED <<driver, counts, loop, percentile>>
  BY DEF Iterate, GoesOn, Percents
<1>2. counts \in Samples /\ keysIndex \in Nat /\ index = SumOver(counts, Passed(keysIndex))
  BY <1>1 DEF LoopInv
<1>3. /\ Len(sortedKeys) \in Nat
      /\ keysIndex + 1 \in 1..Len(sortedKeys)
      /\ (keysIndex + 1) - 1 = keysIndex
  BY <1>1, <1>2, SortedKeysFacts
<1>4. SumOver(counts, Passed(keysIndex + 1)) = index'
  <2> DEFINE k == sortedKeys[keysIndex + 1]
  <2>1. /\ Passed(keysIndex + 1) = Passed(keysIndex) \cup {k}
        /\ k \notin Passed(keysIndex)
    BY <1>2, <1>3, PassedAreTheLeast
  <2>2. k \in DOMAIN counts /\ Passed(keysIndex) \in SUBSET DOMAIN counts
    <3>1. \A i \in 1..Len(sortedKeys) : sortedKeys[i] \in DOMAIN counts
      BY <1>2, SortedKeysFacts
    <3>2. 1..keysIndex \subseteq 1..Len(sortedKeys)
      BY <1>1, <1>2, <1>3
    <3> QED
      BY <1>3, <3>1, <3>2 DEF Passed
  <2> HIDE DEF k
  <2>3. SumOver(counts, Passed(keysIndex) \cup {k}) = SumOver(counts, Passed(keysIndex)) + counts[k]
    BY <1>2, <2>1, <2>2, CountsAdd
  <2> QED
    BY <1>1, <1>2, <2>1, <2>3 DEF k
<1>5. /\ sortedKeys' = sortedKeys /\ FirstKey' = FirstKey
      /\ \A p : Rank(p)' = Rank(p)
      /\ \A k : AtMost(k)' = AtMost(k)
  BY <1>1, InputStays
<1>6. LoopInv'
  <2>1. \A n : Passed(n)' = Passed(n)
    BY <1>5 DEF Passed
  <2>2. /\ counts' \in Samples /\ loop' \in 1..6 /\ keysIndex' \in 0..Len(sortedKeys)
        /\ keysIndex' # 0
    BY <1>1, <1>2, <1>3
  <2>3. index' = SumOver(counts', Passed(keysIndex'))
    BY <1>1, <1>4
  <2>4. SumOver(counts', Passed(keysIndex' - 1)) < Rank(Percents[loop'])
    BY <1>1, <1>2, <1>3
  <2> QED
    BY <1>1, <1>5, <2>1, <2>2, <2>3, <2>4 DEF LoopInv
<1>7. FoundByRank'
  BY <1>1, <1>5 DEF FoundByRank
<1> QED
  BY <1>6, <1>7

LEMMA NextLoopStep ==
    ASSUME PercentileInv, NextLoop
    PROVE  PercentileInv'
<1> USE DEF PercentileInv
<1>1. /\ loop \in 1..5 /\ ~GoesOn(Percents[loop])
      /\ loop' = loop + 1
      /\ UNCHANGED <<driver, counts, keysIndex, index, key>>
      /\ percentile' = [p \in DOMAIN percentile \cup {Percents[loop]} |->
                            IF p = Percents[loop] THEN key ELSE percentile[p]]
  BY DEF NextLoop, Percents, loopVars
<1>2. counts \in Samples
  BY DEF LoopInv
<1>3. /\ sortedKeys' = sortedKeys /\ FirstKey' = FirstKey
      /\ \A p : Rank(p)' = Rank(p)
      /\ \A k : AtMost(k)' = AtMost(k)
  BY <1>1, InputStays
<1>4. LoopInv'
  <2>1. \A n : Passed(n)' = Passed(n)
    BY <1>3 DEF Passed
  <2>2. loop' \in 1..6
    BY <1>1
  <2>4. \A i \in 1..5 : i < loop' => Percents[i] \in DOMAIN percentile'
    BY <1>1 DEF LoopInv
  <2>3. ASSUME keysIndex > 0, loop' <= 5
        PROVE  SumOver(counts, Passed(keysIndex - 1)) < Rank(Percents[loop'])
    <3>1. loop' \in 1..5 /\ loop <= loop'
      BY <1>1, <2>3
    <3>2. /\ Rank(Percents[loop]) <= Rank(Percents[loop'])
          /\ Rank(Percents[loop]) \in Nat /\ Rank(Percents[loop']) \in Nat
      BY <1>1, <1>2, <3>1, RanksAscend
    <3>3. SumOver(counts, Passed(keysIndex - 1)) < Rank(Percents[loop])
      BY <1>1, <2>3 DEF LoopInv
    <3>4. SumOver(counts, Passed(keysIndex - 1)) \in Nat
      <4>1. /\ keysIndex \in 0..Len(sortedKeys) /\ Len(sortedKeys) \in Nat
            /\ \A i \in 1..Len(sortedKeys) : sortedKeys[i] \in DOMAIN counts
        BY <1>2, SortedKeysFacts DEF LoopInv
      <4>2. Passed(keysIndex - 1) \in SUBSET DOMAIN counts
        BY <2>3, <4>1 DEF Passed
      <4> QED
        BY <1>2, <4>2, CountsAdd
    <3> QED
      BY <3>2, <3>3, <3>4
  <2> QED
    BY <1>1, <1>3, <2>1, <2>2, <2>3, <2>4 DEF LoopInv
<1>5. FoundByRank'
  <2> DEFINE ByRank(i) == IF Rank(Percents[i]) = 0 THEN FirstKey
                          ELSE Min({k \in DOMAIN counts : AtMost(k) >= Rank(Percents[i])})
  <2>1. key = ByRank(loop)
    BY <1>1, LoopFindsRank
  <2>2. \A i, j \in 1..5 : i # j => Percents[i] # Percents[j]
    BY DEF Percents
  <2>3. ASSUME NEW i \in 1..5, i < loop' PROVE percentile'[Percents[i]] = ByRank(i)
    <3>1. CASE i = loop
      BY <1>1, <2>1, <3>1
    <3>2. CASE i # loop
      <4>1. i < loop /\ Percents[i] # Percents[loop]
        BY <1>1, <2>2, <2>3, <3>2
      <4>2. percentile[Percents[i]] = ByRank(i)
        BY <4>1 DEF FoundByRank, Percents
      <4>3. Percents[i] \in DOMAIN percentile
        BY <4>1 DEF LoopInv
      <4> QED
        BY <1>1, <4>1, <4>2, <4>3
    <3> QED
      BY <3>1, <3>2
  <2>4. DOMAIN Percents = 1..5
    BY DEF Percents
  <2> QED
    BY <1>1, <1>3, <2>3, <2>4 DEF FoundByRank
<1> QED
  BY <1>4, <1>5

\* Rounding a whole rank down changes nothing, and rounding one down never finds
\* more; a rank of zero finds a key that none is below.
LEMMA RoundingDown ==
    ASSUME PercentileInv
    PROVE  ExactWhereRanksAreWhole
<1> SUFFICES ASSUME NEW i \in DOMAIN Percents, i < loop
             PROVE  /\ percentile[Percents[i]] <= NearestRank(Percents[i])
                    /\ Total # 0 /\ Rank(Percents[i]) * 100 = Total * Percents[i] =>
                          percentile[Percents[i]] = NearestRank(Percents[i])
  BY DEF ExactWhereRanksAreWhole
<1> DEFINE p == Percents[i]
           ByRank == {k \in DOMAIN counts : AtMost(k) >= Rank(p)}
           Nearest == {k \in DOMAIN counts : AtMost(k) * 100 >= Total * p}
<1>1. counts \in Samples /\ i \in 1..5
  BY DEF PercentileInv, LoopInv, Percents
<1>2. p \in {10, 25, 50, 75, 90}
  BY DEF Percents
<1>3. DOMAIN counts \in SUBSET Nat /\ Total \in Nat
  BY <1>1, CountsAdd, PercentilesAssumption
<1>4. \A k \in DOMAIN counts : AtMost(k) \in Nat
  <2> SUFFICES ASSUME NEW k \in DOMAIN counts PROVE AtMost(k) \in Nat
    OBVIOUS
  <2>1. {j \in DOMAIN counts : j <= k} \in SUBSET DOMAIN counts
    OBVIOUS
  <2> QED
    BY <1>1, <2>1, CountsAdd, AtMostIsSum
<1>5. Rank(p) \in Nat /\ Rank(p) * 100 <= Total * p /\ Total * p < (Rank(p) + 1) * 100
  BY <1>2, <1>3 DEF Rank
<1>6. Nearest # {} /\ Nearest \in SUBSET Nat /\ ByRank \in SUBSET Nat
  <2> DEFINE last == sortedKeys[Len(sortedKeys)]
  <2>1. last \in DOMAIN counts /\ AtMost(last) = Total
    <3>1. /\ Len(sortedKeys) \in 1..Len(sortedKeys)
          /\ \A n \in 1..Len(sortedKeys) : sortedKeys[n] \in DOMAIN counts
          /\ \A k \in DOMAIN counts : \E n \in 1..Len(sortedKeys) : sortedKeys[n] = k
      BY <1>1, SortedKeysFacts
    <3>2. Passed(Len(sortedKeys)) = DOMAIN counts
      BY <3>1 DEF Passed
    <3>3. AtMost(last) = SumOver(counts, Passed(Len(sortedKeys)))
      BY <1>1, <3>1, PassedAreTheLeast
    <3> QED
      BY <3>1, <3>2, <3>3, TotalIsSum
  <2>2. Total * 100 >= Total * p
    BY <1>2, <1>3
  <2> HIDE DEF last
  <2> QED
    BY <1>3, <2>1, <2>2
<1>7. Nearest \subseteq ByRank
  <2> SUFFICES ASSUME NEW k \in DOMAIN counts, AtMost(k) * 100 >= Total * p
               PROVE  AtMost(k) >= Rank(p)
    OBVIOUS
  <2>1. AtMost(k) \in Nat /\ AtMost(k) * 100 >= Rank(p) * 100
    BY <1>2, <1>3, <1>4, <1>5
  <2> QED
    BY <1>5, <2>1
<1>8. Rank(p) * 100 = Total * p => ByRank = Nearest
  <2> SUFFICES ASSUME Rank(p) * 100 = Total * p, NEW k \in DOMAIN counts, AtMost(k) >= Rank(p)
               PROVE  AtMost(k) * 100 >= Total * p
    BY <1>7
  <2> QED
    BY <1>4, <1>5
<1>9. Total # 0 /\ Rank(p) * 100 = Total * p => Rank(p) # 0
  <2>1. Total # 0 => /\ Total * 10 # 0 /\ Total * 25 # 0 /\ Total * 50 # 0
                     /\ Total * 75 # 0 /\ Total * 90 # 0
    BY <1>3
  <2> HIDE DEF p
  <2>2. Total # 0 => Total * p # 0
    BY <1>2, <2>1
  <2> QED
    BY <2>2
<1>10. /\ Min(Nearest) \in Nearest
       /\ ByRank # {} /\ \A y \in ByRank : Min(ByRank) <= y
  BY <1>6, <1>7, MinOfNaturals
<1>11. \A k \in DOMAIN counts : FirstKey <= k
  <2>1. CASE driver = "memdb"
    BY <1>3, <2>1 DEF FirstKey
  <2>2. CASE driver # "memdb"
    <3>1. /\ Len(sortedKeys) \in Nat \ {0}
          /\ \A n \in 1..Len(sortedKeys) : sortedKeys[n] \in DOMAIN counts
          /\ \A m, n \in 1..Len(sortedKeys) : m < n => sortedKeys[m] < sortedKeys[n]
          /\ \A k \in DOMAIN counts : \E n \in 1..Len(sortedKeys) : sortedKeys[n] = k
      BY <1>1, SortedKeysFacts
    <3>2. FirstKey = sortedKeys[1]
      <4>1. sortedKeys \in Seq(DOMAIN counts) /\ sortedKeys # <<>>
        BY <1>1, <3>1, SortedKeysFacts
      <4>2. Head(sortedKeys) = sortedKeys[1]
        BY <4>1
      <4> QED
        BY <2>2, <4>2 DEF FirstKey
    <3>3. ASSUME NEW k \in DOMAIN counts PROVE sortedKeys[1] <= k
      <4>1. PICK n \in 1..Len(sortedKeys) : sortedKeys[n] = k
        BY <3>1
      <4>4. 1 \in 1..Len(sortedKeys)
        BY <3>1
      <4>2. sortedKeys[1] \in Nat /\ k \in Nat
        BY <1>3, <3>1, <4>4
      <4>3. n = 1 \/ 1 < n
        OBVIOUS
      <4> QED
        BY <3>1, <4>1, <4>2, <4>3, <4>4
    <3> QED
      BY <3>2, <3>3
  <2> QED
    BY <2>1, <2>2
<1>12. NearestRank(p) = Min(Nearest)
  BY DEF NearestRank
<1>13. percentile[p] = IF Rank(p) = 0 THEN FirstKey ELSE Min(ByRank)
  BY DEF PercentileInv, FoundByRank
<1> HIDE DEF p, ByRank, Nearest
<1>14. CASE Rank(p) = 0
  BY <1>3, <1>6, <1>9, <1>10, <1>11, <1>12, <1>13, <1>14 DEF Nearest, p
<1>15. CASE Rank(p) # 0
  BY <1>7, <1>8, <1>10, <1>12, <1>13, <1>15 DEF p
<1> QED
  BY <1>14, <1>15

\* The five loops of calculatePercentiles find the nearest rank wherever it is a
\* whole number and never more, in both drivers and for any number of GPUs.
THEOREM ExactWhereRanksAreWholeHolds == PercentilesSpec => []ExactWhereRanksAreWhole
<1>1. PercentilesInit => PercentileInv
  <2> SUFFICES ASSUME PercentilesInit PROVE PercentileInv
    OBVIOUS
  <2>1. /\ counts \in Samples /\ loop = 1 /\ keysIndex = 0 /\ index = 0 /\ key = FirstKey
    BY DEF PercentilesInit
  <2>2. Len(sortedKeys) \in Nat
    BY <2>1, SortedKeysFacts
  <2>3. Passed(0) = {} /\ SumOver(counts, {}) = 0
    BY SumOverEmpty DEF Passed
  <2>4. LoopInv
    <3>1. \A i \in 1..5 : ~(i < loop)
      BY <2>1
    <3> QED
      BY <2>1, <2>2, <2>3, <3>1 DEF LoopInv
  <2>5. FoundByRank
    BY <2>1 DEF FoundByRank, Percents
  <2> QED
    BY <2>4, <2>5 DEF PercentileInv
<1>2. PercentileInv /\ [PercentilesNext]_percentileVars => PercentileInv'
  <2> SUFFICES ASSUME PercentileInv, [PercentilesNext]_percentileVars PROVE PercentileInv'
    OBVIOUS
  <2>1. CASE UNCHANGED percentileVars
    <3>1. UNCHANGED <<driver, counts, loop, keysIndex, index, key, percentile>>
      BY <2>1 DEF percentileVars, loopVars
    <3>2. /\ sortedKeys' = sortedKeys /\ FirstKey' = FirstKey
          /\ \A p : Rank(p)' = Rank(p)
          /\ \A k : AtMost(k)' = AtMost(k)
      BY <3>1, InputStays
    <3>3. \A n : Passed(n)' = Passed(n)
      BY <3>2 DEF Passed
    <3> QED
      BY <3>1, <3>2, <3>3 DEF PercentileInv, LoopInv, FoundByRank
  <2> QED
    BY <2>1, IterateStep, NextLoopStep DEF PercentilesNext
<1>3. PercentileInv => ExactWhereRanksAreWhole
  BY RoundingDown
<1> QED
  BY <1>1, <1>2, <1>3, PTL DEF PercentilesSpec

============================================================================
