----------------------------- MODULE Percentiles -----------------------------
(***************************************************************************)
(* calculatePercentiles, in AggregateData of the storage drivers, one      *)
(* iteration at a time: from how many GPUs have each number of GB free to  *)
(* the numbers at 10, 25, 50, 75, 90 and 100 percent.  Five loops follow   *)
(* each other, each going on where the one before has stopped.  The memdb  *)
(* and the postgres driver each have a copy, and start from another key.   *)
(***************************************************************************)
EXTENDS Naturals, FiniteSetsExt, SequencesExt

CONSTANT Samples   \* the counts to try, functions from numbers of GB

ASSUME PercentilesAssumption ==
    \A sample \in Samples :
        /\ DOMAIN sample \subseteq Nat /\ DOMAIN sample # {} /\ IsFiniteSet(DOMAIN sample)
        /\ sample \in [DOMAIN sample -> Nat]

VARIABLES driver,
          counts,
          loop,        \* the loop it is in, as an index of Percents
          keysIndex, index, key,
          percentile

loopVars == <<keysIndex, index, key>>
percentileVars == <<driver, counts, loop, loopVars, percentile>>

Percents == <<10, 25, 50, 75, 90>>

Total == MapThenSumSet(LAMBDA k : counts[k], DOMAIN counts)

\* indexP10 to indexP90: a conversion to int rounds down.
Rank(percent) == (Total * percent) \div 100

\* sort.Ints of the keys.
sortedKeys ==
    CHOOSE keys \in [1..Cardinality(DOMAIN counts) -> DOMAIN counts] :
        \A i, j \in DOMAIN keys : i < j => keys[i] < keys[j]

\* The key the first loop is entered with.
FirstKey == IF driver = "memdb" THEN 0 ELSE Head(sortedKeys)

PercentilesInit ==
    /\ driver \in {"memdb", "postgres"}
    /\ counts \in Samples
    /\ loop = 1
    /\ keysIndex = 0 /\ index = 0 /\ key = FirstKey
    /\ percentile = [p \in {100} |-> Last(sortedKeys)]

\* Mutant of GoesOn: the loop goes one too far.
GoesOnAtRank(percent) == keysIndex < Len(sortedKeys) /\ index <= Rank(percent)

\* The condition of the loop.
GoesOn(percent) == keysIndex < Len(sortedKeys) /\ index < Rank(percent)

Iterate ==
    /\ loop \in DOMAIN Percents
    /\ GoesOn(Percents[loop])
    /\ key' = sortedKeys[keysIndex + 1]
    /\ index' = index + counts[key']
    /\ keysIndex' = keysIndex + 1
    /\ UNCHANGED <<driver, counts, loop, percentile>>

NextLoop ==
    /\ loop \in DOMAIN Percents
    /\ ~GoesOn(Percents[loop])
    /\ percentile' = [p \in DOMAIN percentile \cup {Percents[loop]} |->
                         IF p = Percents[loop] THEN key ELSE percentile[p]]
    /\ loop' = loop + 1
    /\ UNCHANGED <<driver, counts, loopVars>>

PercentilesNext == Iterate \/ NextLoop

PercentilesSpec == PercentilesInit /\ [][PercentilesNext]_percentileVars

----------------------------------------------------------------------------

\* How many GPUs have at most k GB free.
AtMost(k) == MapThenSumSet(LAMBDA j : counts[j], {j \in DOMAIN counts : j <= k})

\* The percentile by the nearest-rank method, which rounds the rank up: the
\* least number of GB such that at least that percentage of the GPUs have at
\* most that much free.
NearestRank(percent) == Min({k \in DOMAIN counts : AtMost(k) * 100 >= Total * percent})

\* Although the five loops share their counters, none shifts the others: a
\* percentile whose rank is a whole number is the one by the nearest-rank
\* method, and no percentile is above it.
ExactWhereRanksAreWhole ==
    \A i \in DOMAIN Percents : i < loop =>
        LET p == Percents[i]
        IN  /\ percentile[p] <= NearestRank(p)
            /\ Total # 0 /\ Rank(p) * 100 = Total * p => percentile[p] = NearestRank(p)

\* What storage.go says of the two fields: "Nearest-Rank Method".
NearestRankMethod ==
    \A i \in DOMAIN Percents : i < loop => percentile[Percents[i]] = NearestRank(Percents[i])

=============================================================================
