------------------------- MODULE TaskManagerProofs -------------------------
(***************************************************************************)
(* Proofs about TaskManager, for any finite set of goroutines.             *)
(***************************************************************************)
EXTENDS TaskManager, FiniteSetTheorems, TLAPS

\* The goroutines the WaitGroup counts.
Counted == {t \in Task : status[t] \in {"running", "reporting", "reported"}}

\* The counter is the number of goroutines that have not called Done, none is
\* left once Wait has passed the group, and what has been received is what has
\* failed, but for the goroutines still to report.
Inv ==
    /\ TypeOK
    /\ waitGroup = Cardinality(Counted)
    /\ waiting \in {"close", "result", "returned"} => Counted = {}
    /\ ~errorsOpen <=> waiting \in {"result", "returned"}
    /\ \A t \in failed : status[t] \in {"reporting", "reported", "done", "panicked"}
    /\ \A t \in failed : status[t] # "reporting" => t \in joined
    /\ joined \subseteq failed
    /\ waiting = "returned" => result = joined
    /\ NeverPanics

LEMMA CountedFinite == IsFiniteSet(Counted) /\ IsFiniteSet(Counted')
  BY TaskAssumption, FS_Subset DEF Counted

LEMMA InitInv == Init => Inv
<1> SUFFICES ASSUME Init PROVE Inv
  OBVIOUS
<1>1. Counted = {}
  BY DEF Init, Counted
<1> QED
  BY <1>1, FS_EmptySet DEF Init, Inv, TypeOK, NeverPanics

\* Starting a goroutine adds it to the counted ones.
LEMMA GoStep ==
    ASSUME Inv, NEW t \in Task, Go(t), Counted # {} \/ waiting = "no"
    PROVE  Inv'
<1> USE DEF Inv, TypeOK, NeverPanics
<1>1. t \notin Counted /\ Counted' = Counted \cup {t}
  BY DEF Go, RunGoes, Counted
<1>2. waitGroup' = Cardinality(Counted')
  BY <1>1, CountedFinite, FS_AddElement DEF Go, RunGoes, Added
<1>3. waiting' \notin {"close", "result", "returned"}
  BY DEF Go, RunGoes
<1>4. TypeOK'
  BY DEF Go, RunGoes, Added
<1> QED
  BY <1>2, <1>3, <1>4 DEF Go, RunGoes

LEMMA InvStep ==
    ASSUME Inv, [Next]_vars
    PROVE  Inv'
<1> USE DEF Inv, TypeOK, NeverPanics
<1>1. CASE UNCHANGED vars
  BY <1>1 DEF vars, Counted
<1>2. CASE Cancel
  BY <1>2 DEF Cancel, Counted
<1>3. ASSUME NEW t \in Task, OwnerStarts(t) PROVE Inv'
  BY <1>3, GoStep DEF OwnerStarts
<1>4. ASSUME NEW t \in Task, TaskStarts(t) PROVE Inv'
  <2>1. Counted # {}
    BY <1>4 DEF TaskStarts, Counted
  <2> QED
    BY <1>4, <2>1, GoStep DEF TaskStarts
<1>5. ASSUME NEW t \in Task, TaskSucceeds(t) PROVE Inv'
  <2>1. Counted' = Counted
    BY <1>5 DEF TaskSucceeds, RunGoes, Counted
  <2> QED
    BY <1>5, <2>1 DEF TaskSucceeds, RunGoes
<1>6. ASSUME NEW t \in Task, TaskFails(t) PROVE Inv'
  <2>1. Counted' = Counted
    BY <1>6 DEF TaskFails, RunGoes, Counted
  <2> QED
    BY <1>6, <2>1 DEF TaskFails, RunGoes, FailureCancels
<1>7. ASSUME NEW t \in Task, Report(t) PROVE Inv'
  <2>1. t \in Counted
    BY <1>7 DEF Report, RunGoes, Counted
  <2>2. errorsOpen
    BY <2>1
  <2>3. Counted' = Counted
    BY <1>7, <2>2 DEF Report, RunGoes, Counted
  <2> QED
    BY <1>7, <2>2, <2>3 DEF Report, RunGoes, Joined
<1>8. ASSUME NEW t \in Task, Done(t) PROVE Inv'
  <2>1. t \in Counted /\ Counted' = Counted \ {t}
    BY <1>8 DEF Done, RunGoes, Counted
  <2>2. waitGroup' = Cardinality(Counted') /\ waitGroup' \in Nat
    <3>1. Cardinality(Counted') = Cardinality(Counted) - 1
      BY <2>1, CountedFinite, FS_RemoveElement
    <3>2. Cardinality(Counted') \in Nat
      BY CountedFinite, FS_CardinalityType
    <3> QED
      BY <1>8, <3>1, <3>2 DEF Done, RunGoes
  <2> QED
    BY <1>8, <2>1, <2>2 DEF Done, RunGoes
<1>9. CASE WaitStarts \/ WaitSeesContext
  BY <1>9 DEF WaitStarts, WaitSeesContext, WaitGoes, Counted
<1>10. CASE WaitSeesGroup
  <2>1. Counted = {}
    BY <1>10, CountedFinite, FS_EmptySet DEF WaitSeesGroup, GroupDone
  <2> QED
    BY <1>10, <2>1 DEF WaitSeesGroup, WaitGoes, Counted
<1>11. CASE WaitCloses
  <2>1. Counted' = Counted
    BY <1>11 DEF WaitCloses, WaitGoes, Counted
  <2> QED
    BY <1>11, <2>1 DEF WaitCloses, WaitGoes
<1>12. CASE WaitReturns
  <2>1. Counted' = Counted
    BY <1>12 DEF WaitReturns, WaitGoes, Counted
  <2> QED
    BY <1>12, <2>1 DEF WaitReturns, WaitGoes
<1> QED
  BY <1>1, <1>2, <1>3, <1>4, <1>5, <1>6, <1>7, <1>8, <1>9, <1>10, <1>11, <1>12
     DEF Next, WaitStep, TaskStep, TaskReturns

\* The counter of the WaitGroup never goes below zero, which would panic, and
\* the other variables keep their types (task.go).
THEOREM TypeCorrect == Spec => []TypeOK
<1>1. Inv => TypeOK
  BY DEF Inv
<1> QED
  BY <1>1, InitInv, InvStep, PTL DEF Spec

\* No goroutine of a group ever sends on the closed channel (task.go, run and
\* Wait), however many there are.
THEOREM NeverPanicsHolds == Spec => []NeverPanics
<1>1. Inv => NeverPanics
  BY DEF Inv
<1> QED
  BY <1>1, InitInv, InvStep, PTL DEF Spec

\* Wait returns every error, after every goroutine has finished.
THEOREM NothingLostHolds == Spec => []NothingLost
<1>1. Inv => NothingLost
  BY DEF Inv, TypeOK, NothingLost, Counted, NeverPanics
<1> QED
  BY <1>1, InitInv, InvStep, PTL DEF Spec

============================================================================
