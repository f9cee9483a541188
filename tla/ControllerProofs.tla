-------------------------- MODULE ControllerProofs --------------------------
(***************************************************************************)
(* Proofs about Controller, for every set of agents and sessions, every    *)
(* request, and every value of the delays, the query limit and the bounds: *)
(* types, placement, the VRAM on offer, when an agent is removed, that the *)
(* controller and its agents implement SessionLife, which cancels are      *)
(* final, what stops the backend, and what a placement promises.           *)
(***************************************************************************)
EXTENDS Controller, GpuMatchingProofs, SequenceTheorems, TLAPS

----------------------------------------------------------------------------
(* The inductive invariants.                                               *)

\* The backend's place in a pass: what it still has to place has no agent.
PassInv ==
    /\ \A s \in Session : sState[s] \in {"none", "queued"} => sAgent[s] = NoAgent
    /\ \A s \in pending : sAgent[s] = NoAgent
    /\ cur # NoSession => sAgent[cur] = NoAgent /\ cur \notin pending
    /\ bpc \notin {"agents", "stopped"} => cur = NoSession

\* Only rows that exist are offered, assigned or run by a process.
RowInv ==
    /\ \A a \in cands : aState[a] # "none"
    /\ \A a \in deleted : aState[a] # "none"
    /\ \A s \in Session : sAgent[s] # NoAgent => aState[sAgent[s]] # "none"
    /\ \A a \in Agent : aState[a] = "none" => phase[a] = "down"

\* What an agent runs and reports is its own, and the report that moves an
\* assigned session on is under way as soon as the session is started.
RunInv ==
    /\ \A a \in Agent, s \in Session : run[a][s] # "idle" => sAgent[s] = a
    /\ \A a \in Agent, s \in Session : outbox[a][s] # "none" => run[a][s] # "idle"
    /\ \A a \in Agent, s \in Session : txReport[a][s] # "none" => run[a][s] # "idle"
    /\ \A a \in Agent, s \in Session :
          sState[s] = "assigned" /\ run[a][s] # "idle" /\ phase[a] # "down" =>
              \/ phase[a] = "polled" /\ outbox[a][s] \in {"active", "closed"}
              \/ phase[a] = "updating" /\ txReport[a][s] \in {"active", "closed"}

\* A closed report is the last one, and the row of a session is not closed
\* while its agent has anything else to say of it.
ClosedIsLast(a, s) ==
    /\ outbox[a][s] = "closed" => run[a][s] = "shut"
    /\ txReport[a][s] = "closed" => run[a][s] = "shut" /\ outbox[a][s] = "none"
    /\ txReport[a][s] # "none" => phase[a] = "updating"

NothingAfterClosed(a, s) ==
    a \notin deleted /\ sAgent[s] = a /\ sState[s] = "closed" =>
        /\ run[a][s] = "shut"
        /\ outbox[a][s] = "none"
        /\ txReport[a][s] \notin {"touch", "active"}

ReportInv ==
    /\ \A a \in Agent, s \in Session : ClosedIsLast(a, s) /\ NothingAfterClosed(a, s)
    /\ \A a \in Agent : \A s \in txTodo[a] : txReport[a][s] # "none"

\* The backend offers an agent only VRAM it has, and the value an UpdateAgent
\* transaction will write back lies between the current one and the total.
VramInv ==
    /\ VramWithinTotal
    /\ bpc = "agents" => \A a \in cands : vramAvailable[a] >= VramRequired(cur)
    /\ \A a \in Agent : phase[a] = "updating" /\ a \notin deleted =>
          txVram[a] \in vramAvailable[a]..AgentVram(a)

\* How old a row is in each state.
AgeInv ==
    /\ \A a \in Agent : lastContact[a] <= updatedAt[a] /\ updatedAt[a] <= now
    /\ \A a \in Agent : aState[a] = "missing" => lastContact[a] + MissingAfter <= updatedAt[a]
    /\ RemovedOnlyAfterBothDelays

----------------------------------------------------------------------------
(* What a step of the backend does to the tables and to the pass, whether  *)
(* its storage call succeeds or not: only err and the counts differ.       *)

Unseen == UNCHANGED <<agents, tx, lastContact, seenActive>>

Marking ==
    /\ bpc = "missing" /\ SetAgentsMissing /\ bpc' \in {"remove", "stopped"}
    /\ UNCHANGED <<pending, cur, cands>> /\ Unseen

Removing ==
    /\ bpc = "remove" /\ RemoveMissingAgents /\ bpc' \in {"snapshot", "stopped"}
    /\ UNCHANGED <<pending, cur, cands>> /\ Unseen

Failing ==
    /\ bpc \in {"missing", "remove", "snapshot"} /\ RolledBack /\ bpc' = "stopped"
    /\ UNCHANGED <<pending, cur, cands>> /\ Unseen

Dropping(s) == DoneWith(s) /\ (CancelSession(s) \/ RolledBack)

Placing(a) ==
    /\ TriesToAssign(a)
    /\ \/ Visible(a) /\ AssignSession(cur, a)
       \/ RolledBack

LEMMA BackendMoves ==
    ASSUME BackendStep \/ BackendFault
    PROVE  \/ Marking \/ Removing \/ Failing
           \/ BackendListQueued \/ BackendPassDone \/ BackendNoAgentLeft
           \/ BackendRestart \/ BackendCrash
           \/ \E s \in Session : Dropping(s) \/ BackendListAgents(s)
           \/ \E a \in Agent : BackendSkipsAgent(a) \/ Placing(a)
<1>1. CASE BackendSetMissing \/ BackendRemoveMissing
  BY <1>1 DEF BackendSetMissing, BackendRemoveMissing, Marking, Removing, Unseen, history
<1>2. CASE BackendGivesUp
  BY <1>2 DEF BackendGivesUp, CallFails, Marking, Removing, Failing, Unseen
<1>3. ASSUME NEW s \in Session, BackendRejects(s) \/ BackendPassesOver(s) PROVE Dropping(s)
  BY <1>3 DEF BackendRejects, BackendPassesOver, Dropping
<1>4. ASSUME NEW a \in Agent, BackendAssigns(a) \/ BackendFailsToAssign(a) PROVE Placing(a)
  BY <1>4 DEF BackendAssigns, BackendFailsToAssign, Placing
<1> QED
  BY <1>1, <1>2, <1>3, <1>4 DEF BackendStep, BackendFault

----------------------------------------------------------------------------
(* Arithmetic of the VRAM column.                                          *)

\* Subtraction and addition of uint64 stay in range, and subtracting no more
\* than there is does not wrap.
LEMMA WordArithmetic ==
    ASSUME NEW x \in 0..(Word - 1), NEW y \in 0..(Word - 1)
    PROVE  /\ Minus(x, y) \in 0..(Word - 1)
           /\ Plus(x, y) \in 0..(Word - 1)
           /\ y <= x => Minus(x, y) = x - y
  BY VramAssumption DEF Minus, Plus

----------------------------------------------------------------------------
(* Type correctness.                                                       *)

LEMMA TypeInit == Init => TypeOK
<1> SUFFICES ASSUME Init PROVE TypeOK
  OBVIOUS
<1>1. 0 \in 0..(Word - 1)
  BY VramAssumption
<1>2. StorageTypeOK
  BY <1>1 DEF Init, StorageInit, StorageTypeOK, AgentStates, SessionStates, GpuSelections
<1>3. outbox \in [Agent -> [Session -> {"none", "touch", "active", "closed"}]]
  BY DEF Init, NoReport
<1>4. txReport \in [Agent -> [Session -> {"none", "touch", "active", "closed"}]]
  BY DEF Init, NoReport
<1> QED
  BY <1>1, <1>2, <1>3, <1>4 DEF Init, TypeOK

LEMMA TypeStep ==
    ASSUME TypeOK, [Next]_vars
    PROVE  TypeOK'
<1> USE DEF TypeOK, StorageTypeOK, AgentStates, SessionStates,
            agentTable, sessionTable, backend, agents, tx, history
<1> DEFINE Counted == berr' \in BOOLEAN /\ faults' \in Nat /\ failed' \in BOOLEAN
<1>1. CASE Clock
  BY <1>1 DEF Clock
<1>0. ASSUME BackendStep \/ BackendFault
      PROVE  Counted
  <2>1. CASE BackendCrash
    <3>1. berr' = FALSE /\ faults' = faults + 1 /\ failed' = FALSE
      BY <2>1 DEF BackendCrash
    <3>2. faults' \in Nat
      BY <3>1
    <3> QED
      BY <3>1, <3>2, Zenon
  <2>2. CASE BackendFault /\ CallFails
    BY <2>2 DEF CallFails
  <2>3. ASSUME NEW a \in Agent, BackendSkipsAgent(a) PROVE Counted
    <3>1. berr' = Compatible(a, cur) /\ UNCHANGED <<faults, failed>>
      BY <2>3 DEF BackendSkipsAgent
    <3>2. Compatible(a, cur) \in BOOLEAN
      BY DEF Compatible, MatchesPool, MatchesLabels, CanTolerate
    <3> QED
      BY <3>1, <3>2
  <2>7. ASSUME NEW a \in Agent, BackendAssigns(a) PROVE Counted
    <3>1. berr' = ~Visible(a) /\ UNCHANGED <<faults, failed>>
      BY <2>7 DEF BackendAssigns
    <3>2. (~Visible(a)) \in BOOLEAN
      BY DEF Visible
    <3> QED
      BY <3>1, <3>2
  <2>4. CASE BackendSetMissing \/ BackendRemoveMissing \/ BackendListQueued \/ BackendPassDone
    BY <2>4 DEF BackendSetMissing, BackendRemoveMissing, BackendListQueued, BackendPassDone
  <2>5. CASE BackendNoAgentLeft \/ BackendRestart
    BY <2>5 DEF BackendNoAgentLeft, BackendRestart
  <2>6. ASSUME NEW s \in Session, BackendRejects(s) \/ BackendListAgents(s) PROVE Counted
    BY <2>6 DEF BackendRejects, BackendListAgents
  <2> QED
    BY <1>0, <2>1, <2>2, <2>3, <2>4, <2>5, <2>6, <2>7
       DEF BackendStep, BackendFault, BackendGivesUp, BackendPassesOver, BackendFailsToAssign
<1>2. ASSUME NEW s \in Session, ClientRequest(s) PROVE TypeOK'
  BY <1>2 DEF ClientRequest, RequestSession
<1>3. ASSUME NEW s \in Session, ClientCancel(s) PROVE TypeOK'
  BY <1>3 DEF ClientCancel, CancelSession
<1>4. CASE Counted /\ Marking
  BY <1>4 DEF Marking, Unseen, SetAgentsMissing
<1>5. CASE Counted /\ Removing
  BY <1>5 DEF Removing, Unseen, RemoveMissingAgents, Overdue
<1>6. CASE Counted /\ BackendListQueued
  <2>1. pending' \subseteq Session
    BY <1>6 DEF BackendListQueued, Answers, Queued, kSubset
  <2> QED
    BY <1>6, <2>1 DEF BackendListQueued
<1>7. CASE Counted /\ BackendPassDone
  BY <1>7 DEF BackendPassDone
<1>8. ASSUME NEW s \in Session, Counted, Dropping(s) PROVE TypeOK'
  BY <1>8 DEF Dropping, DoneWith, RolledBack, CancelSession
<1>9. ASSUME NEW s \in Session, Counted, BackendListAgents(s) PROVE TypeOK'
  <2>1. cands' \subseteq Agent
    BY <1>9 DEF BackendListAgents, Answers, Available, kSubset
  <2> QED
    BY <1>9, <2>1 DEF BackendListAgents
<1>10. ASSUME NEW a \in Agent, Counted, BackendSkipsAgent(a) PROVE TypeOK'
  <2>1. Compatible(a, cur) \in BOOLEAN
    BY DEF Compatible, MatchesPool, MatchesLabels, CanTolerate
  <2> QED
    BY <1>10, <2>1 DEF BackendSkipsAgent, OthersAfter
<1>11. ASSUME NEW a \in Agent, Counted, Placing(a) PROVE TypeOK'
  <2>1. Visible(a) \in BOOLEAN
    BY DEF Visible
  <2>2. CASE RolledBack
    BY <1>11, <2>1, <2>2 DEF Placing, TriesToAssign, RolledBack
  <2>3. CASE Visible(a) /\ AssignSession(cur, a)
    <3>1. /\ vramAvailable[a] \in 0..(Word - 1)
          /\ VramRequired(cur) \in 0..(Word - 1)
      BY <1>11, VramAssumption DEF Placing, TriesToAssign, RolledBack
    <3>2. Minus(vramAvailable[a], VramRequired(cur)) \in 0..(Word - 1)
      BY <3>1, WordArithmetic
    <3>3. Updated(Minus(vramAvailable[a], VramRequired(cur)), vramAvailable[a])
              \in 0..(Word - 1)
      BY <3>1, <3>2 DEF Updated
    <3>4. vramAvailable' \in [Agent -> 0..(Word - 1)]
      BY <1>11, <2>3, <3>3, ZenonT(40) DEF Placing, TriesToAssign, RolledBack, AssignSession
    <3>5. /\ sState' \in [Session -> SessionStates]
          /\ sAgent' \in [Session -> Agent \cup {NoAgent}]
          /\ sGpus' \in [Session -> GpuSelections]
      <4>1. cur \in Session
        BY <1>11 DEF Placing, TriesToAssign, RolledBack
      <4>2. ChosenGpus(a, cur) \in GpuSelections
        BY <4>1 DEF GpuSelections
      <4>3. sGpus' \in [Session -> GpuSelections]
        BY <1>11, <2>3, <4>2, ZenonT(40) DEF Placing, TriesToAssign, RolledBack, AssignSession
      <4>4. sState' \in [Session -> SessionStates]
        BY <1>11, <2>3 DEF Placing, TriesToAssign, RolledBack, AssignSession
      <4>5. sAgent' \in [Session -> Agent \cup {NoAgent}]
        BY <1>11, <2>3, ZenonT(40) DEF Placing, TriesToAssign, RolledBack, AssignSession
      <4> QED
        BY <4>3, <4>4, <4>5
    <3>6. updatedAt' \in [Agent -> Nat]
      BY <1>11, <2>3 DEF Placing, TriesToAssign, RolledBack, AssignSession
    <3>7. UNCHANGED <<aState, deleted, now>>
      BY <1>11, <2>3 DEF Placing, TriesToAssign, RolledBack, AssignSession
    <3>8. StorageTypeOK'
      BY <3>4, <3>5, <3>6, <3>7
    <3> QED
      BY <1>11, <2>1, <3>8 DEF Placing, TriesToAssign, RolledBack
  <2> QED
    BY <1>11, <2>2, <2>3 DEF Placing
<1>12. CASE Counted /\ BackendNoAgentLeft
  BY <1>12 DEF BackendNoAgentLeft
<1>13. CASE Counted /\ BackendCrash
  BY <1>13 DEF BackendCrash
<1>14. CASE Counted /\ BackendRestart
  BY <1>14 DEF BackendRestart
<1>15. ASSUME NEW a \in Agent, AgentStart(a) PROVE TypeOK'
  BY <1>15, VramAssumption DEF AgentStart, RegisterAgent
<1>16. ASSUME NEW a \in Agent, AgentPoll(a) PROVE TypeOK'
  BY <1>16 DEF AgentPoll, AfterTick, ToCancel
<1>17. ASSUME NEW a \in Agent, AgentNotFound(a) PROVE TypeOK'
  BY <1>17 DEF AgentNotFound
<1>18. ASSUME NEW a \in Agent, NEW s \in Session, SessionCloses(a, s) PROVE TypeOK'
  BY <1>18 DEF SessionCloses
<1>19. ASSUME NEW a \in Agent, NEW s \in Session, ConnectionChanges(a, s) PROVE TypeOK'
  BY <1>19 DEF ConnectionChanges
<1>20. ASSUME NEW a \in Agent, AgentReports(a) PROVE TypeOK'
  BY <1>20 DEF AgentReports, UpdateBegins, NoReport
<1>21. ASSUME NEW a \in Agent, AgentShutsDown(a) PROVE TypeOK'
  BY <1>21 DEF AgentShutsDown, UpdateBegins, NoReport
<1>22. ASSUME NEW a \in Agent, NEW s \in Session, UpdateReadsSession(a, s) PROVE TypeOK'
  <2>1. /\ txVram[a] \in 0..(Word - 1)
        /\ VramRequired(s) \in 0..(Word - 1)
    BY VramAssumption
  <2>2. Plus(txVram[a], VramRequired(s)) \in 0..(Word - 1)
    BY <2>1, WordArithmetic
  <2> QED
    BY <1>22, <2>2 DEF UpdateReadsSession
<1>23. ASSUME NEW a \in Agent, UpdateCommits(a) PROVE TypeOK'
  <2>1. Updated(txVram[a], vramAvailable[a]) \in 0..(Word - 1)
    BY DEF Updated
  <2>2. 0 \in 0..(Word - 1)
    BY VramAssumption
  <2>3. sState' \in [Session -> SessionStates]
    BY <1>23 DEF UpdateCommits, Written
  <2>4. /\ aState' \in [Agent -> AgentStates]
        /\ vramAvailable' \in [Agent -> 0..(Word - 1)]
        /\ updatedAt' \in [Agent -> Nat]
        /\ lastContact' \in [Agent -> Nat]
    <3>1. CASE Visible(a)
      <4>1. vramAvailable' \in [Agent -> 0..(Word - 1)]
        BY <1>23, <2>1, <3>1, ZenonT(40) DEF UpdateCommits
      <4>2. aState' \in [Agent -> AgentStates]
        BY <1>23, <3>1 DEF UpdateCommits
      <4>3. /\ updatedAt' = [updatedAt EXCEPT ![a] = now]
            /\ lastContact' = [lastContact EXCEPT ![a] = now]
        BY <1>23, <3>1 DEF UpdateCommits
      <4>4. updatedAt' \in [Agent -> Nat] /\ lastContact' \in [Agent -> Nat]
        BY <4>3
      <4> QED
        BY <4>1, <4>2, <4>4
    <3>2. CASE ~Visible(a)
      BY <1>23, <3>2 DEF UpdateCommits
    <3> QED
      BY <3>1, <3>2
  <2>5. /\ txState' \in [Agent -> {"active", "closed"}]
        /\ txVram' \in [Agent -> 0..(Word - 1)]
        /\ txReport' \in [Agent -> [Session -> {"none", "touch", "active", "closed"}]]
        /\ txTodo' \in [Agent -> SUBSET Session]
    BY <1>23, <2>2 DEF UpdateCommits, ClearTx, NoReport
  <2> QED
    BY <1>23, <2>3, <2>4, <2>5 DEF UpdateCommits
<1>24. ASSUME NEW a \in Agent, UpdateAborts(a) PROVE TypeOK'
  <2>1. 0 \in 0..(Word - 1)
    BY VramAssumption
  <2> QED
    BY <1>24, <2>1 DEF UpdateAborts, ClearTx, NoReport
<1>25. ASSUME NEW a \in Agent, AgentCrash(a) PROVE TypeOK'
  BY <1>25 DEF AgentCrash
<1>27. CASE Counted /\ Failing
  BY <1>27 DEF Failing, Unseen, RolledBack
<1>26. CASE UNCHANGED vars
  BY <1>26 DEF vars
<1> QED
  BY <1>0, <1>1, <1>2, <1>3, <1>4, <1>5, <1>6, <1>7, <1>8, <1>9, <1>10, <1>11, <1>12,
     <1>13, <1>14, <1>15, <1>16, <1>17, <1>18, <1>19, <1>20, <1>21, <1>22, <1>23,
     <1>24, <1>25, <1>26, <1>27, BackendMoves DEF Next, ClientStep, AgentStep

\* Every variable keeps its type: in particular vramAvailable stays a uint64
\* whatever is subtracted from it, added to it or left unwritten (gorm.go).
THEOREM TypeCorrect == Spec => []TypeOK
<1>1. Init => TypeOK
  BY TypeInit
<1>2. TypeOK /\ [Next]_vars => TypeOK'
  BY TypeStep
<1> QED
  BY <1>1, <1>2, PTL DEF Spec

----------------------------------------------------------------------------
(* A session is placed once, and started once.                             *)

LEMMA PassStep ==
    ASSUME TypeOK, PassInv, [Next]_vars
    PROVE  PassInv'
<1> USE NoSessionAssumption DEF TypeOK, StorageTypeOK, PassInv,
            agentTable, sessionTable, backend, agents, tx, history
<1>1. CASE Clock \/ UNCHANGED vars
  BY <1>1 DEF Clock, vars
<1>2. ASSUME NEW s \in Session, ClientRequest(s) \/ ClientCancel(s) PROVE PassInv'
  BY <1>2 DEF ClientRequest, RequestSession, ClientCancel, CancelSession
<1>3. CASE Marking \/ Removing
  BY <1>3 DEF Marking, Unseen, SetAgentsMissing, Removing, RemoveMissingAgents
<1>4. CASE BackendListQueued
  <2>1. pending' \subseteq Queued
    BY <1>4 DEF BackendListQueued, Answers, kSubset
  <2> QED
    BY <1>4, <2>1 DEF BackendListQueued, Queued
<1>5. CASE BackendPassDone \/ BackendNoAgentLeft \/ Failing \/ BackendCrash \/ BackendRestart
  BY <1>5 DEF BackendPassDone, BackendNoAgentLeft, Failing, Unseen, RolledBack, BackendCrash, BackendRestart
<1>6. ASSUME NEW s \in Session, Dropping(s) PROVE PassInv'
  BY <1>6 DEF Dropping, DoneWith, RolledBack, CancelSession
<1>7. ASSUME NEW s \in Session, BackendListAgents(s) PROVE PassInv'
  BY <1>7 DEF BackendListAgents
<1>8. ASSUME NEW a \in Agent, BackendSkipsAgent(a) PROVE PassInv'
  BY <1>8 DEF BackendSkipsAgent, OthersAfter
<1>9. ASSUME NEW a \in Agent, Placing(a) PROVE PassInv'
  <2>1. CASE Visible(a) /\ AssignSession(cur, a)
    BY <1>9, <2>1, ZenonT(40) DEF Placing, TriesToAssign, RolledBack, AssignSession
  <2>2. CASE RolledBack
    BY <1>9, <2>2 DEF Placing, TriesToAssign, RolledBack
  <2> QED
    BY <2>1, <2>2, <1>9 DEF Placing
<1>10. ASSUME NEW a \in Agent,
              AgentStart(a) \/ AgentPoll(a) \/ AgentNotFound(a) \/ UpdateAborts(a) \/ AgentCrash(a)
       PROVE  PassInv'
  BY <1>10 DEF AgentStart, RegisterAgent, AgentPoll, AgentNotFound, UpdateAborts, AgentCrash
<1>11. ASSUME NEW a \in Agent, NEW s \in Session,
              SessionCloses(a, s) \/ ConnectionChanges(a, s) \/ UpdateReadsSession(a, s)
       PROVE  PassInv'
  BY <1>11 DEF SessionCloses, ConnectionChanges, UpdateReadsSession
<1>12. ASSUME NEW a \in Agent, AgentReports(a) \/ AgentShutsDown(a) PROVE PassInv'
  BY <1>12 DEF AgentReports, AgentShutsDown, UpdateBegins
<1>13. ASSUME NEW a \in Agent, UpdateCommits(a) PROVE PassInv'
  BY <1>13 DEF UpdateCommits, Written
<1> QED
  BY <1>1, <1>2, <1>3, <1>4, <1>5, <1>6, <1>7, <1>8, <1>9, <1>10, <1>11, <1>12, <1>13,
     BackendMoves DEF Next, ClientStep, AgentStep

LEMMA RowStep ==
    ASSUME TypeOK, PassInv, RowInv, [Next]_vars
    PROVE  RowInv'
<1> USE AgentAssumption DEF TypeOK, StorageTypeOK, RowInv,
            agentTable, sessionTable, backend, agents, tx, history
<1>1. CASE Clock \/ UNCHANGED vars
  BY <1>1 DEF Clock, vars
<1>2. ASSUME NEW s \in Session, ClientRequest(s) \/ ClientCancel(s) PROVE RowInv'
  BY <1>2 DEF ClientRequest, RequestSession, ClientCancel, CancelSession
<1>3. CASE Marking
  BY <1>3 DEF Marking, Unseen, SetAgentsMissing
<1>4. CASE Removing
  BY <1>4 DEF Removing, Unseen, RemoveMissingAgents, Overdue, Visible
<1>5. CASE BackendListQueued \/ BackendPassDone \/ BackendNoAgentLeft \/ Failing \/ BackendCrash \/ BackendRestart
  BY <1>5 DEF BackendListQueued, BackendPassDone, BackendNoAgentLeft, Failing, Unseen, RolledBack, BackendCrash, BackendRestart
<1>6. ASSUME NEW s \in Session, Dropping(s) PROVE RowInv'
  BY <1>6 DEF Dropping, DoneWith, RolledBack, CancelSession
<1>7. ASSUME NEW s \in Session, BackendListAgents(s) PROVE RowInv'
  <2>1. cands' \subseteq Available(VramRequired(s))
    BY <1>7 DEF BackendListAgents, Answers, kSubset
  <2> QED
    BY <1>7, <2>1 DEF BackendListAgents, Available, Visible
<1>8. ASSUME NEW a \in Agent, BackendSkipsAgent(a) PROVE RowInv'
  BY <1>8 DEF BackendSkipsAgent, OthersAfter
<1>9. ASSUME NEW a \in Agent, Placing(a) PROVE RowInv'
  <2>1. CASE Visible(a) /\ AssignSession(cur, a)
    BY <1>9, <2>1 DEF Placing, TriesToAssign, RolledBack, AssignSession, Visible
  <2>2. CASE RolledBack
    BY <1>9, <2>2 DEF Placing, TriesToAssign, RolledBack
  <2> QED
    BY <2>1, <2>2, <1>9 DEF Placing
<1>10. ASSUME NEW a \in Agent, AgentStart(a) PROVE RowInv'
  BY <1>10 DEF AgentStart, RegisterAgent
<1>11. ASSUME NEW a \in Agent,
              AgentPoll(a) \/ AgentNotFound(a) \/ UpdateAborts(a) \/ AgentCrash(a)
       PROVE  RowInv'
  BY <1>11 DEF AgentPoll, AgentNotFound, UpdateAborts, AgentCrash
<1>12. ASSUME NEW a \in Agent, NEW s \in Session,
              SessionCloses(a, s) \/ ConnectionChanges(a, s) \/ UpdateReadsSession(a, s)
       PROVE  RowInv'
  BY <1>12 DEF SessionCloses, ConnectionChanges, UpdateReadsSession
<1>13. ASSUME NEW a \in Agent, AgentReports(a) \/ AgentShutsDown(a) PROVE RowInv'
  BY <1>13 DEF AgentReports, AgentShutsDown, UpdateBegins, Visible
<1>14. ASSUME NEW a \in Agent, UpdateCommits(a) PROVE RowInv'
  <2>1. \A b \in Agent : aState[b] # "none" => aState'[b] # "none"
    <3>1. CASE Visible(a)
      BY <1>14, <3>1 DEF UpdateCommits
    <3>2. CASE ~Visible(a)
      BY <1>14, <3>2 DEF UpdateCommits
    <3> QED
      BY <3>1, <3>2
  <2>2. \A b \in Agent : aState'[b] = "none" => phase'[b] = "down"
    BY <1>14, <2>1 DEF UpdateCommits
  <2> QED
    BY <1>14, <2>1, <2>2 DEF UpdateCommits
<1> QED
  BY <1>1, <1>2, <1>3, <1>4, <1>5, <1>6, <1>7, <1>8, <1>9, <1>10, <1>11, <1>12, <1>13, <1>14,
     BackendMoves DEF Next, ClientStep, AgentStep

LEMMA RunStep ==
    ASSUME TypeOK, PassInv, RowInv, RunInv, [Next]_vars
    PROVE  RunInv'
<1> USE AgentAssumption DEF TypeOK, StorageTypeOK, RunInv,
            agentTable, sessionTable, backend, agents, tx, history
<1>1. CASE Clock \/ UNCHANGED vars
  BY <1>1 DEF Clock, vars
<1>2. ASSUME NEW s \in Session, ClientRequest(s) \/ ClientCancel(s) PROVE RunInv'
  BY <1>2 DEF ClientRequest, RequestSession, ClientCancel, CancelSession
<1>3. CASE Marking \/ Removing
  BY <1>3 DEF Marking, Unseen, SetAgentsMissing, Removing, RemoveMissingAgents
<1>4. CASE BackendListQueued \/ BackendPassDone \/ BackendNoAgentLeft \/ Failing \/ BackendCrash \/ BackendRestart
  BY <1>4 DEF BackendListQueued, BackendPassDone, BackendNoAgentLeft, Failing, Unseen, RolledBack, BackendCrash, BackendRestart
<1>5. ASSUME NEW s \in Session, Dropping(s) \/ BackendListAgents(s) PROVE RunInv'
  BY <1>5 DEF Dropping, DoneWith, RolledBack, CancelSession, BackendListAgents
<1>6. ASSUME NEW a \in Agent, BackendSkipsAgent(a) PROVE RunInv'
  BY <1>6 DEF BackendSkipsAgent, OthersAfter
<1>7. ASSUME NEW a \in Agent, Placing(a) PROVE RunInv'
  <2>1. cur \in Session /\ sAgent[cur] = NoAgent
    BY <1>7, NoSessionAssumption DEF Placing, TriesToAssign, RolledBack, PassInv
  <2>2. \A b \in Agent : run[b][cur] = "idle"
    BY <2>1
  <2>3. CASE Visible(a) /\ AssignSession(cur, a)
    BY <1>7, <2>1, <2>2, <2>3 DEF Placing, TriesToAssign, RolledBack, AssignSession
  <2>4. CASE RolledBack
    BY <1>7, <2>4 DEF Placing, TriesToAssign, RolledBack
  <2> QED
    BY <2>3, <2>4, <1>7 DEF Placing
<1>8. ASSUME NEW a \in Agent, AgentStart(a) PROVE RunInv'
  <2>1. \A s \in Session : run[a][s] = "idle"
    BY <1>8 DEF AgentStart, RegisterAgent, RowInv
  <2> QED
    BY <1>8, <2>1 DEF AgentStart, RegisterAgent
<1>9. ASSUME NEW a \in Agent, AgentPoll(a) PROVE RunInv'
  <2> DEFINE started == Listed(a, "assigned")
  <2>1. \A b \in Agent, s \in Session :
           /\ run'[b][s] # "idle" <=> run[b][s] # "idle" \/ (b = a /\ s \in started)
           /\ outbox'[b][s] = IF b = a /\ s \in started THEN "active" ELSE outbox[b][s]
           /\ phase'[b] = IF b = a THEN "polled" ELSE phase[b]
    <3>1. \A s \in Session :
             run'[a][s] # "idle" <=> run[a][s] # "idle" \/ s \in started
      <4>1. PICK early \in SUBSET started : run' = [run EXCEPT ![a] = AfterTick(a, early)]
        BY <1>9 DEF AgentPoll
      <4>2. \A s \in Session : run'[a][s] = AfterTick(a, early)[s]
        BY <4>1
      <4> QED
        BY <4>1, <4>2 DEF AfterTick, ToCancel, Held
    <3>2. \A b \in Agent : b # a => run'[b] = run[b]
      BY <1>9 DEF AgentPoll
    <3>3. \A b \in Agent, s \in Session :
             /\ outbox'[b][s] = IF b = a /\ s \in started THEN "active" ELSE outbox[b][s]
             /\ phase'[b] = IF b = a THEN "polled" ELSE phase[b]
      BY <1>9 DEF AgentPoll
    <3> HIDE DEF TypeOK, StorageTypeOK, RunInv, started
    <3> QED
      BY <3>1, <3>2, <3>3
  <2>2. \A s \in Session : s \in started <=> sAgent[s] = a /\ sState[s] = "assigned"
    BY DEF Listed
  <2>3. UNCHANGED <<sState, sAgent, txReport>>
    BY <1>9 DEF AgentPoll
  <2> HIDE DEF started
  <2> QED
    BY <1>9, <2>1, <2>2, <2>3 DEF AgentPoll, AfterTick, ToCancel
<1>10. ASSUME NEW a \in Agent, AgentNotFound(a) \/ AgentCrash(a) PROVE RunInv'
  BY <1>10 DEF AgentNotFound, AgentCrash
<1>11. ASSUME NEW a \in Agent, UpdateAborts(a) PROVE RunInv'
  BY <1>11 DEF UpdateAborts, ClearTx, NoReport
<1>12. ASSUME NEW a \in Agent, NEW s \in Session,
              SessionCloses(a, s) \/ ConnectionChanges(a, s) \/ UpdateReadsSession(a, s)
       PROVE  RunInv'
  <2>1. CASE SessionCloses(a, s)
    <3>1. \A b \in Agent, t \in Session :
             /\ run'[b][t] = IF b = a /\ t = s THEN "shut" ELSE run[b][t]
             /\ outbox'[b][t] = IF b = a /\ t = s THEN "closed" ELSE outbox[b][t]
      BY <2>1 DEF SessionCloses
    <3>2. run[a][s] # "idle" /\ UNCHANGED <<sState, sAgent, phase, txReport>>
      BY <2>1 DEF SessionCloses, Held
    <3> HIDE DEF TypeOK, StorageTypeOK
    <3>3. ASSUME NEW b \in Agent, NEW t \in Session, run'[b][t] # "idle"
          PROVE  run[b][t] # "idle"
      BY <3>1, <3>2, <3>3
    <3>4. ASSUME NEW b \in Agent, NEW t \in Session
          PROVE  /\ run'[b][t] # "idle" => sAgent'[t] = b
                 /\ outbox'[b][t] # "none" => run'[b][t] # "idle"
                 /\ txReport'[b][t] # "none" => run'[b][t] # "idle"
      BY <3>1, <3>2, <3>3
    <3>5. ASSUME NEW b \in Agent, NEW t \in Session,
                 sState'[t] = "assigned", run'[b][t] # "idle", phase'[b] # "down"
          PROVE  \/ phase'[b] = "polled" /\ outbox'[b][t] \in {"active", "closed"}
                 \/ phase'[b] = "updating" /\ txReport'[b][t] \in {"active", "closed"}
      BY <3>1, <3>2, <3>3, <3>5
    <3> QED
      BY <3>4, <3>5
  <2>2. CASE ConnectionChanges(a, s)
    <3>1. \A b \in Agent, t \in Session :
             outbox'[b][t] = IF b = a /\ t = s THEN "touch" ELSE outbox[b][t]
      BY <2>2 DEF ConnectionChanges
    <3>2. /\ run[a][s] # "idle" /\ outbox[a][s] = "none"
          /\ UNCHANGED <<sState, sAgent, phase, run, txReport>>
      BY <2>2 DEF ConnectionChanges, Held
    <3> HIDE DEF TypeOK, StorageTypeOK
    <3>3. ASSUME NEW b \in Agent, NEW t \in Session, run'[b][t] # "idle"
          PROVE  run[b][t] # "idle"
      BY <3>1, <3>2, <3>3
    <3>4. ASSUME NEW b \in Agent, NEW t \in Session
          PROVE  /\ run'[b][t] # "idle" => sAgent'[t] = b
                 /\ outbox'[b][t] # "none" => run'[b][t] # "idle"
                 /\ txReport'[b][t] # "none" => run'[b][t] # "idle"
      BY <3>1, <3>2, <3>3
    <3>5. ASSUME NEW b \in Agent, NEW t \in Session,
                 sState'[t] = "assigned", run'[b][t] # "idle", phase'[b] # "down"
          PROVE  \/ phase'[b] = "polled" /\ outbox'[b][t] \in {"active", "closed"}
                 \/ phase'[b] = "updating" /\ txReport'[b][t] \in {"active", "closed"}
      BY <3>1, <3>2, <3>3, <3>5
    <3> QED
      BY <3>4, <3>5
  <2>3. CASE UpdateReadsSession(a, s)
    BY <2>3 DEF UpdateReadsSession
  <2> QED
    BY <1>12, <2>1, <2>2, <2>3
<1>13. ASSUME NEW a \in Agent, AgentReports(a) PROVE RunInv'
  BY <1>13 DEF AgentReports, UpdateBegins, NoReport
<1>14. ASSUME NEW a \in Agent, AgentShutsDown(a) PROVE RunInv'
  BY <1>14 DEF AgentShutsDown, UpdateBegins, NoReport
<1>15. ASSUME NEW a \in Agent, UpdateCommits(a) PROVE RunInv'
  BY <1>15 DEF UpdateCommits, Written, ClearTx, NoReport
<1> QED
  BY <1>1, <1>2, <1>3, <1>4, <1>5, <1>6, <1>7, <1>8, <1>9, <1>10, <1>11, <1>12, <1>13, <1>14, <1>15,
     BackendMoves DEF Next, ClientStep, AgentStep

LEMMA StartInit == Init => PassInv /\ RowInv /\ RunInv
  BY AgentAssumption DEF Init, StorageInit, PassInv, RowInv, RunInv, NoReport

\* A session is placed at most once and started at most once, whatever the
\* interleaving of the backend, the clients and the agents' updates.
THEOREM StartedOnceHolds == Spec => []StartedOnce
<1>1. Init => TypeOK /\ PassInv /\ RowInv /\ RunInv
  BY TypeInit, StartInit
<1>2. TypeOK /\ PassInv /\ RowInv /\ RunInv /\ [Next]_vars
          => (TypeOK /\ PassInv /\ RowInv /\ RunInv)'
  BY TypeStep, PassStep, RowStep, RunStep
<1>3. RunInv => StartedOnce
  BY DEF RunInv, StartedOnce, Listed
<1> QED
  BY <1>1, <1>2, <1>3, PTL DEF Spec

----------------------------------------------------------------------------
(* The VRAM an agent offers.                                               *)

LEMMA ReportStep ==
    ASSUME TypeOK, PassInv, RowInv, RunInv, ReportInv, [Next]_vars
    PROVE  ReportInv'
<1> USE DEF ReportInv, ClosedIsLast, NothingAfterClosed, agentTable, sessionTable, backend, agents, tx, history
<1>1. CASE Clock \/ UNCHANGED vars
  BY <1>1 DEF Clock, vars
<1>2. ASSUME NEW s \in Session, sState[s] # "none", CancelSession(s),
             UNCHANGED <<run, outbox, phase, txReport, txTodo>>
      PROVE  ReportInv'
  <2>1. \A t \in Session : sState'[t] = IF t # s THEN sState[t]
                             ELSE IF sAgent[s] = NoAgent \/ sAgent[s] \in deleted
                             THEN "closed" ELSE "canceling"
    BY <1>2 DEF CancelSession, TypeOK, StorageTypeOK
  <2>2. UNCHANGED <<sAgent, deleted>>
    BY <1>2 DEF CancelSession
  <2> QED
    BY <1>2, <2>1, <2>2, AgentAssumption
<1>3. ASSUME NEW s \in Session, ClientRequest(s) PROVE ReportInv'
  BY <1>3 DEF ClientRequest, RequestSession, TypeOK, StorageTypeOK
<1>4. ASSUME NEW s \in Session, ClientCancel(s) \/ Dropping(s) PROVE ReportInv'
  BY <1>2, <1>4 DEF ClientCancel, Dropping, DoneWith, RolledBack, CancelSession
<1>5. CASE Marking
  BY <1>5 DEF Marking, Unseen, SetAgentsMissing
<1>6. CASE Removing
  BY <1>6 DEF Removing, Unseen, RemoveMissingAgents
<1>7. CASE BackendListQueued \/ BackendPassDone \/ BackendNoAgentLeft \/ Failing \/ BackendCrash \/ BackendRestart
  BY <1>7 DEF BackendListQueued, BackendPassDone, BackendNoAgentLeft, Failing, Unseen, RolledBack, BackendCrash, BackendRestart
<1>8. ASSUME NEW s \in Session, BackendListAgents(s) PROVE ReportInv'
  BY <1>8 DEF BackendListAgents
<1>9. ASSUME NEW a \in Agent, BackendSkipsAgent(a) PROVE ReportInv'
  BY <1>9 DEF BackendSkipsAgent, OthersAfter
<1>10. ASSUME NEW a \in Agent, Placing(a) PROVE ReportInv'
  <2>1. CASE Visible(a) /\ AssignSession(cur, a)
    <3>1. \A t \in Session : sState'[t] = IF t = cur THEN "assigned" ELSE sState[t]
      BY <1>10, <2>1 DEF Placing, TriesToAssign, RolledBack, AssignSession, TypeOK, StorageTypeOK
    <3>2. \A t \in Session : t # cur => sAgent'[t] = sAgent[t]
      BY <1>10, <2>1 DEF Placing, TriesToAssign, RolledBack, AssignSession, TypeOK, StorageTypeOK
    <3>3. UNCHANGED <<run, outbox, phase, txReport, txTodo, deleted>>
      BY <1>10, <2>1 DEF Placing, TriesToAssign, RolledBack, AssignSession
    <3> QED
      BY <3>1, <3>2, <3>3
  <2>2. CASE RolledBack
    BY <1>10, <2>2 DEF Placing, TriesToAssign, RolledBack
  <2> QED
    BY <2>1, <2>2, <1>10 DEF Placing
<1>11. ASSUME NEW a \in Agent, AgentStart(a) PROVE ReportInv'
  <2>1. \A b \in Agent : phase'[b] = IF b = a THEN "idle" ELSE phase[b]
    BY <1>11 DEF AgentStart, TypeOK
  <2>2. phase[a] = "down"
    BY <1>11 DEF AgentStart, RegisterAgent, RowInv
  <2>3. UNCHANGED <<sessionTable, run, outbox, txReport, txTodo, deleted>>
    BY <1>11 DEF AgentStart, RegisterAgent
  <2> QED
    BY <2>1, <2>2, <2>3
<1>12. ASSUME NEW a \in Agent, AgentPoll(a) PROVE ReportInv'
  <2> DEFINE started == Listed(a, "assigned")
  <2>1. \A b \in Agent, s \in Session :
           /\ run[b][s] = "shut" /\ ~(b = a /\ s \in started) => run'[b][s] = "shut"
           /\ outbox'[b][s] = IF b = a /\ s \in started THEN "active" ELSE outbox[b][s]
           /\ phase'[b] = IF b = a THEN "polled" ELSE phase[b]
    <3>1. \A s \in Session : run[a][s] = "shut" /\ s \notin started => run'[a][s] = "shut"
      <4>1. PICK early \in SUBSET started : run' = [run EXCEPT ![a] = AfterTick(a, early)]
        BY <1>12 DEF AgentPoll
      <4>2. \A s \in Session : run'[a][s] = AfterTick(a, early)[s]
        BY <4>1 DEF TypeOK
      <4> HIDE DEF ReportInv
      <4> QED
        BY <4>1, <4>2 DEF AfterTick, ToCancel, Held
    <3>2. \A b \in Agent : b # a => run'[b] = run[b]
      BY <1>12 DEF AgentPoll, TypeOK
    <3>3. \A b \in Agent, s \in Session :
             /\ outbox'[b][s] = IF b = a /\ s \in started THEN "active" ELSE outbox[b][s]
             /\ phase'[b] = IF b = a THEN "polled" ELSE phase[b]
      BY <1>12 DEF AgentPoll, TypeOK
    <3> HIDE DEF ReportInv, started
    <3> QED
      BY <3>1, <3>2, <3>3
  <2>2. \A s \in started : sState[s] = "assigned"
    BY DEF Listed
  <2>3. UNCHANGED <<sState, sAgent, deleted, txReport, txTodo>> /\ phase[a] = "idle"
    BY <1>12 DEF AgentPoll
  <2> HIDE DEF started
  <2>4. \A b \in Agent : txTodo[b] \subseteq Session
    BY DEF TypeOK
  <2>5. ASSUME NEW b \in Agent, NEW t \in Session
        PROVE  ClosedIsLast(b, t)'
    BY <2>1, <2>2, <2>3, <2>4
  <2>6. ASSUME NEW b \in Agent, NEW t \in Session PROVE NothingAfterClosed(b, t)'
    BY <2>1, <2>2, <2>3, <2>4
  <2>7. ASSUME NEW b \in Agent, NEW t \in txTodo'[b]
        PROVE  txReport'[b][t] # "none"
    BY <2>1, <2>2, <2>3, <2>4, <2>7
  <2> QED
    BY <2>5, <2>6, <2>7
<1>13. ASSUME NEW a \in Agent, AgentNotFound(a) PROVE ReportInv'
  <2>1. \A b \in Agent : phase'[b] = IF b = a THEN "down" ELSE phase[b]
    BY <1>13 DEF AgentNotFound, TypeOK
  <2>2. phase[a] # "updating"
    BY <1>13 DEF AgentNotFound
  <2> QED
    BY <1>13, <2>1, <2>2 DEF AgentNotFound
<1>14. ASSUME NEW a \in Agent, AgentCrash(a) PROVE ReportInv'
  <2>1. \A b \in Agent : phase[b] = "updating" => phase'[b] = "updating"
    BY <1>14 DEF AgentCrash, TypeOK
  <2> QED
    BY <1>14, <2>1 DEF AgentCrash
<1>15. ASSUME NEW a \in Agent, UpdateAborts(a) PROVE ReportInv'
  <2>1. \A b \in Agent, s \in Session :
           /\ txReport'[b][s] = IF b = a THEN "none" ELSE txReport[b][s]
           /\ txTodo'[b] = IF b = a THEN {} ELSE txTodo[b]
           /\ phase'[b] = IF b = a THEN "down" ELSE phase[b]
    BY <1>15 DEF UpdateAborts, ClearTx, NoReport, TypeOK
  <2>2. UNCHANGED <<sState, sAgent, deleted, run, outbox>>
    BY <1>15 DEF UpdateAborts
  <2>3. \A b \in Agent : txTodo[b] \subseteq Session
    BY DEF TypeOK
  <2>4. ASSUME NEW b \in Agent, NEW t \in txTodo'[b]
        PROVE  txReport'[b][t] # "none"
    <3>1. CASE b = a
      BY <1>15, <2>4, <3>1 DEF UpdateAborts, ClearTx, TypeOK
    <3>2. CASE b # a
      BY <1>15, <2>4, <3>2 DEF UpdateAborts, ClearTx, TypeOK
    <3> QED
      BY <3>1, <3>2
  <2>5. ASSUME NEW b \in Agent, NEW t \in Session
        PROVE  /\ txReport'[b][t] # "none" => txReport'[b][t] = txReport[b][t] /\ b # a
               /\ txReport'[b][t] # "none" => phase'[b] = phase[b]
    BY <2>1
  <2> QED
    BY <2>2, <2>4, <2>5
<1>16. ASSUME NEW a \in Agent, NEW s \in Session, SessionCloses(a, s) PROVE ReportInv'
  <2>1. \A b \in Agent, t \in Session :
           /\ run'[b][t] = IF b = a /\ t = s THEN "shut" ELSE run[b][t]
           /\ outbox'[b][t] = IF b = a /\ t = s THEN "closed" ELSE outbox[b][t]
    BY <1>16 DEF SessionCloses, TypeOK
  <2>2. UNCHANGED <<sState, sAgent, deleted, phase, txReport, txTodo>>
    BY <1>16 DEF SessionCloses
  <2>3. run[a][s] # "shut"
    BY <1>16 DEF SessionCloses, Held
  <2> QED
    BY <2>1, <2>2, <2>3
<1>17. ASSUME NEW a \in Agent, NEW s \in Session, ConnectionChanges(a, s) PROVE ReportInv'
  <2>1. \A b \in Agent, t \in Session :
           outbox'[b][t] = IF b = a /\ t = s THEN "touch" ELSE outbox[b][t]
    BY <1>17 DEF ConnectionChanges, TypeOK
  <2>2. /\ run[a][s] # "shut" /\ outbox[a][s] = "none"
        /\ UNCHANGED <<sState, sAgent, deleted, run, phase, txReport, txTodo>>
    BY <1>17 DEF ConnectionChanges, Held
  <2> QED
    BY <2>1, <2>2
<1>18. ASSUME NEW a \in Agent, AgentReports(a) PROVE ReportInv'
  <2>1. \A b \in Agent, s \in Session :
           /\ txReport'[b][s] = IF b = a THEN outbox[a][s] ELSE txReport[b][s]
           /\ outbox'[b][s] = IF b = a THEN "none" ELSE outbox[b][s]
           /\ phase'[b] = IF b = a THEN "updating" ELSE phase[b]
    BY <1>18 DEF AgentReports, UpdateBegins, NoReport, TypeOK
  <2>2. \A b \in Agent : txTodo'[b] = IF b = a THEN {s \in Session : outbox[a][s] # "none"}
                                     ELSE txTodo[b]
    BY <1>18 DEF AgentReports, UpdateBegins, TypeOK
  <2>3. UNCHANGED <<sState, sAgent, deleted, run>>
    BY <1>18 DEF AgentReports, UpdateBegins
  <2>4. \A b \in Agent : txTodo[b] \subseteq Session
    BY DEF TypeOK
  <2>5. ASSUME NEW b \in Agent, NEW t \in Session
        PROVE  ClosedIsLast(b, t)'
    BY <2>1, <2>2, <2>3, <2>4
  <2>6. ASSUME NEW b \in Agent, NEW t \in Session PROVE NothingAfterClosed(b, t)'
    BY <2>1, <2>3
  <2>7. ASSUME NEW b \in Agent, NEW t \in txTodo'[b]
        PROVE  txReport'[b][t] # "none"
    <3> USE DEF TypeOK
    <3>1. t \in Session /\ txReport'[b] = IF b = a THEN outbox[a] ELSE txReport[b]
      BY <1>18, <2>7 DEF AgentReports, UpdateBegins
    <3>2. CASE b = a
      <4>1. txTodo'[a] = {s \in Session : outbox[a][s] # "none"}
        BY <2>2
      <4> HIDE DEF TypeOK, ReportInv
      <4> QED
        BY <2>7, <3>1, <3>2, <4>1
    <3>3. CASE b # a
      <4>1. t \in txTodo[b]
        BY <2>2, <2>7, <3>3
      <4>2. txReport[b][t] # "none"
        BY <4>1
      <4> QED
        BY <3>1, <3>3, <4>2
    <3> QED
      BY <3>2, <3>3
  <2> QED
    BY <2>5, <2>6, <2>7
<1>19. ASSUME NEW a \in Agent, AgentShutsDown(a) PROVE ReportInv'
  <2>1. \A b \in Agent, s \in Session :
           /\ txReport'[b][s] = IF b = a THEN "none" ELSE txReport[b][s]
           /\ phase'[b] = IF b = a THEN "updating" ELSE phase[b]
    BY <1>19 DEF AgentShutsDown, UpdateBegins, NoReport, TypeOK
  <2>2. \A b \in Agent : txTodo'[b] = IF b = a THEN {} ELSE txTodo[b]
    <3>1. {s \in Session : NoReport[s] # "none"} = {}
      BY DEF NoReport
    <3>2. txTodo' = [txTodo EXCEPT ![a] = {}]
      BY <1>19, <3>1 DEF AgentShutsDown, UpdateBegins
    <3> QED
      BY <3>2 DEF TypeOK
  <2>3. UNCHANGED <<sState, sAgent, deleted, run, outbox>>
    BY <1>19 DEF AgentShutsDown, UpdateBegins
  <2>4. \A b \in Agent : txTodo[b] \subseteq Session
    BY DEF TypeOK
  <2> QED
    BY <2>1, <2>2, <2>3, <2>4
<1>20. ASSUME NEW a \in Agent, NEW s \in Session, UpdateReadsSession(a, s) PROVE ReportInv'
  <2>1. \A b \in Agent : txTodo'[b] \subseteq txTodo[b]
    BY <1>20 DEF UpdateReadsSession, TypeOK
  <2> QED
    BY <1>20, <2>1 DEF UpdateReadsSession
<1>21. ASSUME NEW a \in Agent, UpdateCommits(a) PROVE ReportInv'
  <2>1. \A b \in Agent, s \in Session :
           /\ txReport'[b][s] = IF b = a THEN "none" ELSE txReport[b][s]
           /\ b # a => phase'[b] = phase[b]
    BY <1>21 DEF UpdateCommits, ClearTx, NoReport, TypeOK
  <2>2. UNCHANGED <<sAgent, deleted, run, outbox>>
    BY <1>21 DEF UpdateCommits
  <2>3. \A s \in Session : sState'[s] = IF txReport[a][s] \in {"active", "closed"}
                                       THEN txReport[a][s] ELSE sState[s]
    BY <1>21 DEF UpdateCommits, Written
  <2>4. \A s \in Session : txReport[a][s] # "none" => sAgent[s] = a
    BY DEF RunInv
  <2>5. \A b \in Agent : /\ txTodo[b] \subseteq Session
                          /\ txTodo'[b] = IF b = a THEN {} ELSE txTodo[b]
    BY <1>21 DEF UpdateCommits, ClearTx, TypeOK
  <2>6. ASSUME NEW b \in Agent, NEW t \in Session
        PROVE  ClosedIsLast(b, t)'
    BY <2>1, <2>2, <2>3, <2>4, <2>5
  <2>7. ASSUME NEW b \in Agent, NEW t \in Session,
               b \notin deleted', sAgent'[t] = b, sState'[t] = "closed"
        PROVE  /\ run'[b][t] = "shut" /\ outbox'[b][t] = "none"
               /\ txReport'[b][t] \notin {"touch", "active"}
    <3>1. CASE txReport[a][t] \in {"active", "closed"}
      <4>1. b = a /\ txReport[a][t] = "closed"
        BY <2>2, <2>3, <2>4, <2>7, <3>1
      <4>2. run[a][t] = "shut" /\ outbox[a][t] = "none"
        BY <4>1
      <4> QED
        BY <2>1, <2>2, <4>1, <4>2
    <3>2. CASE txReport[a][t] \notin {"active", "closed"}
      <4>1. /\ run[b][t] = "shut" /\ outbox[b][t] = "none"
            /\ txReport[b][t] \notin {"touch", "active"}
        BY <2>2, <2>3, <2>7, <3>2
      <4> QED
        BY <2>1, <2>2, <4>1
    <3> QED
      BY <3>1, <3>2
  <2>8. ASSUME NEW b \in Agent, NEW t \in txTodo'[b]
        PROVE  txReport'[b][t] # "none"
    <3>1. CASE b = a
      BY <2>5, <2>8, <3>1
    <3>2. CASE b # a
      BY <2>1, <2>5, <2>8, <3>2
    <3> QED
      BY <3>1, <3>2
  <2> QED
    BY <2>6, <2>7, <2>8
<1> QED
  BY <1>1, <1>3, <1>4, <1>5, <1>6, <1>7, <1>8, <1>9, <1>10, <1>11, <1>12, <1>13, <1>14,
     <1>15, <1>16, <1>17, <1>18, <1>19, <1>20, <1>21,
     BackendMoves DEF Next, ClientStep, AgentStep

\* The VRAM column is only ever lowered by what it holds and only ever raised,
\* by a stale write, to what it once held: the refund is never given on a row
\* a query still sees.
LEMMA VramStep ==
    ASSUME TypeOK, PassInv, RowInv, RunInv, ReportInv, VramInv, [Next]_vars
    PROVE  VramInv'
<1> USE DEF VramInv, VramWithinTotal, agentTable, sessionTable, backend, agents, tx, history
<1>0. /\ \A a \in Agent : AgentVram(a) \in Nat /\ vramAvailable[a] \in Nat /\ txVram[a] \in Nat
      /\ \A s \in Session : VramRequired(s) \in Nat
  BY VramAssumption DEF TypeOK, StorageTypeOK
<1>1. CASE Clock \/ UNCHANGED vars
  BY <1>1 DEF Clock, vars
<1>2. ASSUME NEW s \in Session, ClientRequest(s) \/ ClientCancel(s) \/ Dropping(s)
      PROVE  VramInv'
  BY <1>2 DEF ClientRequest, RequestSession, ClientCancel, CancelSession, Dropping, DoneWith, RolledBack
<1>3. CASE Marking
  <2>1. \A a \in Agent : aState'[a] # "none" => aState[a] # "none"
    BY <1>3 DEF Marking, Unseen, SetAgentsMissing, Silent, Visible
  <2> QED
    BY <1>3, <2>1 DEF Marking, Unseen, SetAgentsMissing
<1>4. CASE Removing
  BY <1>4 DEF Removing, Unseen, RemoveMissingAgents
<1>5. CASE BackendListQueued \/ BackendPassDone \/ BackendNoAgentLeft \/ Failing \/ BackendCrash \/ BackendRestart
  BY <1>5 DEF BackendListQueued, BackendPassDone, BackendNoAgentLeft, Failing, Unseen, RolledBack, BackendCrash, BackendRestart
<1>6. ASSUME NEW s \in Session, BackendListAgents(s) PROVE VramInv'
  <2>1. cands' \subseteq Available(VramRequired(s))
    BY <1>6 DEF BackendListAgents, Answers, kSubset
  <2> QED
    BY <1>6, <2>1 DEF BackendListAgents, Available
<1>7. ASSUME NEW a \in Agent, BackendSkipsAgent(a) PROVE VramInv'
  BY <1>7 DEF BackendSkipsAgent, OthersAfter
<1>8. ASSUME NEW a \in Agent, Placing(a) PROVE VramInv'
  <2>1. CASE Visible(a) /\ AssignSession(cur, a)
    <3> DEFINE v == vramAvailable[a]
               r == VramRequired(cur)
    <3>1. bpc = "agents" /\ a \in cands /\ cur \in Session
      BY <1>8 DEF Placing, TriesToAssign, RolledBack, TypeOK
    <3>2. r <= v
      BY <3>1, <1>0
    <3>3. v \in 0..(Word - 1) /\ r \in 0..(Word - 1)
      BY <3>1, VramAssumption DEF TypeOK, StorageTypeOK
    <3>4. Minus(v, r) = v - r
      BY <3>2, <3>3, WordArithmetic
    <3>5. vramAvailable' = [vramAvailable EXCEPT ![a] = Updated(Minus(v, r), v)]
      BY <1>8, <2>1 DEF Placing, TriesToAssign, RolledBack, AssignSession
    <3>6. \A b \in Agent : b # a => vramAvailable'[b] = vramAvailable[b]
      BY <3>5 DEF TypeOK, StorageTypeOK
    <3>7. vramAvailable'[a] = IF v - r = 0 THEN v ELSE v - r
      BY <3>4, <3>5 DEF TypeOK, StorageTypeOK, Updated
    <3>8. vramAvailable'[a] \in 0..v
      <4> HIDE DEF v, r
      <4> QED
        BY <3>2, <3>3, <3>7
    <3>9. \A b \in Agent : vramAvailable'[b] \in 0..vramAvailable[b]
      BY <3>6, <3>8, <1>0
    <3>10. UNCHANGED <<aState, deleted, phase, txVram>> /\ bpc' = "sessions"
      BY <1>8, <2>1 DEF Placing, TriesToAssign, RolledBack, AssignSession
    <3> HIDE DEF v, r
    <3> QED
      BY <3>9, <3>10, <1>0
  <2>2. CASE RolledBack
    BY <1>8, <2>2 DEF Placing, TriesToAssign, RolledBack
  <2> QED
    BY <2>1, <2>2, <1>8 DEF Placing
<1>9. ASSUME NEW a \in Agent, AgentStart(a) PROVE VramInv'
  <2>1. aState[a] = "none" /\ a \notin cands
    BY <1>9 DEF AgentStart, RegisterAgent, RowInv
  <2>2. \A b \in Agent : /\ vramAvailable'[b] = IF b = a THEN AgentVram(a) ELSE vramAvailable[b]
                         /\ phase'[b] = IF b = a THEN "idle" ELSE phase[b]
                         /\ aState'[b] = IF b = a THEN "active" ELSE aState[b]
    <3>1. /\ vramAvailable' = [vramAvailable EXCEPT ![a] = AgentVram(a)]
          /\ phase' = [phase EXCEPT ![a] = "idle"]
          /\ aState' = [aState EXCEPT ![a] = "active"]
      BY <1>9 DEF AgentStart, RegisterAgent
    <3> QED
      BY <3>1 DEF TypeOK, StorageTypeOK
  <2>3. UNCHANGED <<deleted, bpc, cands, cur, txVram>> /\ cands \subseteq Agent
    BY <1>9 DEF AgentStart, RegisterAgent, TypeOK
  <2>4. VramWithinTotal'
    BY <1>0, <2>2
  <2>5. bpc' = "agents" => \A b \in cands' : vramAvailable'[b] >= VramRequired(cur')
    BY <2>1, <2>2, <2>3
  <2>6. \A b \in Agent : phase'[b] = "updating" /\ b \notin deleted' =>
           txVram'[b] \in vramAvailable'[b]..AgentVram(b)
    BY <2>2, <2>3
  <2> QED
    BY <2>4, <2>5, <2>6
<1>10. ASSUME NEW a \in Agent, AgentPoll(a) \/ AgentNotFound(a) \/ AgentCrash(a)
       PROVE  VramInv'
  <2>1. \A b \in Agent : phase'[b] = "updating" => phase[b] = "updating"
    BY <1>10 DEF AgentPoll, AgentNotFound, AgentCrash, TypeOK
  <2> QED
    BY <1>10, <2>1 DEF AgentPoll, AgentNotFound, AgentCrash
<1>11. ASSUME NEW a \in Agent, UpdateAborts(a) PROVE VramInv'
  <2>1. \A b \in Agent : /\ phase'[b] = IF b = a THEN "down" ELSE phase[b]
                         /\ b # a => txVram'[b] = txVram[b]
    <3>1. /\ phase' = [phase EXCEPT ![a] = "down"]
          /\ txVram' = [txVram EXCEPT ![a] = 0]
      BY <1>11 DEF UpdateAborts, ClearTx
    <3> QED
      BY <3>1 DEF TypeOK
  <2>2. UNCHANGED <<aState, vramAvailable, deleted, bpc, cands, cur>>
    BY <1>11 DEF UpdateAborts
  <2> QED
    BY <2>1, <2>2
<1>12. ASSUME NEW a \in Agent, NEW s \in Session, SessionCloses(a, s) \/ ConnectionChanges(a, s)
       PROVE  VramInv'
  BY <1>12 DEF SessionCloses, ConnectionChanges
<1>13. ASSUME NEW a \in Agent, AgentReports(a) \/ AgentShutsDown(a) PROVE VramInv'
  <2>1. Visible(a)
    BY <1>13 DEF AgentReports, AgentShutsDown, UpdateBegins
  <2>2. \A b \in Agent : /\ txVram'[b] = IF b = a THEN vramAvailable[a] ELSE txVram[b]
                         /\ b # a => phase'[b] = phase[b]
    <3>1. /\ phase' = [phase EXCEPT ![a] = "updating"]
          /\ txVram' = [txVram EXCEPT ![a] = vramAvailable[a]]
      BY <1>13 DEF AgentReports, AgentShutsDown, UpdateBegins
    <3> QED
      BY <3>1 DEF TypeOK
  <2>3. UNCHANGED <<aState, vramAvailable, deleted, bpc, cands, cur>>
    BY <1>13 DEF AgentReports, AgentShutsDown, UpdateBegins
  <2>4. \A b \in Agent : phase'[b] = "updating" /\ b \notin deleted' =>
           txVram'[b] \in vramAvailable'[b]..AgentVram(b)
    <3>1. vramAvailable[a] \in vramAvailable[a]..AgentVram(a)
      BY <1>0, <2>1 DEF Visible
    <3> QED
      BY <2>2, <2>3, <3>1
  <2> QED
    BY <2>3, <2>4
<1>14. ASSUME NEW a \in Agent, NEW s \in Session, UpdateReadsSession(a, s) PROVE VramInv'
  <2>1. CASE a \in deleted
    <3>1. \A b \in Agent : b # a => txVram'[b] = txVram[b]
      BY <1>14 DEF UpdateReadsSession, TypeOK
    <3> QED
      BY <1>14, <2>1, <3>1 DEF UpdateReadsSession
  <2>2. CASE a \notin deleted
    <3>1. txReport[a][s] # "none"
      BY <1>14 DEF UpdateReadsSession, ReportInv
    <3>2. sAgent[s] = a
      BY <3>1 DEF RunInv
    <3>3. sState[s] = "closed" => txReport[a][s] = "closed"
      BY <2>2, <3>1, <3>2 DEF ReportInv, NothingAfterClosed, TypeOK
    <3>4. txVram' = txVram
      BY <1>14, <3>3 DEF UpdateReadsSession, TypeOK
    <3> QED
      BY <1>14, <3>4 DEF UpdateReadsSession
  <2> QED
    BY <2>1, <2>2
<1>15. ASSUME NEW a \in Agent, UpdateCommits(a) PROVE VramInv'
  <2>1. \A b \in Agent : /\ phase'[b] = "updating" => phase[b] = "updating" /\ b # a
                         /\ b # a => txVram'[b] = txVram[b]
    BY <1>15 DEF UpdateCommits, ClearTx, TypeOK
  <2>2. UNCHANGED <<deleted, bpc, cands, cur>> /\ cands \subseteq Agent
    BY <1>15 DEF UpdateCommits, TypeOK
  <2>3. CASE ~Visible(a)
    <3>1. UNCHANGED <<aState, vramAvailable>>
      BY <1>15, <2>3 DEF UpdateCommits
    <3> QED
      BY <2>1, <2>2, <3>1
  <2>4. CASE Visible(a)
    <3>1. txVram[a] \in vramAvailable[a]..AgentVram(a)
      BY <1>15, <2>4 DEF UpdateCommits, Visible
    <3>2. \A b \in Agent : vramAvailable'[b] = IF b = a THEN Updated(txVram[a], vramAvailable[a])
                                                ELSE vramAvailable[b]
      BY <1>15, <2>4 DEF UpdateCommits, TypeOK, StorageTypeOK
    <3>3. vramAvailable'[a] \in vramAvailable[a]..AgentVram(a)
      BY <1>0, <2>4, <3>1, <3>2 DEF Updated, Visible
    <3>4. \A b \in Agent : b # a => aState'[b] = aState[b]
      BY <1>15, <2>4 DEF UpdateCommits, TypeOK, StorageTypeOK
    <3>5. \A b \in Agent : vramAvailable'[b] >= vramAvailable[b] /\ vramAvailable'[b] \in Nat
      BY <1>0, <3>2, <3>3
    <3>6. VramWithinTotal'
      BY <1>0, <3>2, <3>3, <3>4
    <3>7. bpc' = "agents" => \A b \in cands' : vramAvailable'[b] >= VramRequired(cur')
      <4>1. SUFFICES ASSUME bpc = "agents", NEW b \in cands
                     PROVE  vramAvailable'[b] >= VramRequired(cur)
        BY <2>2
      <4>2. VramRequired(cur) \in Nat
        BY <4>1, <1>0 DEF TypeOK
      <4> QED
        BY <1>0, <2>2, <3>5, <4>1, <4>2
    <3>8. \A b \in Agent : phase'[b] = "updating" /\ b \notin deleted' =>
             txVram'[b] \in vramAvailable'[b]..AgentVram(b)
      BY <2>1, <2>2, <3>2
    <3> QED
      BY <3>6, <3>7, <3>8
  <2> QED
    BY <2>3, <2>4
<1> QED
  BY <1>1, <1>2, <1>3, <1>4, <1>5, <1>6, <1>7, <1>8, <1>9, <1>10, <1>11, <1>12, <1>13,
     <1>14, <1>15, BackendMoves DEF Next, ClientStep, AgentStep

LEMMA ReportInit == Init => ReportInv /\ VramInv
  BY AgentAssumption DEF Init, StorageInit, ReportInv, ClosedIsLast, NothingAfterClosed, VramInv, VramWithinTotal, NoReport

\* VramAvailable never wraps and never exceeds the agent's total, although
\* AssignSession and the transactions of UpdateAgent overwrite each other.
THEOREM VramWithinTotalHolds == Spec => []VramWithinTotal
<1> DEFINE Inv == TypeOK /\ PassInv /\ RowInv /\ RunInv /\ ReportInv /\ VramInv
<1>1. Init => Inv
  BY TypeInit, StartInit, ReportInit
<1>2. Inv /\ [Next]_vars => Inv'
  BY TypeStep, PassStep, RowStep, RunStep, ReportStep, VramStep
<1>3. Inv => VramWithinTotal
  BY DEF VramInv
<1> QED
  BY <1>1, <1>2, <1>3, PTL DEF Spec

----------------------------------------------------------------------------
(* How long an agent is kept.                                              *)

LEMMA AgeStep ==
    ASSUME TypeOK, RowInv, AgeInv, [Next]_vars
    PROVE  AgeInv'
<1> USE TimeAssumption DEF AgeInv, RemovedOnlyAfterBothDelays,
            agentTable, sessionTable, backend, agents, tx, history
<1>0. /\ \A a \in Agent : lastContact[a] \in Nat /\ updatedAt[a] \in Nat
      /\ now \in Nat /\ deleted \subseteq Agent
  BY DEF TypeOK, StorageTypeOK
<1>1. CASE Clock
  BY <1>0, <1>1 DEF Clock
<1>2. ASSUME NEW s \in Session, ClientRequest(s) \/ ClientCancel(s) \/ Dropping(s)
      PROVE  AgeInv'
  BY <1>2 DEF ClientRequest, RequestSession, ClientCancel, CancelSession, Dropping, DoneWith, RolledBack
<1>3. CASE Marking
  <2>1. \A a \in Agent :
           /\ aState'[a] = IF a \in Silent THEN "missing" ELSE aState[a]
           /\ updatedAt'[a] = IF a \in Silent THEN now ELSE updatedAt[a]
    BY <1>3 DEF Marking, Unseen, SetAgentsMissing
  <2>2. \A a \in Silent : updatedAt[a] + MissingAfter <= now
    BY DEF Silent
  <2>3. UNCHANGED <<deleted, now, lastContact>>
    BY <1>3 DEF Marking, Unseen, SetAgentsMissing
  <2>4. ASSUME NEW a \in Agent
        PROVE  /\ lastContact'[a] <= updatedAt'[a] /\ updatedAt'[a] <= now'
               /\ aState'[a] = "missing" => lastContact'[a] + MissingAfter <= updatedAt'[a]
    BY <1>0, <2>1, <2>2, <2>3
  <2> QED
    BY <2>3, <2>4
<1>4. CASE Removing
  <2>1. UNCHANGED <<aState, updatedAt, now, lastContact>>
    BY <1>4 DEF Removing, Unseen, RemoveMissingAgents
  <2>2. ASSUME NEW a \in deleted', a \notin deleted
        PROVE  a \in Agent /\ aState[a] = "missing" /\ updatedAt[a] + RemoveAfter <= now
    BY <1>4, <2>2 DEF Removing, Unseen, RemoveMissingAgents, Overdue
  <2>3. ASSUME NEW a \in deleted' PROVE lastContact[a] + MissingAfter + RemoveAfter <= now
    <3>1. CASE a \in deleted
      BY <3>1
    <3>2. CASE a \notin deleted
      BY <1>0, <2>2, <2>3, <3>2
    <3> QED
      BY <3>1, <3>2
  <2> QED
    BY <2>1, <2>3
<1>5. CASE \/ BackendListQueued \/ BackendPassDone \/ BackendNoAgentLeft
           \/ Failing \/ BackendCrash \/ BackendRestart \/ UNCHANGED vars
  BY <1>5 DEF BackendListQueued, BackendPassDone, BackendNoAgentLeft, BackendCrash,
              BackendRestart, Failing, Unseen, RolledBack, vars
<1>6. ASSUME NEW s \in Session, BackendListAgents(s) PROVE AgeInv'
  BY <1>6 DEF BackendListAgents
<1>7. ASSUME NEW a \in Agent, BackendSkipsAgent(a) PROVE AgeInv'
  BY <1>7 DEF BackendSkipsAgent, OthersAfter
<1>8. ASSUME NEW a \in Agent, Placing(a) PROVE AgeInv'
  <2>1. CASE Visible(a) /\ AssignSession(cur, a)
    <3>1. \A b \in Agent : updatedAt'[b] = IF b = a THEN now ELSE updatedAt[b]
      BY <1>8, <2>1 DEF Placing, TriesToAssign, RolledBack, AssignSession, TypeOK, StorageTypeOK
    <3>2. UNCHANGED <<aState, deleted, now, lastContact>>
      BY <1>8, <2>1 DEF Placing, TriesToAssign, RolledBack, AssignSession
    <3>3. ASSUME NEW b \in Agent
          PROVE  /\ lastContact'[b] <= updatedAt'[b] /\ updatedAt'[b] <= now'
                 /\ aState'[b] = "missing" => lastContact'[b] + MissingAfter <= updatedAt'[b]
      BY <1>0, <3>1, <3>2
    <3> QED
      BY <3>2, <3>3
  <2>2. CASE RolledBack
    BY <1>8, <2>2 DEF Placing, TriesToAssign, RolledBack
  <2> QED
    BY <2>1, <2>2, <1>8 DEF Placing
<1>9. ASSUME NEW a \in Agent,
             UNCHANGED <<deleted, now>>,
             a \notin deleted,
             \A b \in Agent : /\ lastContact'[b] = IF b = a THEN now ELSE lastContact[b]
                              /\ updatedAt'[b] = IF b = a THEN now ELSE updatedAt[b]
                              /\ b # a => aState'[b] = aState[b],
             aState'[a] # "missing"
      PROVE  AgeInv'
  <2>1. ASSUME NEW b \in Agent
        PROVE  /\ lastContact'[b] <= updatedAt'[b] /\ updatedAt'[b] <= now'
               /\ aState'[b] = "missing" => lastContact'[b] + MissingAfter <= updatedAt'[b]
    BY <1>0, <1>9
  <2>2. ASSUME NEW b \in deleted' PROVE lastContact'[b] + MissingAfter + RemoveAfter <= now'
    BY <1>0, <1>9
  <2> QED
    BY <2>1, <2>2
<1>10. ASSUME NEW a \in Agent, AgentStart(a) PROVE AgeInv'
  <2>1. /\ lastContact' = [lastContact EXCEPT ![a] = now]
        /\ updatedAt' = [updatedAt EXCEPT ![a] = now]
        /\ aState' = [aState EXCEPT ![a] = "active"]
        /\ UNCHANGED <<deleted, now>>
    BY <1>10 DEF AgentStart, RegisterAgent
  <2>2. a \notin deleted
    BY <1>10 DEF AgentStart, RegisterAgent, RowInv
  <2>3. /\ \A b \in Agent : /\ lastContact'[b] = IF b = a THEN now ELSE lastContact[b]
                            /\ updatedAt'[b] = IF b = a THEN now ELSE updatedAt[b]
                            /\ b # a => aState'[b] = aState[b]
        /\ aState'[a] # "missing"
    BY <2>1 DEF TypeOK, StorageTypeOK
  <2> QED
    BY <1>9, <2>1, <2>2, <2>3
<1>11. ASSUME NEW a \in Agent,
              \/ AgentPoll(a) \/ AgentNotFound(a) \/ AgentCrash(a) \/ UpdateAborts(a)
              \/ AgentReports(a) \/ AgentShutsDown(a)
       PROVE  AgeInv'
  BY <1>11 DEF AgentPoll, AgentNotFound, AgentCrash, UpdateAborts, AgentReports,
               AgentShutsDown, UpdateBegins
<1>12. ASSUME NEW a \in Agent, NEW s \in Session,
              SessionCloses(a, s) \/ ConnectionChanges(a, s) \/ UpdateReadsSession(a, s)
       PROVE  AgeInv'
  BY <1>12 DEF SessionCloses, ConnectionChanges, UpdateReadsSession
<1>13. ASSUME NEW a \in Agent, UpdateCommits(a) PROVE AgeInv'
  <2>1. UNCHANGED <<deleted, now>>
    BY <1>13 DEF UpdateCommits
  <2>2. CASE Visible(a)
    <3>1. /\ lastContact' = [lastContact EXCEPT ![a] = now]
          /\ updatedAt' = [updatedAt EXCEPT ![a] = now]
          /\ aState' = [aState EXCEPT ![a] = txState[a]]
      BY <1>13, <2>2 DEF UpdateCommits
    <3>2. /\ \A b \in Agent : /\ lastContact'[b] = IF b = a THEN now ELSE lastContact[b]
                              /\ updatedAt'[b] = IF b = a THEN now ELSE updatedAt[b]
                              /\ b # a => aState'[b] = aState[b]
          /\ aState'[a] # "missing"
      BY <3>1 DEF TypeOK, StorageTypeOK
    <3>3. a \notin deleted
      BY <2>2 DEF Visible
    <3> QED
      BY <1>9, <2>1, <3>2, <3>3
  <2>3. CASE ~Visible(a)
    BY <1>13, <2>3 DEF UpdateCommits
  <2> QED
    BY <2>2, <2>3
<1> QED
  BY <1>1, <1>2, <1>3, <1>4, <1>5, <1>6, <1>7, <1>8, <1>10, <1>11, <1>12, <1>13,
     BackendMoves DEF Next, ClientStep, AgentStep

\* An agent is removed only after both delays have passed since it was last
\* heard of, for any two delays.
THEOREM RemovedOnlyAfterBothDelaysHolds == Spec => []RemovedOnlyAfterBothDelays
<1> DEFINE Inv == TypeOK /\ PassInv /\ RowInv /\ AgeInv
<1>1. Init => Inv
  BY TypeInit, StartInit DEF Init, StorageInit, AgeInv, RemovedOnlyAfterBothDelays
<1>2. Inv /\ [Next]_vars => Inv'
  BY TypeStep, PassStep, RowStep, AgeStep
<1>3. Inv => RemovedOnlyAfterBothDelays
  BY DEF AgeInv
<1> QED
  BY <1>1, <1>2, <1>3, PTL DEF Spec

----------------------------------------------------------------------------
(* The inductive invariants of the life of a session.                      *)

\* What the backend holds of a pass are rows that exist, and agents that
\* nobody but itself removes.
HeldInv ==
    /\ \A s \in pending : sState[s] # "none"
    /\ cur # NoSession => sState[cur] # "none"
    /\ bpc = "agents" => cands \cap deleted = {}

LifeInv == TypeOK /\ PassInv /\ RowInv /\ RunInv /\ HeldInv

LEMMA LifeInit == Init => LifeInv
<1> SUFFICES ASSUME Init PROVE LifeInv
  OBVIOUS
<1>1. HeldInv
  BY DEF Init, HeldInv
<1> QED
  BY <1>1, TypeInit, StartInit DEF LifeInv

\* Rows are not removed from the table of sessions.
LEMMA SessionRowsStay ==
    ASSUME TypeOK, [Next]_vars, NEW s \in Session, sState[s] # "none"
    PROVE  sState'[s] # "none"
<1> USE DEF TypeOK, StorageTypeOK, agentTable, sessionTable
<1>1. CASE UNCHANGED sState
  BY <1>1
<1>2. ASSUME NEW t \in Session, RequestSession(t) \/ CancelSession(t) PROVE sState'[s] # "none"
  BY <1>2 DEF RequestSession, CancelSession
<1>3. ASSUME NEW a \in Agent, Placing(a) PROVE sState'[s] # "none"
  BY <1>3 DEF Placing, TriesToAssign, RolledBack, AssignSession
<1>4. ASSUME NEW a \in Agent, UpdateCommits(a) PROVE sState'[s] # "none"
  BY <1>4 DEF UpdateCommits, Written
<1> QED
  BY <1>1, <1>2, <1>3, <1>4, BackendMoves
     DEF Next, vars, Clock, ClientStep, ClientRequest, ClientCancel,
         Marking, SetAgentsMissing, Removing,
         RemoveMissingAgents, Failing, Unseen,
         BackendListQueued, BackendPassDone, Dropping, DoneWith, RolledBack, BackendListAgents,
         BackendSkipsAgent, BackendNoAgentLeft, BackendRestart, BackendCrash,
         AgentStep, AgentStart, RegisterAgent, AgentPoll, AgentNotFound, SessionCloses,
         ConnectionChanges, AgentReports, AgentShutsDown, UpdateBegins, UpdateReadsSession,
         UpdateAborts, AgentCrash

LEMMA HeldStep ==
    ASSUME LifeInv, [Next]_vars
    PROVE  HeldInv'
<1> USE NoSessionAssumption DEF LifeInv, HeldInv, TypeOK, StorageTypeOK,
            agentTable, sessionTable, backend, agents, tx, history
<1>1. \A s \in Session : sState[s] # "none" => sState'[s] # "none"
  BY SessionRowsStay
<1>2. CASE UNCHANGED <<bpc, pending, cur, cands, deleted>>
  BY <1>1, <1>2
<1>3. CASE Marking
  BY <1>1, <1>3 DEF Marking, Unseen, SetAgentsMissing
<1>4. CASE Removing
  BY <1>1, <1>4 DEF Removing, Unseen, RemoveMissingAgents
<1>5. CASE BackendListQueued
  <2>1. pending' \subseteq Queued
    BY <1>5 DEF BackendListQueued, Answers, kSubset
  <2> QED
    BY <1>1, <1>5, <2>1 DEF BackendListQueued, Queued
<1>6. CASE BackendPassDone \/ Failing \/ BackendCrash \/ BackendRestart
  BY <1>1, <1>6 DEF BackendPassDone, BackendCrash, BackendRestart, Failing, Unseen, RolledBack
<1>7. ASSUME NEW s \in Session, Dropping(s) PROVE HeldInv'
  BY <1>1, <1>7 DEF Dropping, DoneWith, RolledBack, CancelSession
<1>8. ASSUME NEW s \in Session, BackendListAgents(s) PROVE HeldInv'
  <2>1. cands' \subseteq Available(VramRequired(s))
    BY <1>8 DEF BackendListAgents, Answers, kSubset
  <2> QED
    BY <1>1, <1>8, <2>1 DEF BackendListAgents, Available, Visible
<1>9. ASSUME NEW a \in Agent, BackendSkipsAgent(a) PROVE HeldInv'
  BY <1>1, <1>9 DEF BackendSkipsAgent, OthersAfter
<1>10. ASSUME NEW a \in Agent, Placing(a) PROVE HeldInv'
  BY <1>1, <1>10 DEF Placing, TriesToAssign, RolledBack, AssignSession
<1>11. CASE BackendNoAgentLeft
  BY <1>1, <1>11 DEF BackendNoAgentLeft
<1> QED
  BY <1>2, <1>3, <1>4, <1>5, <1>6, <1>7, <1>8, <1>9, <1>10, <1>11, BackendMoves
     DEF Next, vars, Clock, ClientStep, ClientRequest, ClientCancel,
         RequestSession, CancelSession, AgentStep, AgentStart, RegisterAgent, AgentPoll,
         AgentNotFound, SessionCloses, ConnectionChanges, AgentReports, AgentShutsDown,
         UpdateBegins, UpdateReadsSession, UpdateCommits, UpdateAborts, AgentCrash

LEMMA LifeInvStep ==
    ASSUME LifeInv, [Next]_vars
    PROVE  LifeInv'
  BY TypeStep, PassStep, RowStep, RunStep, HeldStep DEF LifeInv

----------------------------------------------------------------------------
(* The refinement.                                                         *)

\* A move of one session in SessionLife.
Moves(s) ==
    \/ LifeOf(s)' = LifeOf(s) /\ sAgent'[s] = sAgent[s]
    \/ LifeOf(s) = "unknown" /\ LifeOf(s)' = "waiting" /\ sAgent'[s] = sAgent[s]
    \/ LifeOf(s) = "waiting" /\ LifeOf(s)' = "placed" /\ sAgent'[s] \in Agent
    \/ LifeOf(s) = "waiting" /\ LifeOf(s)' = "dropped" /\ sAgent'[s] = sAgent[s]
    \/ LifeOf(s) = "placed" /\ LifeOf(s)' \in {"running", "over"} /\ sAgent'[s] = sAgent[s]
    \/ LifeOf(s) = "running" /\ LifeOf(s)' = "over" /\ sAgent'[s] = sAgent[s]

\* A session without an agent, which its row or the pass moves.
LEMMA UnplacedMoves ==
    ASSUME LifeInv, NEW s \in Session, sAgent[s] = NoAgent, sAgent'[s] = NoAgent,
           sState[s] # "none" => sState'[s] # "none",
           ClosedOutsideAPass(s) => ClosedOutsideAPass(s)',
           sState'[s] # "none" /\ sState[s] = "none" => ~ClosedOutsideAPass(s)'
    PROVE  Moves(s)
<1> USE AgentAssumption
<1>1. CASE sState'[s] = "none"
  BY <1>1 DEF Moves, LifeOf
<1>2. CASE sState[s] = "none" /\ sState'[s] # "none"
  BY <1>2 DEF Moves, LifeOf
<1>3. CASE sState[s] # "none"
  BY <1>3 DEF Moves, LifeOf
<1> QED
  BY <1>1, <1>2, <1>3

\* A session with an agent, which that agent moves.
LEMMA PlacedMoves ==
    ASSUME LifeInv, NEW s \in Session, NEW a \in Agent, sAgent[s] = a, sAgent'[s] = a,
           sState'[s] # "none",
           \/ run'[a][s] = run[a][s]
           \/ run[a][s] = "idle" /\ run'[a][s] \in {"open", "shut"}
           \/ run[a][s] \in {"open", "canceled"} /\ run'[a][s] \in {"canceled", "shut"}
    PROVE  Moves(s)
<1>1. sState[s] # "none" /\ ~ClosedOutsideAPass(s) /\ ~ClosedOutsideAPass(s)'
  BY AgentAssumption DEF LifeInv, PassInv, ClosedOutsideAPass
<1>2. LifeOf(s) = Progress(run[a][s]) /\ LifeOf(s)' = Progress(run'[a][s])
  BY <1>1 DEF LifeOf, Progress
<1> QED
  BY <1>2 DEF Moves, Progress

LEMMA StepMoves ==
    ASSUME LifeInv, [Next]_vars, NEW s \in Session
    PROVE  Moves(s)
<1> USE AgentAssumption DEF LifeInv, TypeOK, StorageTypeOK,
            agentTable, sessionTable, backend, agents, tx, history
<1>1. sState[s] # "none" => sState'[s] # "none"
  BY SessionRowsStay
<1>2. ASSUME UNCHANGED <<sAgent, run>>, sAgent[s] # NoAgent PROVE Moves(s)
  BY <1>1, <1>2, PlacedMoves DEF PassInv
<1>3. ASSUME UNCHANGED <<sState, sAgent, pending, cur>> PROVE UNCHANGED ClosedOutsideAPass(s)
  BY <1>3 DEF ClosedOutsideAPass
<1>4. ASSUME UNCHANGED <<sState, sAgent, run, pending, cur>> PROVE Moves(s)
  BY <1>1, <1>2, <1>3, <1>4, UnplacedMoves DEF ClosedOutsideAPass
<1>5. ASSUME NEW t \in Session, ClientRequest(t) PROVE Moves(s)
  <2>1. CASE sAgent[s] # NoAgent
    BY <1>2, <1>5, <2>1 DEF ClientRequest, RequestSession
  <2>2. CASE sAgent[s] = NoAgent
    BY <1>1, <1>5, <2>2, UnplacedMoves DEF ClientRequest, RequestSession, ClosedOutsideAPass
  <2> QED
    BY <2>1, <2>2
<1>6. ASSUME NEW t \in Session, ClientCancel(t) \/ Dropping(t) PROVE Moves(s)
  <2>1. CASE sAgent[s] # NoAgent
    BY <1>2, <1>6, <2>1 DEF ClientCancel, Dropping, DoneWith, RolledBack, CancelSession
  <2>2. CASE sAgent[s] = NoAgent
    BY <1>1, <1>6, <2>2, UnplacedMoves
       DEF ClientCancel, Dropping, DoneWith, RolledBack, CancelSession, ClosedOutsideAPass
  <2> QED
    BY <2>1, <2>2
<1>7. CASE BackendListQueued
  <2>1. pending' \subseteq Queued
    BY <1>7 DEF BackendListQueued, Answers, kSubset
  <2>2. CASE sAgent[s] # NoAgent
    BY <1>2, <1>7, <2>2 DEF BackendListQueued
  <2>3. CASE sAgent[s] = NoAgent
    BY <1>1, <1>7, <2>1, <2>3, UnplacedMoves DEF BackendListQueued, Queued, ClosedOutsideAPass
  <2> QED
    BY <2>2, <2>3
<1>8. ASSUME NEW t \in Session, BackendListAgents(t) PROVE Moves(s)
  <2>1. CASE sAgent[s] # NoAgent
    BY <1>2, <1>8, <2>1 DEF BackendListAgents
  <2>2. CASE sAgent[s] = NoAgent
    BY <1>1, <1>8, <2>2, UnplacedMoves DEF BackendListAgents, ClosedOutsideAPass
  <2> QED
    BY <2>1, <2>2
<1>9. ASSUME NEW a \in Agent, Placing(a) PROVE Moves(s)
  <2>1. CASE sAgent[s] # NoAgent
    BY <1>1, <1>9, <2>1, PlacedMoves, NoSessionAssumption
       DEF Placing, TriesToAssign, RolledBack, AssignSession, PassInv
  <2>2. CASE sAgent[s] = NoAgent /\ (RolledBack \/ (AssignSession(cur, a) /\ s # cur))
    <3>1. sState'[s] = sState[s] /\ sAgent'[s] = NoAgent
      BY <2>2 DEF RolledBack, AssignSession
    <3>2. pending' = pending /\ cur' = NoSession
      BY <1>9 DEF Placing, TriesToAssign
    <3> QED
      BY <1>1, <2>2, <3>1, <3>2, UnplacedMoves, NoSessionAssumption DEF ClosedOutsideAPass
  <2>3. CASE AssignSession(cur, a) /\ s = cur
    <3>1. sAgent[s] = NoAgent /\ sState[s] # "none" /\ ~ClosedOutsideAPass(s)
      BY <2>3, NoSessionAssumption DEF PassInv, HeldInv, ClosedOutsideAPass
    <3>2. LifeOf(s) = "waiting"
      BY <3>1 DEF LifeOf
    <3>3. sState'[s] = "assigned" /\ sAgent'[s] = a /\ UNCHANGED run
      BY <1>9, <2>3 DEF Placing, TriesToAssign, AssignSession
    <3>4. run[a][s] = "idle"
      BY <3>1 DEF RunInv
    <3>5. LifeOf(s)' = "placed"
      BY <3>3, <3>4 DEF LifeOf, Progress, ClosedOutsideAPass
    <3> QED
      BY <3>2, <3>3, <3>5 DEF Moves
  <2> QED
    BY <1>9, <2>1, <2>2, <2>3 DEF Placing
<1>10. CASE BackendNoAgentLeft \/ BackendRestart \/ BackendCrash
  <2>1. CASE sAgent[s] # NoAgent
    BY <1>2, <1>10, <2>1 DEF BackendNoAgentLeft, BackendRestart, BackendCrash
  <2>2. CASE sAgent[s] = NoAgent
    BY <1>1, <1>10, <2>2, UnplacedMoves, NoSessionAssumption
       DEF BackendNoAgentLeft, BackendRestart, BackendCrash, ClosedOutsideAPass
  <2> QED
    BY <2>1, <2>2
<1>11. ASSUME NEW a \in Agent, AgentPoll(a) PROVE Moves(s)
  <2>1. CASE sAgent[s] = NoAgent
    BY <1>1, <1>3, <1>11, <2>1, UnplacedMoves DEF AgentPoll, ClosedOutsideAPass
  <2>2. CASE sAgent[s] # NoAgent
    <3>1. PICK early \in SUBSET Listed(a, "assigned") :
              run' = [run EXCEPT ![a] = AfterTick(a, early)]
      BY <1>11 DEF AgentPoll
    <3>2. CASE sAgent[s] # a
      BY <1>1, <1>11, <2>2, <3>1, <3>2, PlacedMoves
         DEF AgentPoll, AfterTick, Listed, ToCancel, PassInv
    <3>3. CASE sAgent[s] = a
      <4>1. run'[a][s] = AfterTick(a, early)[s]
        BY <3>1
      <4>2. s \in Listed(a, "assigned") => run[a][s] = "idle"
        <5>1. phase[a] = "idle"
          BY <1>11 DEF AgentPoll
        <5>2. sState[s] = "assigned" => run[a][s] = "idle"
          BY <5>1 DEF RunInv
        <5> QED
          BY <5>2 DEF Listed
      <4>3. \/ run'[a][s] = run[a][s]
            \/ run[a][s] = "idle" /\ run'[a][s] \in {"open", "shut"}
            \/ run[a][s] \in {"open", "canceled"} /\ run'[a][s] \in {"canceled", "shut"}
        BY <4>1, <4>2 DEF AfterTick, Held
      <4> QED
        BY <1>1, <1>11, <2>2, <3>3, <4>3, PlacedMoves DEF AgentPoll, PassInv
    <3> QED
      BY <3>2, <3>3
  <2> QED
    BY <2>1, <2>2
<1>12. ASSUME NEW a \in Agent, NEW t \in Session, SessionCloses(a, t) PROVE Moves(s)
  <2>1. CASE sAgent[s] = NoAgent
    BY <1>1, <1>3, <1>12, <2>1, UnplacedMoves DEF SessionCloses, ClosedOutsideAPass
  <2>2. CASE sAgent[s] # NoAgent
    BY <1>1, <1>12, <2>2, PlacedMoves DEF SessionCloses, Held, PassInv
  <2> QED
    BY <2>1, <2>2
<1>13. ASSUME NEW a \in Agent, UpdateCommits(a) PROVE Moves(s)
  <2>1. CASE sAgent[s] # NoAgent
    BY <1>2, <1>13, <2>1 DEF UpdateCommits
  <2>2. CASE sAgent[s] = NoAgent
    <3>1. txReport[a][s] = "none"
      BY <2>2 DEF RunInv
    <3>2. sState'[s] = sState[s]
      BY <1>13, <3>1 DEF UpdateCommits, Written
    <3> QED
      BY <1>1, <1>13, <2>2, <3>2, UnplacedMoves DEF UpdateCommits, ClosedOutsideAPass
  <2> QED
    BY <2>1, <2>2
<1> QED
  BY <1>4, <1>5, <1>6, <1>7, <1>8, <1>9, <1>10, <1>11, <1>12, <1>13, BackendMoves
     DEF Next, vars, Clock, ClientStep,
         Marking, SetAgentsMissing, Removing,
         RemoveMissingAgents, Failing, Unseen, RolledBack,
         BackendPassDone, BackendSkipsAgent,
         AgentStep, AgentStart, RegisterAgent, AgentNotFound,
         ConnectionChanges, AgentReports, AgentShutsDown, UpdateBegins, UpdateReadsSession,
         UpdateAborts, AgentCrash

LEMMA RefinementInit ==
    ASSUME Init
    PROVE  Life!Init
  BY DEF Init, StorageInit, Life!Init, LifeOf

LEMMA RefinementStep ==
    ASSUME LifeInv, [Next]_vars
    PROVE  [Life!Next]_(Life!lifeVars)
<1> SUFFICES ASSUME NEW s \in Session
             PROVE  \/ Life!Request(s) \/ Life!Place(s) \/ Life!Drop(s)
                    \/ Life!Start(s) \/ Life!End(s) \/ Life!Sleep(s)
  BY DEF Life!Next
<1>1. Moves(s)
  BY StepMoves
<1> QED
  BY <1>1 DEF Moves, Life!Request, Life!Place, Life!Drop, Life!Start, Life!End, Life!Sleep,
              Life!Goes, Life!Stays

\* The storage, the backend and the agents implement what SessionLife promises
\* of every session: placed once and for good, run once, or dropped for good.
THEOREM ImplementsSessionLifeHolds == Spec => ImplementsSessionLife
<1>1. LifeInv /\ [Next]_vars => LifeInv' /\ [Life!Next]_(Life!lifeVars)
  BY LifeInvStep, RefinementStep
<1> QED
  BY <1>1, LifeInit, RefinementInit, PTL DEF Spec, ImplementsSessionLife, Life!Spec

\* A session cancelled before it was placed, and not in the pass under way,
\* stays closed and is never placed: no query, cancel or report brings it back.
THEOREM CancelledBeforePlacementIsFinalHolds == Spec => CancelledBeforePlacementIsFinal
<1>1. ASSUME LifeInv, [Next]_vars, NEW s \in Session, ClosedOutsideAPass(s)
      PROVE  ClosedOutsideAPass(s)'
  <2>1. LifeOf(s) = "dropped"
    BY <1>1 DEF LifeOf, ClosedOutsideAPass
  <2>2. LifeOf(s)' = "dropped"
    BY <1>1, <2>1, StepMoves DEF Moves
  <2> QED
    BY <2>2 DEF LifeOf, Progress
<1>2. LifeInv /\ [Next]_vars =>
          LifeInv' /\ [\A s \in Session : ClosedOutsideAPass(s) => ClosedOutsideAPass(s)']_vars
  BY <1>1, LifeInvStep
<1> QED
  BY <1>2, LifeInit, PTL DEF Spec, CancelledBeforePlacementIsFinal

----------------------------------------------------------------------------
(* Cancelling a session that has been active.                              *)

\* The report that makes a session active is made once: when it is stored,
\* its agent has started the session and has no other like it on the way.
StickInv ==
    /\ \A s \in seenActive : \E a \in Agent : run[a][s] # "idle"
    /\ \A a \in Agent, s \in Session :
          outbox[a][s] = "active" => s \notin seenActive /\ txReport[a][s] # "active"
    /\ \A a \in Agent, s \in Session :
          txReport[a][s] = "active" => s \notin seenActive

LEMMA StickStep ==
    ASSUME LifeInv, StickInv, [Next]_vars
    PROVE  StickInv'
<1> USE DEF LifeInv, TypeOK, StickInv, agentTable, sessionTable, backend, agents, tx, history
<1>0. \A a \in Agent, s \in Session :
          /\ run[a][s] # "idle" => sAgent[s] = a
          /\ outbox[a][s] # "none" => run[a][s] # "idle"
          /\ txReport[a][s] # "none" => run[a][s] # "idle"
  BY DEF RunInv
<1>1. CASE UNCHANGED <<run, outbox, txReport, seenActive>>
  BY <1>1
<1>2. ASSUME NEW a \in Agent, AgentPoll(a) PROVE StickInv'
  <2>1. PICK early \in SUBSET Listed(a, "assigned") :
            run' = [run EXCEPT ![a] = AfterTick(a, early)]
    BY <1>2 DEF AgentPoll
  <2>2. \A s \in Listed(a, "assigned") : run[a][s] = "idle" /\ sAgent[s] = a
    <3>1. phase[a] = "idle"
      BY <1>2 DEF AgentPoll
    <3>3. RunInv
      OBVIOUS
    <3>2. ASSUME NEW s \in Session, sState[s] = "assigned" PROVE run[a][s] = "idle"
      <4> HIDE DEF LifeInv, TypeOK, StickInv
      <4> QED
        BY <3>1, <3>2, <3>3 DEF RunInv
    <3> QED
      BY <3>2 DEF Listed
  <2>3. \A s \in Listed(a, "assigned") : s \notin seenActive /\ txReport[a][s] = "none"
    <3>1. \A s \in Listed(a, "assigned") : s \in Session
      BY DEF Listed
    <3>2. ASSUME NEW s \in Listed(a, "assigned"), NEW b \in Agent PROVE run[b][s] = "idle"
      <4> HIDE DEF LifeInv, TypeOK, StickInv
      <4>1. s \in Session /\ run[a][s] = "idle" /\ sAgent[s] = a
        BY <2>2, <3>1
      <4> QED
        BY <1>0, <4>1
    <3> QED
      BY <1>0, <3>1, <3>2
  <2>4. \A b \in Agent, s \in Session : run[b][s] # "idle" => run'[b][s] # "idle"
    BY <2>1 DEF AfterTick
  <2>5. \A b \in Agent, s \in Session :
            outbox'[b][s] = "active" =>
                outbox[b][s] = "active" \/ (b = a /\ s \in Listed(a, "assigned"))
    BY <1>2 DEF AgentPoll
  <2>6. UNCHANGED <<txReport, seenActive>>
    BY <1>2 DEF AgentPoll
  <2>7. \A s \in seenActive : s \in Session
    OBVIOUS
  <2> QED
    BY <2>3, <2>4, <2>5, <2>6, <2>7
<1>3. ASSUME NEW a \in Agent, NEW s \in Session,
             SessionCloses(a, s) \/ ConnectionChanges(a, s) PROVE StickInv'
  <2>1. \A b \in Agent, t \in Session :
            /\ run[b][t] # "idle" => run'[b][t] # "idle"
            /\ outbox'[b][t] = "active" => outbox[b][t] = "active"
    <3> HIDE DEF LifeInv, StickInv
    <3>1. /\ run \in [Agent -> [Session -> {"idle", "open", "canceled", "shut"}]]
          /\ outbox \in [Agent -> [Session -> {"none", "touch", "active", "closed"}]]
      BY DEF LifeInv
    <3> HIDE DEF TypeOK
    <3>2. CASE SessionCloses(a, s)
      BY <3>1, <3>2 DEF SessionCloses
    <3>3. CASE ConnectionChanges(a, s)
      BY <3>1, <3>3 DEF ConnectionChanges
    <3> QED
      BY <1>3, <3>2, <3>3
  <2>2. UNCHANGED <<txReport, seenActive>>
    BY <1>3 DEF SessionCloses, ConnectionChanges
  <2>3. \A t \in seenActive : t \in Session
    OBVIOUS
  <2> QED
    BY <2>1, <2>2, <2>3
<1>4. ASSUME NEW a \in Agent, AgentReports(a) PROVE StickInv'
  BY <1>4 DEF AgentReports, UpdateBegins, NoReport
<1>5. ASSUME NEW a \in Agent, AgentShutsDown(a) PROVE StickInv'
  BY <1>5 DEF AgentShutsDown, UpdateBegins, NoReport
<1>6. ASSUME NEW a \in Agent, UpdateAborts(a) PROVE StickInv'
  BY <1>6 DEF UpdateAborts, ClearTx, NoReport
<1>7. ASSUME NEW a \in Agent, UpdateCommits(a) PROVE StickInv'
  <2>1. UNCHANGED <<run, outbox>>
        /\ txReport' = [txReport EXCEPT ![a] = NoReport]
        /\ seenActive' = seenActive \cup {s \in Session : txReport[a][s] = "active"}
    BY <1>7 DEF UpdateCommits, ClearTx
  <2>2. \A s \in Session : txReport[a][s] = "active" =>
            /\ run[a][s] # "idle"
            /\ outbox[a][s] # "active"
    BY <1>0
  <2>3. ASSUME NEW s \in Session, txReport[a][s] = "active", NEW b \in Agent, b # a
        PROVE  outbox[b][s] = "none" /\ txReport[b][s] = "none"
    <3> HIDE DEF LifeInv, TypeOK, StickInv
    <3>1. sAgent[s] = a
      BY <1>0, <2>3
    <3>2. run[b][s] = "idle"
      BY <1>0, <2>3, <3>1
    <3> QED
      BY <1>0, <2>3, <3>2
  <2> QED
    BY <2>1, <2>2, <2>3 DEF NoReport
<1> QED
  BY <1>1, <1>2, <1>3, <1>4, <1>5, <1>6, <1>7, BackendMoves
     DEF Next, vars, Clock, ClientStep, ClientRequest, ClientCancel, RequestSession, CancelSession,
         Marking, SetAgentsMissing, Removing,
         RemoveMissingAgents, Failing, Unseen, BackendListQueued, BackendPassDone, Dropping, DoneWith, RolledBack,
         BackendListAgents, BackendSkipsAgent, Placing, TriesToAssign, AssignSession,
         BackendNoAgentLeft, BackendRestart, BackendCrash, AgentStep, AgentStart,
         RegisterAgent, AgentNotFound, UpdateReadsSession, AgentCrash

LEMMA CancelSticks ==
    ASSUME LifeInv, StickInv, [Next]_vars, NEW s \in seenActive, sState[s] = "canceling"
    PROVE  sState'[s] \in {"canceling", "closed"}
<1> USE DEF LifeInv, TypeOK, StorageTypeOK, agentTable, sessionTable
<1>1. s \in Session /\ sAgent[s] # NoAgent
  BY AgentAssumption DEF StickInv, RunInv
<1>2. CASE UNCHANGED sState
  BY <1>2
<1>3. ASSUME NEW t \in Session, RequestSession(t) \/ CancelSession(t)
      PROVE  sState'[s] \in {"canceling", "closed"}
  BY <1>1, <1>3 DEF RequestSession, CancelSession
<1>4. ASSUME NEW a \in Agent, Placing(a) PROVE sState'[s] \in {"canceling", "closed"}
  <2>1. s # cur
    BY <1>1, NoSessionAssumption DEF PassInv
  <2> QED
    BY <1>1, <1>4, <2>1 DEF Placing, TriesToAssign, RolledBack, AssignSession
<1>5. ASSUME NEW a \in Agent, UpdateCommits(a) PROVE sState'[s] \in {"canceling", "closed"}
  <2>1. txReport[a][s] # "active"
    BY <1>1 DEF StickInv
  <2> QED
    BY <1>1, <1>5, <2>1 DEF UpdateCommits, Written
<1> QED
  BY <1>2, <1>3, <1>4, <1>5, BackendMoves
     DEF Next, vars, Clock, ClientStep, ClientRequest, ClientCancel,
         Marking, SetAgentsMissing, Removing,
         RemoveMissingAgents, Failing, Unseen,
         BackendListQueued, BackendPassDone, Dropping, DoneWith, RolledBack, BackendListAgents,
         BackendSkipsAgent, BackendNoAgentLeft, BackendRestart, BackendCrash,
         AgentStep, AgentStart, RegisterAgent, AgentPoll, AgentNotFound, SessionCloses,
         ConnectionChanges, AgentReports, AgentShutsDown, UpdateBegins, UpdateReadsSession,
         UpdateAborts, AgentCrash

\* No report undoes the cancel of a session that has been active, although a
\* report overwrites whatever state the row is in (gorm.go, UpdateAgent).
THEOREM CancelAfterActiveSticksHolds == Spec => CancelAfterActiveSticks
<1>1. Init => StickInv
  BY DEF Init, StickInv, NoReport
<1>2. LifeInv /\ StickInv /\ [Next]_vars =>
          /\ LifeInv' /\ StickInv'
          /\ [\A s \in seenActive :
                sState[s] = "canceling" => sState'[s] \in {"canceling", "closed"}]_vars
  BY LifeInvStep, StickStep, CancelSticks
<1> QED
  BY <1>1, <1>2, LifeInit, PTL DEF Spec, CancelAfterActiveSticks

----------------------------------------------------------------------------
(* Who stops the backend.                                                  *)

\* A request without GPUs is never placed and nothing is reported of it.
EmptyInv ==
    \A s \in Session : ~ValidSession(s) =>
        sAgent[s] = NoAgent /\ s # cur /\ sState[s] \in {"none", "queued", "closed"}

\* The request a pass fails because of.
Offending(s) ==
    /\ s \notin pending
    /\ \/ ~ValidSession(s) /\ sState[s] = "closed"
       \/ /\ sState[s] # "none"
          /\ \E a \in Agent : aState[a] # "none" /\ Compatible(a, s) /\ ~Placeable(a, s)

LEMMA EmptyStep ==
    ASSUME LifeInv, EmptyInv, [Next]_vars
    PROVE  /\ EmptyInv'
           /\ \A s \in Session :
                 ~ValidSession(s) /\ sState[s] = "closed" => sState'[s] = "closed"
<1> SUFFICES ASSUME NEW s \in Session, ~ValidSession(s)
             PROVE  /\ sAgent'[s] = NoAgent /\ s # cur' /\ sState'[s] \in {"none", "queued", "closed"}
                    /\ sState[s] = "closed" => sState'[s] = "closed"
  BY DEF EmptyInv, ValidSession
<1> USE NoSessionAssumption DEF LifeInv, TypeOK, StorageTypeOK, agentTable, sessionTable
<1>1. sAgent[s] = NoAgent /\ s # cur /\ sState[s] \in {"none", "queued", "closed"}
  BY DEF EmptyInv
<1>2. CASE UNCHANGED <<sState, sAgent>> /\ cur' \in {cur, NoSession}
  BY <1>1, <1>2
<1>3. ASSUME NEW t \in Session, RequestSession(t) \/ CancelSession(t), UNCHANGED cur
      PROVE  /\ sAgent'[s] = NoAgent /\ s # cur' /\ sState'[s] \in {"none", "queued", "closed"}
             /\ sState[s] = "closed" => sState'[s] = "closed"
  BY <1>1, <1>3 DEF RequestSession, CancelSession
<1>4. ASSUME NEW t \in Session, BackendListAgents(t)
      PROVE  UNCHANGED <<sState, sAgent>> /\ s # cur'
  BY <1>4 DEF BackendListAgents
<1>5. ASSUME NEW a \in Agent, Placing(a)
      PROVE  UNCHANGED <<sState[s], sAgent[s]>> /\ cur' = NoSession
  BY <1>1, <1>5 DEF Placing, TriesToAssign, RolledBack, AssignSession
<1>6. ASSUME NEW a \in Agent, UpdateCommits(a)
      PROVE  UNCHANGED <<sState[s], sAgent, cur>>
  <2>1. txReport[a][s] = "none"
    BY <1>1, AgentAssumption DEF RunInv
  <2> QED
    BY <1>6, <2>1 DEF UpdateCommits, Written, backend
<1>7. ASSUME NEW t \in Session, Dropping(t)
      PROVE  (RequestSession(t) \/ CancelSession(t) \/ UNCHANGED <<sState, sAgent>>) /\ UNCHANGED cur
  BY <1>7 DEF Dropping, DoneWith, RolledBack
<1>8. CASE Marking \/ Removing \/ Failing
  BY <1>2, <1>8 DEF Marking, SetAgentsMissing, Removing, RemoveMissingAgents, Failing, RolledBack
<1>9. CASE \/ BackendListQueued \/ BackendPassDone \/ BackendNoAgentLeft \/ BackendRestart
           \/ BackendCrash \/ \E a \in Agent : BackendSkipsAgent(a)
  BY <1>2, <1>9 DEF BackendListQueued, BackendPassDone, BackendNoAgentLeft, BackendRestart,
                    BackendCrash, BackendSkipsAgent
<1>10. CASE ClientStep
  BY <1>3, <1>10 DEF ClientStep, ClientRequest, ClientCancel, backend
<1>11. CASE Clock \/ UNCHANGED vars
  BY <1>2, <1>11 DEF Clock, vars, backend
<1>12. CASE AgentStep
  <2>1. ASSUME NEW a \in Agent, AgentStart(a) \/ AgentPoll(a) \/ AgentNotFound(a) \/ AgentReports(a)
                                   \/ AgentShutsDown(a) \/ UpdateAborts(a) \/ AgentCrash(a)
        PROVE  UNCHANGED <<sState, sAgent, cur>>
    BY <2>1 DEF AgentStart, RegisterAgent, AgentPoll, AgentNotFound, AgentReports,
                AgentShutsDown, UpdateBegins, UpdateAborts, AgentCrash, backend
  <2>2. ASSUME NEW a \in Agent, NEW t \in Session,
               SessionCloses(a, t) \/ ConnectionChanges(a, t) \/ UpdateReadsSession(a, t)
        PROVE  UNCHANGED <<sState, sAgent, cur>>
    BY <2>2 DEF SessionCloses, ConnectionChanges, UpdateReadsSession, backend
  <2> QED
    BY <1>1, <1>2, <1>6, <1>12, <2>1, <2>2 DEF AgentStep
<1>13. CASE BackendStep \/ BackendFault
  BY <1>1, <1>2, <1>3, <1>4, <1>5, <1>7, <1>8, <1>9, <1>13, BackendMoves
<1> QED
  BY <1>10, <1>11, <1>12, <1>13 DEF Next

\* Agents that have registered stay in the table.
LEMMA AgentRowsStay ==
    ASSUME TypeOK, [Next]_vars, NEW a \in Agent, aState[a] # "none"
    PROVE  aState'[a] # "none"
<1> USE DEF TypeOK, StorageTypeOK, agentTable
<1>1. CASE UNCHANGED aState
  BY <1>1
<1>2. CASE SetAgentsMissing
  BY <1>2 DEF SetAgentsMissing
<1>3. ASSUME NEW b \in Agent, RegisterAgent(b) PROVE aState'[a] # "none"
  BY <1>3 DEF RegisterAgent
<1>4. ASSUME NEW b \in Agent, UpdateCommits(b) PROVE aState'[a] # "none"
  <2>1. aState' = [aState EXCEPT ![b] = txState[b]] \/ UNCHANGED aState
    BY <1>4 DEF UpdateCommits
  <2> QED
    BY <2>1
<1> QED
  BY <1>1, <1>2, <1>3, <1>4, BackendMoves
     DEF Next, vars, Clock, ClientStep, ClientRequest, ClientCancel, RequestSession,
         CancelSession, Marking, Removing, RemoveMissingAgents, Failing,
         BackendListQueued, BackendPassDone, Dropping, DoneWith, RolledBack,
         BackendListAgents, BackendSkipsAgent, Placing, TriesToAssign, AssignSession,
         BackendNoAgentLeft, BackendRestart, BackendCrash, AgentStep, AgentStart,
         AgentPoll, AgentNotFound, SessionCloses, ConnectionChanges, AgentReports,
         AgentShutsDown, UpdateBegins, UpdateReadsSession, UpdateAborts, AgentCrash

LEMMA StopStep ==
    ASSUME LifeInv, EmptyInv, StopsForACause, [Next]_vars
    PROVE  StopsForACause'
<1> USE DEF LifeInv, TypeOK, StorageTypeOK
<1>1. CASE ~berr' \/ failed'
  BY <1>1 DEF StopsForACause
<1>2. ASSUME NEW s \in Session, Offending(s), pending' \subseteq pending PROVE StopsForACause'
  <2>1. /\ s \notin pending'
        /\ \/ ~ValidSession(s) /\ sState'[s] = "closed"
           \/ /\ sState'[s] # "none"
              /\ \E a \in Agent : aState'[a] # "none" /\ Compatible(a, s) /\ ~Placeable(a, s)
    BY <1>2, EmptyStep, AgentRowsStay, SessionRowsStay DEF Offending
  <2> QED
    BY <2>1 DEF StopsForACause, ValidSession, Compatible, MatchesPool, MatchesLabels,
                CanTolerate, Placeable
<1>3. CASE berr /\ (failed => failed') /\ pending' \subseteq pending
  <2>1. CASE failed
    BY <1>1, <1>3, <2>1
  <2>2. CASE ~failed
    <3>1. PICK s \in Session : Offending(s)
      BY <1>3, <2>2 DEF StopsForACause, Offending
    <3> QED
      BY <1>2, <1>3, <3>1
  <2> QED
    BY <2>1, <2>2
<1>4. CASE UNCHANGED <<berr, failed, pending>>
  <2>1. CASE berr
    BY <1>3, <1>4, <2>1
  <2>2. CASE ~berr
    BY <1>1, <1>4, <2>2
  <2> QED
    BY <2>1, <2>2
<1>5. ASSUME NEW s \in Session, BackendRejects(s) PROVE StopsForACause'
  <2>1. ~ValidSession(s) /\ sAgent[s] = NoAgent /\ s \notin pending' /\ CancelSession(s)
    BY <1>5 DEF BackendRejects, DoneWith, EmptyInv
  <2>2. sState'[s] = "closed"
    BY <2>1 DEF CancelSession
  <2> QED
    BY <2>1, <2>2 DEF StopsForACause, ValidSession
<1>6. ASSUME NEW a \in Agent, BackendSkipsAgent(a) PROVE StopsForACause'
  <2>1. CASE Compatible(a, cur)
    <3>1. /\ cur \in Session /\ cur \notin pending /\ sState[cur] # "none"
          /\ aState[a] # "none" /\ ~Placeable(a, cur) /\ UNCHANGED pending
      BY <1>6, <2>1, NoSessionAssumption DEF BackendSkipsAgent, HeldInv, RowInv, PassInv
    <3> QED
      BY <1>2, <2>1, <3>1 DEF Offending
  <2>2. CASE ~Compatible(a, cur)
    BY <1>1, <1>6, <2>2 DEF BackendSkipsAgent
  <2> QED
    BY <2>1, <2>2
<1>7. ASSUME NEW a \in Agent, BackendAssigns(a) PROVE ~berr'
  BY <1>7 DEF BackendAssigns, TriesToAssign, HeldInv, RowInv, Visible
<1>8. CASE BackendListQueued \/ BackendRestart \/ BackendFault
  BY <1>1, <1>8 DEF BackendListQueued, BackendRestart, BackendFault, BackendGivesUp, CallFails,
                    BackendPassesOver, BackendFailsToAssign, BackendCrash
<1>9. CASE BackendPassDone
  <2>1. CASE berr
    BY <1>3, <1>9, <2>1 DEF BackendPassDone
  <2>2. CASE ~berr
    BY <1>1, <1>9, <2>2 DEF BackendPassDone
  <2> QED
    BY <2>1, <2>2
<1>10. ASSUME NEW s \in Session, BackendListAgents(s) PROVE StopsForACause'
  <2>1. UNCHANGED <<berr, failed>> /\ pending' \subseteq pending
    BY <1>10 DEF BackendListAgents, history
  <2>2. CASE berr
    BY <1>3, <2>1, <2>2
  <2>3. CASE ~berr
    BY <1>1, <2>1, <2>3
  <2> QED
    BY <2>2, <2>3
<1> QED
  BY <1>1, <1>4, <1>5, <1>6, <1>7, <1>8, <1>9, <1>10
     DEF Next, vars, Clock, ClientStep, ClientRequest, ClientCancel, BackendStep,
         BackendSetMissing, BackendRemoveMissing, BackendNoAgentLeft,
         AgentStep, AgentStart, AgentPoll, AgentNotFound, SessionCloses,
         ConnectionChanges, AgentReports, AgentShutsDown, UpdateBegins, UpdateReadsSession,
         UpdateCommits, UpdateAborts, AgentCrash, backend, history

\* Backend.Run ends with an error only if a storage call failed, or for a
\* request that is there: one without GPUs, which cannot stop it a second time, or
\* one that a compatible agent cannot hold; never because an agent of its
\* list was removed, which only the backend itself does.
THEOREM StopsForACauseHolds == Spec => []StopsForACause
<1>1. Init => EmptyInv /\ StopsForACause
  BY NoSessionAssumption DEF Init, StorageInit, EmptyInv, StopsForACause
<1>2. LifeInv /\ EmptyInv /\ StopsForACause /\ [Next]_vars =>
          LifeInv' /\ EmptyInv' /\ StopsForACause'
  BY LifeInvStep, EmptyStep, StopStep
<1> QED
  BY <1>1, <1>2, LifeInit, PTL DEF Spec

----------------------------------------------------------------------------
(* What a placement promises.                                              *)

\* A session with an agent was matched against it, and its GPUs are the ones
\* Find chose.
PlacedInv ==
    \A s \in Session : sAgent[s] # NoAgent =>
        /\ Compatible(sAgent[s], s)
        /\ Placeable(sAgent[s], s)
        /\ sGpus[s] = ChosenGpus(sAgent[s], s)

LEMMA PlacedStep ==
    ASSUME TypeOK, PlacedInv, [Next]_vars
    PROVE  PlacedInv'
<1> USE DEF agentTable, sessionTable
<1>1. CASE UNCHANGED <<sAgent, sGpus>>
  BY <1>1 DEF PlacedInv, Compatible, MatchesPool, MatchesLabels, CanTolerate, Placeable, ChosenGpus
<1>2. ASSUME NEW s \in Session, RequestSession(s) \/ CancelSession(s)
      PROVE  UNCHANGED <<sAgent, sGpus>>
  BY <1>2 DEF RequestSession, CancelSession
<1>3. ASSUME NEW a \in Agent, Placing(a) PROVE PlacedInv'
  <2>1. CASE RolledBack
    BY <1>1, <1>3, <2>1 DEF Placing, TriesToAssign, RolledBack
  <2>2. CASE Visible(a) /\ AssignSession(cur, a)
    <3>1. /\ sAgent' = [sAgent EXCEPT ![cur] = a]
          /\ sGpus' = [sGpus EXCEPT ![cur] = ChosenGpus(a, cur)]
          /\ Compatible(a, cur)
          /\ Placeable(a, cur)
      BY <1>3, <2>2 DEF Placing, TriesToAssign, RolledBack, AssignSession
    <3>2. \A s \in Session :
             /\ sAgent'[s] = IF s = cur THEN a ELSE sAgent[s]
             /\ sGpus'[s] = IF s = cur THEN ChosenGpus(a, cur) ELSE sGpus[s]
      BY <3>1 DEF TypeOK, StorageTypeOK
    <3>3. ASSUME NEW s \in Session, sAgent'[s] # NoAgent
          PROVE  /\ Compatible(sAgent'[s], s)
                 /\ Placeable(sAgent'[s], s)
                 /\ sGpus'[s] = ChosenGpus(sAgent'[s], s)
      <4>1. CASE s = cur
        BY <3>1, <3>2, <4>1
      <4>2. CASE s # cur
        BY <3>2, <3>3, <4>2 DEF PlacedInv
      <4> QED
        BY <4>1, <4>2
    <3> QED
      BY <3>3 DEF PlacedInv, Compatible, MatchesPool, MatchesLabels, CanTolerate, Placeable, ChosenGpus
  <2> QED
    BY <1>3, <2>1, <2>2 DEF Placing
<1> QED
  BY <1>1, <1>2, <1>3, BackendMoves
     DEF Next, vars, Clock, ClientStep, ClientRequest, ClientCancel,
         Marking, SetAgentsMissing, Removing,
         RemoveMissingAgents, Failing, Unseen,
         BackendListQueued, BackendPassDone, Dropping, DoneWith, RolledBack, BackendListAgents,
         BackendSkipsAgent, BackendNoAgentLeft, BackendRestart, BackendCrash,
         AgentStep, AgentStart, RegisterAgent, AgentPoll, AgentNotFound, SessionCloses,
         ConnectionChanges, AgentReports, AgentShutsDown, UpdateBegins, UpdateReadsSession,
         UpdateCommits, UpdateAborts, AgentCrash

\* The GPUs Find chose are on the agent, as many as were asked for at least,
\* and each is charged no more than it has.
LEMMA ChosenGpusFit ==
    ASSUME NEW a \in Agent, NEW s \in Session
    PROVE  /\ Placeable(a, s) => Cardinality(DOMAIN ChosenGpus(a, s)) >= Len(Requirements[s].gpus)
           /\ \A i \in DOMAIN ChosenGpus(a, s) :
                 /\ i \in DOMAIN AgentInfo[a].gpus
                 /\ ChosenGpus(a, s)[i] <= AgentInfo[a].gpus[i].vram
<1> DEFINE gpus == AgentInfo[a].gpus
           wants == Requirements[s].gpus
<1>1. /\ gpus \in Seq([vram : Nat, pciBus : STRING])
      /\ wants \in Seq([vram : Nat, pciBus : STRING])
  BY GpuAssumption
<1>2. ChosenGpus(a, s) = Selection(gpus, Unused(gpus), wants)
  BY DEF ChosenGpus
<1>3. Placeable(a, s) => Cardinality(DOMAIN ChosenGpus(a, s)) >= Len(wants)
  BY DEF Placeable, FindSucceeds, ChosenGpus, Selection
<1>4. ASSUME NEW i \in DOMAIN ChosenGpus(a, s)
      PROVE  i \in DOMAIN gpus /\ ChosenGpus(a, s)[i] <= gpus[i].vram
  <2> HIDE DEF gpus, wants
  <2>1. i \in DOMAIN Selection(gpus, Unused(gpus), wants) /\ Len(wants) \in Nat
    BY <1>1, <1>2, <1>4
  <2>2. /\ i \in DOMAIN gpus
        /\ \E k \in 1..Len(wants) :
              /\ Selection(gpus, Unused(gpus), wants)[i] = wants[k].vram
              /\ Satisfies(gpus[i], Unused(gpus)[i], wants[k])
    BY <2>1, SelectionSatisfies
  <2>3. PICK k \in 1..Len(wants) :
           /\ Selection(gpus, Unused(gpus), wants)[i] = wants[k].vram
           /\ Satisfies(gpus[i], Unused(gpus)[i], wants[k])
    BY <2>2
  <2>4. gpus[i].vram \in Nat /\ wants[k].vram \in Nat
    <3> DEFINE G == [vram : Nat, pciBus : STRING]
    <3>1. i \in 1..Len(gpus) /\ gpus \in Seq(G) /\ wants \in Seq(G)
      BY <1>1, <2>2
    <3> HIDE DEF G
    <3>2. gpus[i] \in G
      BY <3>1, ElementOfSeq
    <3>3. wants[k] \in G
      BY <3>1, ElementOfSeq
    <3> USE DEF G
    <3> QED
      BY <3>2, <3>3
  <2>5. wants[k].vram # 0 => gpus[i].vram >= wants[k].vram
    BY <2>2, <2>3 DEF Satisfies, Unused
  <2> QED
    BY <1>2, <2>2, <2>3, <2>4, <2>5
<1> QED
  BY <1>3, <1>4

\* A placement honours the whole request (agentMatches and GpuSet.Find): pool,
\* labels and taints, the number of GPUs, and the VRAM of each one.
THEOREM PlacementHonoursRequestHolds == Spec => []PlacementHonoursRequest
<1>1. Init => TypeOK /\ PlacedInv
  BY TypeInit DEF Init, StorageInit, PlacedInv
<1>2. (TypeOK /\ PlacedInv) /\ [Next]_vars => (TypeOK /\ PlacedInv)'
  BY TypeStep, PlacedStep
<1>3. TypeOK /\ PlacedInv => PlacementHonoursRequest
  <2> SUFFICES ASSUME TypeOK, PlacedInv, NEW s \in Session, sAgent[s] # NoAgent
               PROVE  /\ Requirements[s].pool \in {"", AgentInfo[sAgent[s]].pool}
                      /\ \A label \in Requirements[s].matchLabels :
                            label \in AgentInfo[sAgent[s]].labels
                      /\ \A taint \in AgentInfo[sAgent[s]].taints :
                            taint \in Requirements[s].tolerates
                      /\ Cardinality(DOMAIN sGpus[s]) >= Len(Requirements[s].gpus)
                      /\ \A i \in DOMAIN sGpus[s] :
                            /\ i \in DOMAIN AgentInfo[sAgent[s]].gpus
                            /\ sGpus[s][i] <= AgentInfo[sAgent[s]].gpus[i].vram
    BY DEF PlacementHonoursRequest
  <2>1. sAgent[s] \in Agent
    BY DEF TypeOK, StorageTypeOK
  <2>2. /\ Compatible(sAgent[s], s)
        /\ Placeable(sAgent[s], s)
        /\ sGpus[s] = ChosenGpus(sAgent[s], s)
    BY DEF PlacedInv
  <2>3. /\ Requirements[s].pool \in {"", AgentInfo[sAgent[s]].pool}
        /\ \A label \in Requirements[s].matchLabels : label \in AgentInfo[sAgent[s]].labels
        /\ \A taint \in AgentInfo[sAgent[s]].taints : taint \in Requirements[s].tolerates
    BY <2>2 DEF Compatible, MatchesPool, MatchesLabels, CanTolerate
  <2> QED
    BY <2>1, <2>2, <2>3, ChosenGpusFit
<1> QED
  BY <1>1, <1>2, <1>3, PTL DEF Spec

============================================================================
