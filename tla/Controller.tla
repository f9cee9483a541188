----------------------------- MODULE Controller -----------------------------
(***************************************************************************)
(* The controller at work: the single backend matching queued sessions to  *)
(* agents, the frontends serving clients and agents, and the agents'       *)
(* update loops as the controller sees them, over the tables of            *)
(* GormStorage.  The database is PostgreSQL at READ COMMITTED.             *)
(*                                                                         *)
(* A pass of the backend is split at every storage call, an UpdateAgent    *)
(* transaction at every row it reads without a lock.  Its writes become    *)
(* visible, and meet other writers, at the commit.                         *)
(***************************************************************************)
EXTENDS GormStorage

CONSTANTS NoSession,     \* no session is being placed
          MaxTime,       \* bound: how far the clock runs
          MaxFaults,     \* bound: how often the backend is killed or a storage
                         \* call of its fails
          FaultKinds     \* bound: "kill", "call" or both

ASSUME NoSessionAssumption == NoSession \notin Session

VARIABLES
    \* Backend.update
    bpc,         \* the storage call the backend makes next
    pending,     \* the rest of the queued-session iterator
    cur,         \* the session being placed
    cands,       \* the rest of the agent iterator
    berr,        \* err # nil
    faults,      \* how often the backend was killed or a call of its failed
    \* one agent process per agent row
    phase,       \* where its update loop is
    run,         \* per session: "idle", "open" or "canceled" (both are in
                 \* agent.sessions), "shut"
    outbox,      \* per session: what the drained channels would report
    doomed,      \* agents whose loop returns after the update in progress
    \* one UpdateAgent transaction per agent
    txState,     \* the state the update carries
    txVram,      \* dbAgent.VramAvailable as read, plus refunds
    txReport,    \* the session states the update carries
    txTodo,      \* the sessions of the update not yet read
    \* history
    lastContact, \* when the agent's row was last written for the agent
    seenActive,  \* the sessions that have been active in the table
    failed       \* a storage call of this pass has failed

backend == <<bpc, pending, cur, cands, berr, faults>>
agents == <<phase, run, outbox, doomed>>
tx == <<txState, txVram, txReport, txTodo>>
history == <<lastContact, seenActive, failed>>
vars == <<agentTable, sessionTable, now, backend, agents, tx, history>>

NoReport == [s \in Session |-> "none"]

TypeOK ==
    /\ StorageTypeOK
    /\ bpc \in {"missing", "remove", "snapshot", "sessions", "agents", "stopped"}
    /\ pending \subseteq Session
    /\ cur \in Session \cup {NoSession}
    /\ bpc = "agents" => cur \in Session
    /\ cands \subseteq Agent
    /\ berr \in BOOLEAN
    /\ faults \in Nat
    /\ phase \in [Agent -> {"down", "idle", "polled", "updating"}]
    /\ run \in [Agent -> [Session -> {"idle", "open", "canceled", "shut"}]]
    /\ outbox \in [Agent -> [Session -> {"none", "touch", "active", "closed"}]]
    /\ doomed \subseteq Agent
    /\ txState \in [Agent -> {"active", "closed"}]
    /\ txVram \in [Agent -> 0..(Word - 1)]
    /\ txReport \in [Agent -> [Session -> {"none", "touch", "active", "closed"}]]
    /\ txTodo \in [Agent -> SUBSET Session]
    /\ lastContact \in [Agent -> Nat]
    /\ seenActive \subseteq Session
    /\ failed \in BOOLEAN

Init ==
    /\ StorageInit
    /\ bpc = "missing" /\ pending = {} /\ cur = NoSession /\ cands = {}
    /\ berr = FALSE /\ faults = 0
    /\ phase = [a \in Agent |-> "down"]
    /\ run = [a \in Agent |-> [s \in Session |-> "idle"]]
    /\ outbox = [a \in Agent |-> NoReport]
    /\ doomed = {}
    /\ txState = [a \in Agent |-> "active"]
    /\ txVram = [a \in Agent |-> 0]
    /\ txReport = [a \in Agent |-> NoReport]
    /\ txTodo = [a \in Agent |-> {}]
    /\ lastContact = [a \in Agent |-> 0]
    /\ seenActive = {}
    /\ failed = FALSE

Clock ==
    /\ now < MaxTime
    /\ now' = now + 1
    /\ UNCHANGED <<agentTable, sessionTable, backend, agents, tx, history>>

----------------------------------------------------------------------------
(* Clients, through a frontend.                                            *)

ClientRequest(s) ==
    /\ RequestSession(s)
    /\ UNCHANGED <<backend, agents, tx, history>>

ClientCancel(s) ==
    /\ CancelSession(s)
    /\ UNCHANGED <<backend, agents, tx, history>>

----------------------------------------------------------------------------
(* The backend.                                                            *)

\* isSubset on label maps, each a set of key-value pairs.
MatchesPool(a, s) == Requirements[s].pool = "" \/ AgentInfo[a].pool = Requirements[s].pool
MatchesLabels(a, s) == Requirements[s].matchLabels \subseteq AgentInfo[a].labels
\* Mutant of CanTolerate: a session that tolerates some taint tolerates any.
CanTolerateAny(a, s) == AgentInfo[a].taints # {} => Requirements[s].tolerates # {}
CanTolerate(a, s) == AgentInfo[a].taints \subseteq Requirements[s].tolerates

Compatible(a, s) == MatchesPool(a, s) /\ MatchesLabels(a, s) /\ CanTolerate(a, s)

\* agentMatches on an agent without sessions: Find on its unused GPUs.
Placeable(a, s) ==
    FindSucceeds(AgentInfo[a].gpus, Unused(AgentInfo[a].gpus), Requirements[s].gpus)

\* validateSession.
ValidSession(s) == Len(Requirements[s].gpus) > 0

BackendSetMissing ==
    /\ bpc = "missing"
    /\ SetAgentsMissing
    /\ bpc' = "remove"
    /\ UNCHANGED <<pending, cur, cands, berr, faults, agents, tx, history>>

BackendRemoveMissing ==
    /\ bpc = "remove"
    /\ RemoveMissingAgents
    /\ bpc' = "snapshot"
    /\ UNCHANGED <<pending, cur, cands, berr, faults, agents, tx, history>>

BackendListQueued ==
    /\ bpc = "snapshot"
    /\ pending' \in Answers(Queued)
    /\ berr' = FALSE
    /\ bpc' = "sessions"
    /\ UNCHANGED <<agentTable, sessionTable, now, cur, cands, faults, agents, tx, history>>

\* The iterator is exhausted: update returns err.  With an error Run returns
\* it and the controller's task group shuts the process down; without one it
\* waits for the next tick.
BackendPassDone ==
    /\ bpc = "sessions"
    /\ pending = {}
    /\ bpc' = IF berr THEN "stopped" ELSE "missing"
    /\ failed' = (failed /\ berr)
    /\ UNCHANGED <<agentTable, sessionTable, now, pending, cur, cands, berr,
                   faults, agents, tx, lastContact, seenActive>>

\* The pass is done with s before it has a list of agents for it.
DoneWith(s) ==
    /\ bpc = "sessions"
    /\ s \in pending
    /\ pending' = pending \ {s}
    /\ UNCHANGED <<bpc, cur, cands, agents, tx, lastContact, seenActive>>

\* A session without GPU requirements is cancelled, and that is an error.
BackendRejects(s) ==
    /\ DoneWith(s)
    /\ ~ValidSession(s)
    /\ CancelSession(s)
    /\ berr' = TRUE
    /\ UNCHANGED <<faults, failed>>

BackendListAgents(s) ==
    /\ bpc = "sessions"
    /\ s \in pending
    /\ ValidSession(s)
    /\ cands' \in Answers(Available(VramRequired(s)))
    /\ pending' = pending \ {s}
    /\ cur' = s
    /\ bpc' = "agents"
    /\ UNCHANGED <<agentTable, sessionTable, now, berr, faults, agents, tx, history>>

OthersAfter(a) == cands \ {a}

\* The next agent does not do.  A pool, label or taint mismatch clears err
\* (agentMatches returns nil, nil); a failed Find sets it.
BackendSkipsAgent(a) ==
    /\ bpc = "agents"
    /\ a \in cands
    /\ ~(Compatible(a, cur) /\ Placeable(a, cur))
    /\ cands' = OthersAfter(a)
    /\ berr' = Compatible(a, cur)
    /\ UNCHANGED <<agentTable, sessionTable, now, bpc, pending, cur, faults,
                   agents, tx, history>>

\* No agent of the list does.
BackendNoAgentLeft ==
    /\ bpc = "agents"
    /\ cands = {}
    /\ bpc' = "sessions"
    /\ cur' = NoSession
    /\ UNCHANGED <<agentTable, sessionTable, now, pending, cands, berr, faults,
                   agents, tx, history>>

RolledBack == UNCHANGED <<agentTable, sessionTable, now>>

\* The pass calls AssignSession and breaks, whatever comes of the call.
TriesToAssign(a) ==
    /\ bpc = "agents"
    /\ a \in cands
    /\ Compatible(a, cur)
    /\ Placeable(a, cur)
    /\ cands' = {}
    /\ cur' = NoSession
    /\ bpc' = "sessions"
    /\ UNCHANGED <<pending, agents, tx, lastContact, seenActive>>

\* A row that is no longer there is an error.
BackendAssigns(a) ==
    /\ TriesToAssign(a)
    /\ IF Visible(a) THEN AssignSession(cur, a) ELSE RolledBack
    /\ berr' = ~Visible(a)
    /\ UNCHANGED <<faults, failed>>

\* A storage call of the backend fails: its transaction was rolled back (the
\* connection is lost, a deadlock with UpdateAgent), or it was carried out and
\* the answer to the commit is lost.
CallFails ==
    /\ "call" \in FaultKinds
    /\ faults < MaxFaults
    /\ faults' = faults + 1
    /\ failed' = TRUE
    /\ berr' = TRUE

\* In one of the first three calls: update returns the error, and Run with it.
BackendGivesUp ==
    /\ CallFails
    /\ \/ bpc = "missing" /\ (SetAgentsMissing \/ RolledBack)
       \/ bpc = "remove" /\ (RemoveMissingAgents \/ RolledBack)
       \/ bpc = "snapshot" /\ RolledBack
    /\ bpc' = "stopped"
    /\ UNCHANGED <<pending, cur, cands, agents, tx, lastContact, seenActive>>

\* CancelSession of a session without requirements, or the query for agents of
\* another: err keeps the error and the pass goes on behind the session.
BackendPassesOver(s) ==
    /\ DoneWith(s)
    /\ CallFails
    /\ \/ ~ValidSession(s) /\ CancelSession(s)
       \/ RolledBack

\* AssignSession: likewise.
BackendFailsToAssign(a) ==
    /\ TriesToAssign(a)
    /\ CallFails
    /\ \/ Visible(a) /\ AssignSession(cur, a)
       \/ RolledBack

\* Killed, or its context is cancelled (then update returns no error); nothing of
\* the pass survives.
BackendCrash ==
    /\ bpc # "stopped"
    /\ "kill" \in FaultKinds
    /\ faults < MaxFaults
    /\ faults' = faults + 1
    /\ bpc' = "stopped"
    /\ pending' = {}
    /\ cur' = NoSession
    /\ cands' = {}
    /\ berr' = FALSE
    /\ failed' = FALSE
    /\ UNCHANGED <<agentTable, sessionTable, now, agents, tx, lastContact, seenActive>>

\* The deployment starts it again, with an empty pass.
BackendRestart ==
    /\ bpc = "stopped"
    /\ bpc' = "missing"
    /\ pending' = {}
    /\ cur' = NoSession
    /\ cands' = {}
    /\ berr' = FALSE
    /\ failed' = FALSE
    /\ UNCHANGED <<agentTable, sessionTable, now, faults, agents, tx,
                   lastContact, seenActive>>

----------------------------------------------------------------------------
(* An agent's update loop, and UpdateAgent serving it.                     *)

AgentStart(a) ==
    /\ RegisterAgent(a)
    /\ phase' = [phase EXCEPT ![a] = "idle"]
    /\ lastContact' = [lastContact EXCEPT ![a] = now]
    /\ UNCHANGED <<backend, run, outbox, doomed, tx, seenActive, failed>>

\* What GetAgentById lists for a: its sessions that are not closed.
Listed(a, state) == {s \in Session : sAgent[s] = a /\ sState[s] = state}

\* Whether s is in agent.sessions.
Held(a, s) == run[a][s] \in {"open", "canceled"}

\* Mutant of ToCancel: canceling sessions are passed over.
NothingToCancel(a) == {}
ToCancel(a) == Listed(a, "canceling")

\* What the tick does to each session, where early are the assigned ones that
\* run and end before the loop gets further.
AfterTick(a, early) ==
    [s \in Session |->
        IF s \in early THEN "shut"
        ELSE IF s \in Listed(a, "assigned") THEN "open"
        ELSE IF s \in ToCancel(a) /\ Held(a, s) THEN "canceled"
        ELSE run[a][s]]

\* The tick: fetch the row, start the assigned sessions, cancel the canceling
\* ones.  Cancelling one that is not in agent.sessions is an error, which the
\* loop returns after the update.  A session runs before the loop queues its
\* active update, so one that ends early (a DELETE at the agent) queues closed
\* first, and active is what is left to report.
AgentPoll(a) ==
    /\ phase[a] = "idle"
    /\ Visible(a)
    /\ phase' = [phase EXCEPT ![a] = "polled"]
    /\ \E early \in SUBSET Listed(a, "assigned") :
          run' = [run EXCEPT ![a] = AfterTick(a, early)]
    /\ outbox' = [outbox EXCEPT ![a] = [s \in Session |->
                  IF s \in Listed(a, "assigned") THEN "active" ELSE outbox[a][s]]]
    /\ doomed' = IF \E s \in ToCancel(a) : ~Held(a, s)
                 THEN doomed \cup {a} ELSE doomed
    /\ UNCHANGED <<agentTable, sessionTable, now, backend, tx, history>>

\* The row is gone: GetAgent or UpdateAgent answers with an error.
AgentNotFound(a) ==
    /\ phase[a] \in {"idle", "polled"}
    /\ ~Visible(a)
    /\ phase' = [phase EXCEPT ![a] = "down"]
    /\ UNCHANGED <<agentTable, sessionTable, now, backend, run, outbox, doomed, tx, history>>

\* A session's goroutine finishes (cancelled by the loop or by its client).
SessionCloses(a, s) ==
    /\ phase[a] # "down"
    /\ Held(a, s)
    /\ run' = [run EXCEPT ![a][s] = "shut"]
    /\ outbox' = [outbox EXCEPT ![a][s] = "closed"]
    /\ UNCHANGED <<agentTable, sessionTable, now, backend, phase, doomed, tx, history>>

\* A connection starts or ends: an update of the session without a state.
ConnectionChanges(a, s) ==
    /\ phase[a] # "down"
    /\ Held(a, s)
    /\ outbox[a][s] = "none"
    /\ outbox' = [outbox EXCEPT ![a][s] = "touch"]
    /\ UNCHANGED <<agentTable, sessionTable, now, backend, phase, run, doomed, tx, history>>

\* The transaction reads the agent's row.  From polled, it carries what the
\* channels held; from idle, it is the last update of an agent shutting down.
UpdateBegins(a, state, report) ==
    /\ Visible(a)
    /\ phase' = [phase EXCEPT ![a] = "updating"]
    /\ txState' = [txState EXCEPT ![a] = state]
    /\ txVram' = [txVram EXCEPT ![a] = vramAvailable[a]]
    /\ txReport' = [txReport EXCEPT ![a] = report]
    /\ txTodo' = [txTodo EXCEPT ![a] = {s \in Session : report[s] # "none"}]
    /\ UNCHANGED <<agentTable, sessionTable, now, backend, run, history>>

AgentReports(a) ==
    /\ phase[a] = "polled"
    /\ UpdateBegins(a, "active", outbox[a])
    /\ outbox' = [outbox EXCEPT ![a] = NoReport]
    /\ UNCHANGED doomed

AgentShutsDown(a) ==
    /\ phase[a] = "idle"
    /\ UpdateBegins(a, "closed", NoReport)
    /\ doomed' = doomed \cup {a}
    /\ UNCHANGED outbox

\* The transaction reads a session's row.  The refund is given when the row
\* was closed and the report is anything else (a report without a state
\* parses as unknown).
UpdateReadsSession(a, s) ==
    /\ phase[a] = "updating"
    /\ s \in txTodo[a]
    /\ txTodo' = [txTodo EXCEPT ![a] = @ \ {s}]
    /\ txVram' = [txVram EXCEPT ![a] =
                     IF sState[s] = "closed" /\ txReport[a][s] # "closed"
                     THEN Plus(@, VramRequired(s)) ELSE @]
    /\ UNCHANGED <<agentTable, sessionTable, now, backend, agents, txState, txReport, history>>

\* A transaction that ended leaves nothing behind.
ClearTx(a) ==
    /\ txState' = [txState EXCEPT ![a] = "active"]
    /\ txVram' = [txVram EXCEPT ![a] = 0]
    /\ txReport' = [txReport EXCEPT ![a] = NoReport]
    /\ txTodo' = [txTodo EXCEPT ![a] = {}]

\* Mutant of Written: a report without a state counts as active.
WrittenActive(report, state) ==
    CASE report = "none" -> state [] report = "closed" -> "closed" [] OTHER -> "active"

\* The state a report leaves in the session's row: an unknown state is the
\* zero value, which is not written.
Written(report, state) == IF report \in {"active", "closed"} THEN report ELSE state

\* The transaction writes what it reported of each session and the agent's row as it read it, and commits.
UpdateCommits(a) ==
    /\ phase[a] = "updating"
    /\ txTodo[a] = {}
    /\ phase' = [phase EXCEPT ![a] = IF a \in doomed THEN "down" ELSE "idle"]
    /\ sState' = [s \in Session |-> Written(txReport[a][s], sState[s])]
    /\ seenActive' = seenActive \cup {s \in Session : txReport[a][s] = "active"}
    /\ IF Visible(a)
       THEN /\ aState' = [aState EXCEPT ![a] = txState[a]]
            /\ vramAvailable' = [vramAvailable EXCEPT ![a] = Updated(txVram[a], @)]
            /\ updatedAt' = [updatedAt EXCEPT ![a] = now]
            /\ lastContact' = [lastContact EXCEPT ![a] = now]
       ELSE UNCHANGED <<aState, vramAvailable, updatedAt, lastContact>>
    /\ ClearTx(a)
    /\ UNCHANGED <<deleted, sAgent, sGpus, now, backend, run, outbox, doomed, failed>>

\* The frontend or its database connection fails: the transaction is rolled
\* back, and the agent, which gets an error, stops.
UpdateAborts(a) ==
    /\ phase[a] = "updating"
    /\ phase' = [phase EXCEPT ![a] = "down"]
    /\ ClearTx(a)
    /\ UNCHANGED <<agentTable, sessionTable, now, backend, run, outbox, doomed, history>>

\* The agent's machine dies; a transaction under way is not affected.
AgentCrash(a) ==
    /\ \/ /\ phase[a] \in {"idle", "polled"}
          /\ phase' = [phase EXCEPT ![a] = "down"]
          /\ UNCHANGED doomed
       \/ /\ phase[a] = "updating"
          /\ doomed' = doomed \cup {a}
          /\ UNCHANGED phase
    /\ UNCHANGED <<agentTable, sessionTable, now, backend, run, outbox, tx, history>>

----------------------------------------------------------------------------

BackendStep ==
    \/ BackendSetMissing
    \/ BackendRemoveMissing
    \/ BackendListQueued
    \/ BackendPassDone
    \/ \E s \in Session : BackendRejects(s) \/ BackendListAgents(s)
    \/ \E a \in Agent : BackendSkipsAgent(a) \/ BackendAssigns(a)
    \/ BackendNoAgentLeft
    \/ BackendRestart

BackendFault ==
    \/ BackendGivesUp
    \/ \E s \in Session : BackendPassesOver(s)
    \/ \E a \in Agent : BackendFailsToAssign(a)
    \/ BackendCrash

ClientStep == \E s \in Session : ClientRequest(s) \/ ClientCancel(s)

AgentStep ==
    \E a \in Agent :
        \/ AgentStart(a)
        \/ AgentPoll(a)
        \/ AgentNotFound(a)
        \/ \E s \in Session : SessionCloses(a, s) \/ ConnectionChanges(a, s)
        \/ AgentReports(a)
        \/ AgentShutsDown(a)
        \/ \E s \in Session : UpdateReadsSession(a, s)
        \/ UpdateCommits(a)
        \/ UpdateAborts(a)
        \/ AgentCrash(a)

Next == Clock \/ ClientStep \/ BackendStep \/ BackendFault \/ AgentStep

Spec == Init /\ [][Next]_vars

\* The backend's loop and the agents' loops keep running (a pod that stops is
\* restarted), and a session whose context is cancelled ends: the renderers
\* are started with that context, which kills them.
AgentLoop(a) ==
    \/ AgentPoll(a)
    \/ AgentNotFound(a)
    \/ AgentReports(a)
    \/ \E s \in Session : UpdateReadsSession(a, s)
    \/ UpdateCommits(a)

CanceledSessionCloses(a, s) == run[a][s] = "canceled" /\ SessionCloses(a, s)

Fairness ==
    /\ WF_vars(BackendStep)
    /\ \A a \in Agent : /\ WF_vars(AgentLoop(a))
                        /\ \A s \in Session : WF_vars(CanceledSessionCloses(a, s))

FairSpec == Spec /\ Fairness

----------------------------------------------------------------------------
(* Properties.                                                             *)

\* A session is placed at most once and so started at most once: no two agents
\* ever run it, and when an agent is about to poll, none of the assigned
\* sessions it will be given is one it has already started (agent.go,
\* registerSession, would select its GPUs and run it a second time).
StartedOnce ==
    /\ \A s \in Session, a \in Agent : run[a][s] # "idle" => sAgent[s] = a
    /\ \A a \in Agent : phase[a] = "idle" /\ Visible(a) =>
          \A s \in Listed(a, "assigned") : run[a][s] = "idle"

\* VramAvailable (a uint64 that AssignSession decreases without a check and
\* UpdateAgent writes back from a row it read without a lock) never wraps and
\* never exceeds what the agent registered with.
VramWithinTotal ==
    \A a \in Agent : aState[a] # "none" => vramAvailable[a] <= AgentVram(a)

\* A placement honours the whole request: pool, labels and taints agree, and
\* the session has at least as many GPUs as it has requirements, each one on
\* the agent and large enough for what it is charged.
PlacementHonoursRequest ==
    \A s \in Session : sAgent[s] # NoAgent =>
        LET info == AgentInfo[sAgent[s]]
            wants == Requirements[s]
        IN  /\ wants.pool \in {"", info.pool}
            /\ \A label \in wants.matchLabels : label \in info.labels
            /\ \A taint \in info.taints : taint \in wants.tolerates
            /\ Cardinality(DOMAIN sGpus[s]) >= Len(wants.gpus)
            /\ \A i \in DOMAIN sGpus[s] :
                  /\ i \in DOMAIN info.gpus
                  /\ sGpus[s][i] <= info.gpus[i].vram

\* Backend.Run gives up, and takes the controller down with it, only because
\* a storage call of the pass failed, or because of a request that is no longer
\* before the pass: one without GPUs, which is closed by then and so cannot stop the
\* backend again, whatever its client does with it; or one that a registered
\* agent is compatible with but cannot hold, which can.  It never does because
\* an agent it was about to use had been removed, and an agent that merely
\* does not suit (another pool, label or taint) is no reason.
StopsForACause ==
    berr => \/ failed
            \/ \E s \in Session \ pending :
                  \/ ~ValidSession(s) /\ sState[s] = "closed"
                  \/ /\ sState[s] # "none"
                     /\ \E a \in Agent :
                           aState[a] # "none" /\ Compatible(a, s) /\ ~Placeable(a, s)

\* An agent is removed only after it has been silent for the two delays
\* together: marking it missing touches updated_at and restarts the clock.
RemovedOnlyAfterBothDelays ==
    \A a \in deleted : lastContact[a] + MissingAfter + RemoveAfter <= now

\* A session cancelled before it had an agent stays closed, unless the backend
\* had already taken it into the pass in progress.
ClosedOutsideAPass(s) ==
    sState[s] = "closed" /\ sAgent[s] = NoAgent /\ s \notin pending /\ s # cur

CancelledBeforePlacementIsFinal ==
    [][\A s \in Session : ClosedOutsideAPass(s) => ClosedOutsideAPass(s)']_vars

\* What SessionLife calls a session its agent has not started, runs, has shut.
Progress(state) ==
    IF state = "idle" THEN "placed" ELSE IF state = "shut" THEN "over" ELSE "running"

\* How far a session is, as SessionLife tells it.
LifeOf(s) ==
    IF sState[s] = "none" THEN "unknown"
    ELSE IF ClosedOutsideAPass(s) THEN "dropped"
    ELSE IF sAgent[s] \notin Agent THEN "waiting"
    ELSE Progress(run[sAgent[s]][s])

Life == INSTANCE SessionLife WITH life <- [s \in Session |-> LifeOf(s)], home <- sAgent

\* Every session lives as SessionLife says: it is placed on one agent, for
\* good, and runs there at most once; dropped, it is never placed.  Reports
\* and cancels may arrive in any order, and agents and the backend may crash.
ImplementsSessionLife == Life!Spec

\* Once a session has been active, cancelling it is not undone by the agent's
\* reports: the only report that overwrites canceling is the first one.
CancelAfterActiveSticks ==
    [][\A s \in seenActive :
          sState[s] = "canceling" => sState'[s] \in {"canceling", "closed"}]_vars

\* A queued session does not wait forever while there is an agent it could run
\* on: sooner or later it is placed, or no such agent is left.  It needs the
\* listing queries to return every row (QueryLimit), since they have no order.
Usable(a, s) ==
    /\ Visible(a)
    /\ aState[a] = "active"
    /\ vramAvailable[a] >= VramRequired(s)
    /\ Compatible(a, s)
    /\ Placeable(a, s)

NoStarvation ==
    \A s \in Session :
        ValidSession(s) =>
            []<>~(sState[s] = "queued" /\ \E a \in Agent : Usable(a, s))

\* Cancelling a session that has been active is answered: it is closed in the
\* table, or its agent has stopped.
CancelIsAnswered ==
    \A s \in Session, a \in Agent :
        s \in seenActive /\ sAgent[s] = a /\ sState[s] = "canceling"
            ~> sState[s] = "closed" \/ phase[a] = "down"

\* The agent never has more VRAM promised on a GPU than the GPU has: the
\* assertion "maximum vram is not adhered to" of TestGetAvailableAgentsMatching.
MaximumVramAdheredTo ==
    \A a \in Agent : \A i \in DOMAIN AgentInfo[a].gpus :
        LET charged == {s \in Session : /\ sAgent[s] = a
                                        /\ sState[s] # "closed"
                                        /\ i \in DOMAIN sGpus[s]}
        IN  MapThenSumSet(LAMBDA s : sGpus[s][i], charged) <= AgentInfo[a].gpus[i].vram

============================================================================
