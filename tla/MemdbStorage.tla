---------------------------- MODULE MemdbStorage ----------------------------
(***************************************************************************)
(* The in-memory storage driver (storage/memdb) at work: the tables, the   *)
(* backend that places sessions and the agents that report.  Every         *)
(* operation is one go-memdb transaction, and there is one writer at a     *)
(* time, so an operation is an action; what makes the driver different is  *)
(* what a transaction leaves behind when it aborts or panics.              *)
(*                                                                         *)
(* go-memdb is external: an index rejects a row whose indexed string is    *)
(* empty; an "id" lookup takes exactly one argument, and none at all means *)
(* every row (GetAgents relies on it).  Time is left out: which agents     *)
(* have been silent for long enough is any set of them.                    *)
(***************************************************************************)
EXTENDS Integers, Sequences, FiniteSetsExt, SequencesExt

CONSTANTS Agent, Session, NoAgent,
          AgentVram,     \* storage.TotalVram of what each agent registers
          VramRequired   \* storage.TotalVramRequired of each request

ASSUME MemdbAssumption ==
    /\ NoAgent \notin Agent
    /\ AgentVram \in [Agent -> Nat]
    /\ VramRequired \in [Session -> Nat]

VARIABLES
    aState,        \* agents: State, "none" before and "gone" after the row
    vram,          \* agents: VramAvailable
    sessionIds,    \* agents: SessionIds
    mirror,        \* agents: the State of each session in the Sessions slice,
                   \* which every version of the row shares
    sState,        \* sessions: State, "none" and "gone" likewise
    sAgent,        \* sessions: AgentId
    writer,        \* the writer lock: free, or kept by a handler that panicked
    \* the backend
    pending,       \* the queued sessions it has listed
    placing,       \* the session and the agent it is about to assign
    up,            \* the controller's process runs, with the database in it
    \* each agent
    phase,         \* where its update loop is
    ran,           \* per session: what the agent has made of it
    \* history
    strangers,     \* ids that a call has named and that were not in their table
    wipers,        \* agents that have closed without sessions
    aborted        \* agents one of whose updates was aborted

agentTable == <<aState, vram, sessionIds, mirror>>
sessionTable == <<sState, sAgent>>
backend == <<pending, placing, up>>
agents == <<phase, ran>>
history == <<strangers, wipers, aborted>>
vars == <<agentTable, sessionTable, writer, backend, agents, history>>

Nothing == <<>>   \* no placement

MemdbTypeOK ==
    /\ aState \in [Agent -> {"none", "active", "missing", "gone"}]
    /\ vram \in [Agent -> Nat]
    /\ \A a \in Agent : sessionIds[a] \in Seq(Session)
    /\ mirror \in [Agent -> [Session -> {"", "none", "assigned", "active", "closed"}]]
    /\ sState \in [Session -> {"none", "queued", "assigned", "active", "closed", "gone"}]
    /\ sAgent \in [Session -> Agent \cup {NoAgent}]
    /\ writer \in {"free", "stuck"}
    /\ pending \subseteq Session
    /\ placing \in {Nothing} \cup (Session \X Agent)
    /\ up \in BOOLEAN
    /\ phase \in [Agent -> {"down", "idle", "polled"}]
    /\ ran \in [Agent -> [Session -> {"no", "running", "reported", "over"}]]
    /\ strangers \subseteq Agent \cup Session
    /\ wipers \subseteq Agent
    /\ aborted \subseteq Agent

Init ==
    /\ aState = [a \in Agent |-> "none"]
    /\ vram = [a \in Agent |-> 0]
    /\ sessionIds = [a \in Agent |-> <<>>]
    /\ mirror = [a \in Agent |-> [s \in Session |-> "none"]]
    /\ sState = [s \in Session |-> "none"]
    /\ sAgent = [s \in Session |-> NoAgent]
    /\ writer = "free"
    /\ pending = {} /\ placing = Nothing /\ up = TRUE
    /\ phase = [a \in Agent |-> "down"]
    /\ ran = [a \in Agent |-> [s \in Session |-> "no"]]
    /\ strangers = {} /\ wipers = {} /\ aborted = {}

Present(a) == aState[a] \in {"active", "missing"}
Stored(s) == sState[s] \notin {"none", "gone"}
Ids(a) == ToSet(sessionIds[a])

\* driver.db.Txn(true) returns.
CanWrite == up /\ writer = "free"

----------------------------------------------------------------------------
(* Agents and clients through a frontend.                                  *)

RegisterAgent(a) ==
    /\ CanWrite
    /\ aState[a] = "none"
    /\ aState' = [aState EXCEPT ![a] = "active"]
    /\ vram' = [vram EXCEPT ![a] = AgentVram[a]]
    /\ phase' = [phase EXCEPT ![a] = "idle"]
    /\ UNCHANGED <<sessionIds, mirror, sessionTable, writer, backend, ran, history>>

RequestSession(s) ==
    /\ CanWrite
    /\ sState[s] = "none"
    /\ sState' = [sState EXCEPT ![s] = "queued"]
    /\ UNCHANGED <<agentTable, sAgent, writer, backend, agents, history>>

\* CancelSession changes a copy of the row and never inserts it; for an id that
\* is not in the table, a deleted one or one that never was, Require panics and
\* the handler keeps the writer lock.
CancelSession(s) ==
    /\ CanWrite
    /\ ~Stored(s)
    /\ writer' = "stuck"
    /\ strangers' = strangers \cup {s}
    /\ UNCHANGED <<agentTable, sessionTable, backend, agents, wipers, aborted>>

GetAgentById(a) == [s \in Ids(a) |-> mirror[a][s]]
GetSessionById(s) == sState[s]

\* The agent finds its row, with the sessions' states as the Sessions slice
\* has them, and starts the assigned ones; or it finds none, and stops.
AgentPoll(a) ==
    /\ up
    /\ phase[a] = "idle"
    /\ phase' = [phase EXCEPT ![a] = IF Present(a) THEN "polled" ELSE "down"]
    /\ ran' = [ran EXCEPT ![a] = [s \in Session |->
                  IF Present(a) /\ s \in Ids(a) /\ GetAgentById(a)[s] = "assigned"
                  THEN "running" ELSE @[s]]]
    /\ UNCHANGED <<agentTable, sessionTable, writer, backend, history>>

\* The reports an agent may send: each session it runs is reported active
\* first, a change of its connections as an update without a state, and closed.
Reports(a) ==
    {report \in [Session -> {"none", "active", "", "closed"}] :
        \A s \in Session :
            /\ report[s] # "none" => ran[a][s] \in {"running", "reported"}
            /\ ran[a][s] = "running" => report[s] \in {"active", "closed"}}

\* UpdateAgent on a row that is there, in the order of SessionIds: the slice is
\* written first, then the session's row is looked up and inserted.  Bad is
\* where that fails: no such row (panic) or an empty state (abort).
Reported(a, report) == {s \in Ids(a) : report[s] # "none"}
Bad(a, report) == {i \in DOMAIN sessionIds[a] :
    LET s == sessionIds[a][i] IN report[s] # "none" /\ (~Stored(s) \/ report[s] = "")}

\* The part of the slice the loop writes before it stops.
\* Mutant of MirrorUpTo: only the row of the session is written.
MirrorKept(a, report, last) == mirror
MirrorUpTo(a, report, last) ==
    [mirror EXCEPT ![a] = [s \in Session |->
        IF \E i \in 1..last : sessionIds[a][i] = s /\ report[s] # "none"
        THEN report[s] ELSE @[s]]]

Refunded(a, report) == {s \in Reported(a, report) : report[s] = "closed"}

\* The loop appends the sessions that stay to a new slice.
Remaining(a, report) ==
    LET kept[n \in 0..Len(sessionIds[a])] ==
            IF n = 0 THEN <<>>
            ELSE IF sessionIds[a][n] \in Refunded(a, report) THEN kept[n - 1]
            ELSE Append(kept[n - 1], sessionIds[a][n])
    IN  kept[Len(sessionIds[a])]

\* The VRAM that a set of sessions takes up.
VramOf(S) == MapThenSumSet(LAMBDA s : VramRequired[s], S)

\* Mutant of Refund: nothing is given back.
NoRefund(a, report) == 0
Refund(a, report) == VramOf(Refunded(a, report))

AgentMadeOf(a, report) ==
    [ran EXCEPT ![a] = [s \in Session |->
        CASE report[s] = "closed" -> "over"
          [] report[s] = "active" -> "reported"
          [] OTHER -> @[s]]]

UpdateCommits(a, report) ==
    /\ phase[a] = "polled"
    /\ CanWrite
    /\ Present(a)
    /\ Bad(a, report) = {}
    /\ aState' = [aState EXCEPT ![a] = "active"]
    /\ mirror' = MirrorUpTo(a, report, Len(sessionIds[a]))
    /\ sState' = [s \in Session |-> IF s \in Reported(a, report) THEN report[s] ELSE sState[s]]
    /\ vram' = [vram EXCEPT ![a] = @ + Refund(a, report)]
    /\ sessionIds' = [sessionIds EXCEPT ![a] = Remaining(a, report)]
    /\ ran' = AgentMadeOf(a, report)
    /\ phase' = [phase EXCEPT ![a] = "idle"]
    /\ UNCHANGED <<sAgent, writer, backend, history>>

\* A panic is recovered by the HTTP server, which leaves the lock; any other
\* error aborts the transaction.
LockAfter(s) == IF Stored(s) THEN "free" ELSE "stuck"

\* The loop fails at its first bad session; the agent, which gets an error,
\* stops.
UpdateFails(a, report) ==
    /\ phase[a] = "polled"
    /\ CanWrite
    /\ Present(a)
    /\ Bad(a, report) # {}
    /\ mirror' = MirrorUpTo(a, report, Min(Bad(a, report)))
    /\ writer' = LockAfter(sessionIds[a][Min(Bad(a, report))])
    /\ phase' = [phase EXCEPT ![a] = "down"]
    /\ aborted' = aborted \cup {a}
    /\ UNCHANGED <<aState, vram, sessionIds, sessionTable, backend, ran, strangers, wipers>>

\* UpdateAgent for an id that is not in the table, with a report or with the
\* state closed: Require panics.  The row is gone, or the agent has registered
\* with a controller before this one: the tables do not outlive the process.
GhostReports(a) ==
    /\ phase[a] # "down" \/ aState[a] = "none"
    /\ CanWrite
    /\ ~Present(a)
    /\ writer' = "stuck"
    /\ phase' = [phase EXCEPT ![a] = "down"]
    /\ strangers' = strangers \cup {a}
    /\ UNCHANGED <<agentTable, sessionTable, backend, ran, wipers, aborted>>

\* What txn.DeleteAll("sessions", "id", ids...) deletes: with one id that
\* session, with none every session, and with more it returns an error.
\* Mutant of DeletedWith: the ids are left out.
DeletedAll(a) == Session
DeletedWith(a) == IF sessionIds[a] = <<>> THEN Session ELSE Ids(a)

\* UpdateAgent with the state closed, the last update of an agent.
AgentCloses(a) ==
    /\ phase[a] = "idle"
    /\ CanWrite
    /\ Present(a)
    /\ phase' = [phase EXCEPT ![a] = "down"]
    /\ IF Len(sessionIds[a]) > 1
       THEN UNCHANGED <<aState, sState>>
       ELSE /\ sState' = [s \in Session |->
                  IF s \in DeletedWith(a) /\ Stored(s) THEN "gone" ELSE sState[s]]
            /\ aState' = [aState EXCEPT ![a] = "gone"]
    /\ wipers' = IF sessionIds[a] = <<>> THEN wipers \cup {a} ELSE wipers
    /\ UNCHANGED <<vram, sessionIds, mirror, sAgent, writer, backend, ran, strangers, aborted>>

AgentCrash(a) ==
    /\ phase[a] # "down"
    /\ phase' = [phase EXCEPT ![a] = "down"]
    /\ UNCHANGED <<agentTable, sessionTable, writer, backend, ran, history>>

----------------------------------------------------------------------------
(* The backend's calls.                                                    *)

\* Mutant of Queued: the assigned ones are listed too.
QueuedOrAssigned == {s \in Session : sState[s] \in {"queued", "assigned"}}
Queued == {s \in Session : sState[s] = "queued"}

\* Mutant of Available: the column is not looked at.
AvailableAny(need) == {a \in Agent : aState[a] = "active"}
Available(need) == {a \in Agent : aState[a] = "active" /\ vram[a] >= need}

PassOver == pending = {} /\ placing = Nothing

\* GetQueuedSessionsIterator.
BackendLists ==
    /\ up
    /\ PassOver
    /\ pending' = Queued
    /\ UNCHANGED <<agentTable, sessionTable, writer, placing, up, agents, history>>

\* GetAvailableAgentsMatching, and the choice of one of them.
BackendChooses(s, a) ==
    /\ up
    /\ placing = Nothing
    /\ s \in pending
    /\ a \in Available(VramRequired[s])
    /\ placing' = <<s, a>>
    /\ pending' = pending \ {s}
    /\ UNCHANGED <<agentTable, sessionTable, writer, up, agents, history>>

\* No agent does.
BackendPassesOver(s) ==
    /\ up
    /\ placing = Nothing
    /\ s \in pending
    /\ pending' = pending \ {s}
    /\ UNCHANGED <<agentTable, sessionTable, writer, placing, up, agents, history>>

AssignSession(s, a) ==
    /\ sState' = [sState EXCEPT ![s] = "assigned"]
    /\ sAgent' = [sAgent EXCEPT ![s] = a]
    /\ sessionIds' = [sessionIds EXCEPT ![a] = Append(@, s)]
    /\ mirror' = [mirror EXCEPT ![a][s] = "assigned"]
    /\ vram' = [vram EXCEPT ![a] = @ - VramRequired[s]]
    /\ UNCHANGED <<aState, up>>

\* When one of the two rows is gone Require panics, which in the goroutine of
\* the backend ends the process.
BackendAssigns ==
    /\ CanWrite
    /\ placing # Nothing
    /\ IF Stored(placing[1]) /\ Present(placing[2])
       THEN AssignSession(placing[1], placing[2])
       ELSE up' = FALSE /\ UNCHANGED <<agentTable, sessionTable>>
    /\ placing' = Nothing
    /\ UNCHANGED <<writer, pending, agents, history>>

\* SetAgentsMissingIfNotUpdatedFor.
SetAgentsMissing ==
    /\ CanWrite
    /\ PassOver
    /\ \E silent \in SUBSET Agent :
          aState' = [a \in Agent |->
              IF a \in silent /\ aState[a] = "active" THEN "missing" ELSE aState[a]]
    /\ UNCHANGED <<vram, sessionIds, mirror, sessionTable, writer, backend, agents, history>>

\* RemoveMissingAgentsIfNotUpdatedFor: DeleteAll takes one id; with more it is
\* an error, which ends the backend and the process.  The sessions of the
\* removed agent are kept.
RemoveMissingAgents ==
    /\ CanWrite
    /\ PassOver
    /\ \E overdue \in SUBSET {a \in Agent : aState[a] = "missing"} :
          /\ aState' = [a \in Agent |->
                 IF overdue = {a} THEN "gone" ELSE aState[a]]
          /\ IF Cardinality(overdue) > 1 THEN up' = FALSE ELSE UNCHANGED up
    /\ UNCHANGED <<vram, sessionIds, mirror, sessionTable, writer, pending, placing, agents, history>>

----------------------------------------------------------------------------

Next ==
    \/ \E s \in Session : RequestSession(s) \/ CancelSession(s)
    \/ \E a \in Agent :
          \/ RegisterAgent(a) \/ AgentPoll(a)
          \/ \E report \in Reports(a) : UpdateCommits(a, report) \/ UpdateFails(a, report)
          \/ GhostReports(a) \/ AgentCloses(a) \/ AgentCrash(a)
    \/ BackendLists \/ BackendAssigns \/ SetAgentsMissing \/ RemoveMissingAgents
    \/ \E s \in Session : BackendPassesOver(s) \/ \E a \in Agent : BackendChooses(s, a)

Spec == Init /\ [][Next]_vars

----------------------------------------------------------------------------
(* Properties.                                                             *)

\* The VRAM an agent still has and the VRAM of the sessions it lists make up
\* what it registered with, through every abort and panic: unlike the deployed
\* driver this one gives the VRAM of a closed session back, once.
VramConserved ==
    \A a \in Agent : aState[a] # "none" =>
        vram[a] + VramOf(Ids(a)) = AgentVram[a]

\* What GetAgentById says of a session is what GetSessionById says, unless an
\* update of that agent was aborted: the slice it wrote is shared with the
\* version of the row that remained.
MirrorAgrees ==
    \A a \in Agent \ aborted : \A s \in Ids(a) :
        Stored(s) => GetAgentById(a)[s] = GetSessionById(s)

\* The writer lock, which every later operation waits for, is left behind only
\* over a row that is not there: a call named one that is not in its table, or
\* a session was reported after an agent without sessions had closed, which
\* deletes every session (DeleteAll without ids).  Nothing else takes the row of
\* a session from under the agent that lists it: not another agent that closes,
\* and not the removal of one.
StuckOverMissingRows ==
    /\ writer = "stuck" => strangers # {} \/ wipers # {}
    /\ wipers = {} => \A a \in Agent : Present(a) => \A s \in Ids(a) : Stored(s)

\* What SessionLife calls a session its agent has not started, runs, has ended.
Progress(state) ==
    IF state = "no" THEN "placed" ELSE IF state = "over" THEN "over" ELSE "running"

\* How far a session is, as SessionLife tells it.
LifeOf(s) ==
    IF sState[s] = "none" THEN "unknown"
    ELSE IF sAgent[s] = NoAgent THEN IF sState[s] = "gone" THEN "dropped" ELSE "waiting"
    ELSE Progress(ran[sAgent[s]][s])

Life == INSTANCE SessionLife WITH life <- [s \in Session |-> LifeOf(s)], home <- sAgent

\* Sessions live here as they do in the deployed driver: placed once, run once.
ImplementsSessionLife == Life!Spec

=============================================================================
