---------------------------- MODULE GormStorage ----------------------------
(***************************************************************************)
(* The tables of the deployed storage driver (storage/gorm) and its        *)
(* operations.  Agents and sessions are the rows the run may create: an    *)
(* identifier is a fresh UUID, so each is registered or requested once.    *)
(* Every operation here is one SQL statement or one transaction that locks *)
(* the rows it reads; UpdateAgent, which does not, is in Controller.       *)
(***************************************************************************)
EXTENDS GpuMatching

CONSTANTS Agent,          \* agent rows
          Session,        \* session rows
          NoAgent,        \* a NULL agent_id
          AgentInfo,      \* what each agent registers: pool, labels, taints, gpus
          Requirements,   \* what each session asks: pool, matchLabels, tolerates, gpus
          MissingAfter,   \* the 30 seconds of SetAgentsMissingIfNotUpdatedFor
          RemoveAfter,    \* the 5 minutes of RemoveMissingAgentsIfNotUpdatedFor
          QueryLimit,     \* the Limit(20) of every listing query
          Word            \* 2^64: VramAvailable is a uint64

\* The VRAM an agent registers with and the VRAM a session is charged
\* (storage.TotalVram, storage.TotalVramRequired).
AgentVram(a) == TotalVram(AgentInfo[a].gpus)
VramRequired(s) == TotalVram(Requirements[s].gpus)

ASSUME AgentAssumption == NoAgent \notin Agent
ASSUME TimeAssumption == MissingAfter \in Nat /\ RemoveAfter \in Nat
ASSUME GpuAssumption ==
    /\ \A a \in Agent : AgentInfo[a].gpus \in Seq([vram : Nat, pciBus : STRING])
    /\ \A s \in Session : Requirements[s].gpus \in Seq([vram : Nat, pciBus : STRING])
ASSUME VramAssumption ==
    /\ Word \in Nat \ {0}
    /\ \A a \in Agent : AgentVram(a) \in 0..(Word - 1)
    /\ \A s \in Session : VramRequired(s) \in 0..(Word - 1)

VARIABLES aState,         \* agents.state, "none" before the row exists
          vramAvailable,  \* agents.vram_available
          updatedAt,      \* agents.updated_at
          deleted,        \* agents with deleted_at set (soft delete)
          sState,         \* sessions.state, "none" before the row exists
          sAgent,         \* sessions.agent_id
          sGpus,          \* sessions.gpus
          now             \* the wall clock

agentTable == <<aState, vramAvailable, updatedAt, deleted>>
sessionTable == <<sState, sAgent, sGpus>>

AgentStates == {"none", "active", "missing", "closed"}
SessionStates == {"none", "queued", "assigned", "active", "canceling", "closed"}

\* The GPUs the backend would choose for s on a: Find on a set with all of the
\* agent's VRAM free, since the rows it gets carry no sessions.
ChosenGpus(a, s) ==
    Selection(AgentInfo[a].gpus, Unused(AgentInfo[a].gpus), Requirements[s].gpus)

GpuSelections == {<<>>} \cup {ChosenGpus(a, s) : a \in Agent, s \in Session}

StorageTypeOK ==
    /\ aState \in [Agent -> AgentStates]
    /\ vramAvailable \in [Agent -> 0..(Word - 1)]
    /\ updatedAt \in [Agent -> Nat]
    /\ deleted \subseteq Agent
    /\ sState \in [Session -> SessionStates]
    /\ sAgent \in [Session -> Agent \cup {NoAgent}]
    /\ sGpus \in [Session -> GpuSelections]
    /\ now \in Nat

StorageInit ==
    /\ aState = [a \in Agent |-> "none"]
    /\ vramAvailable = [a \in Agent |-> 0]
    /\ updatedAt = [a \in Agent |-> 0]
    /\ deleted = {}
    /\ sState = [s \in Session |-> "none"]
    /\ sAgent = [s \in Session |-> NoAgent]
    /\ sGpus = [s \in Session |-> <<>>]
    /\ now = 0

\* The rows a query sees: gorm adds deleted_at IS NULL.
Visible(a) == aState[a] # "none" /\ a \notin deleted

\* gorm's Updates(struct) writes only the non-zero fields, so a VRAM of zero
\* is left out of the statement and the column keeps its value.
Updated(value, column) == IF value = 0 THEN column ELSE value

Minus(x, y) == (x - y) % Word
Plus(x, y) == (x + y) % Word

\* RegisterAgent; the frontend has set the state to active.
RegisterAgent(a) ==
    /\ aState[a] = "none"
    /\ aState' = [aState EXCEPT ![a] = "active"]
    /\ vramAvailable' = [vramAvailable EXCEPT ![a] = AgentVram(a)]
    /\ updatedAt' = [updatedAt EXCEPT ![a] = now]
    /\ UNCHANGED <<deleted, sessionTable, now>>

\* RequestSession: a row in state queued with no agent.
RequestSession(s) ==
    /\ sState[s] = "none"
    /\ sState' = [sState EXCEPT ![s] = "queued"]
    /\ UNCHANGED <<agentTable, sAgent, sGpus, now>>

\* Mutant of CancelSession: it stores a state the models do not know.
CancelSessionMisspelt(s) ==
    /\ sState[s] # "none"
    /\ sState' = [sState EXCEPT ![s] =
                     IF sAgent[s] = NoAgent THEN "closed" ELSE "cancelled"]
    /\ UNCHANGED <<agentTable, sAgent, sGpus, now>>

\* Mutant of CancelSession: it does not look whether the session has an agent.
CancelSessionAsPlaced(s) ==
    /\ sState[s] # "none"
    /\ sState' = [sState EXCEPT ![s] = "canceling"]
    /\ UNCHANGED <<agentTable, sAgent, sGpus, now>>

\* CancelSession: the state it stores depends only on whether the session has
\* an agent that is not soft-deleted, never on the state it is in.
CancelSession(s) ==
    /\ sState[s] # "none"
    /\ sState' = [sState EXCEPT ![s] =
                     IF sAgent[s] = NoAgent \/ sAgent[s] \in deleted
                     THEN "closed" ELSE "canceling"]
    /\ UNCHANGED <<agentTable, sAgent, sGpus, now>>

\* AssignSession, when it finds both rows.  They are locked, but the state of
\* the session is not examined.
AssignSession(s, a) ==
    /\ sState' = [sState EXCEPT ![s] = "assigned"]
    /\ sAgent' = [sAgent EXCEPT ![s] = a]
    /\ sGpus' = [sGpus EXCEPT ![s] = ChosenGpus(a, s)]
    /\ vramAvailable' = [vramAvailable EXCEPT ![a] =
                            Updated(Minus(@, VramRequired(s)), @)]
    /\ updatedAt' = [updatedAt EXCEPT ![a] = now]
    /\ UNCHANGED <<aState, deleted, now>>

\* SetAgentsMissingIfNotUpdatedFor: one UPDATE, which also sets updated_at.
Silent == {a \in Agent : /\ Visible(a)
                         /\ aState[a] = "active"
                         /\ updatedAt[a] + MissingAfter <= now}

SetAgentsMissing ==
    /\ aState' = [a \in Agent |-> IF a \in Silent THEN "missing" ELSE aState[a]]
    /\ updatedAt' = [a \in Agent |-> IF a \in Silent THEN now ELSE updatedAt[a]]
    /\ UNCHANGED <<vramAvailable, deleted, sessionTable, now>>

\* Mutant of Overdue: the state is not examined.
OverdueInAnyState == {a \in Agent : Visible(a) /\ updatedAt[a] + RemoveAfter <= now}

\* RemoveMissingAgentsIfNotUpdatedFor: a soft delete.
Overdue == {a \in Agent : /\ Visible(a)
                          /\ aState[a] = "missing"
                          /\ updatedAt[a] + RemoveAfter <= now}

RemoveMissingAgents ==
    /\ deleted' = deleted \cup Overdue
    /\ UNCHANGED <<aState, vramAvailable, updatedAt, sessionTable, now>>

\* A query with Limit(QueryLimit) and no ORDER BY returns any rows it likes.
Answers(rows) ==
    IF Cardinality(rows) <= QueryLimit THEN {rows} ELSE kSubset(QueryLimit, rows)

\* Mutants of Queued: the query looks for sessions without an agent, or takes
\* in the assigned ones.
QueuedWithoutAgent == {s \in Session : sState[s] # "none" /\ sAgent[s] = NoAgent}
QueuedOrAssigned == {s \in Session : sState[s] \in {"queued", "assigned"}}

\* Mutants of Available: without the VRAM filter, and only agents that would
\* have some VRAM left.
AvailableIgnoringVram(vram) == {a \in Agent : Visible(a) /\ aState[a] = "active"}
AvailableBeyond(vram) == {a \in Agent : Visible(a) /\ aState[a] = "active" /\ vramAvailable[a] > vram}

\* GetQueuedSessionsIterator and GetAvailableAgentsMatching.
Queued == {s \in Session : sState[s] = "queued"}
Available(vram) == {a \in Agent : /\ Visible(a)
                                  /\ aState[a] = "active"
                                  /\ vramAvailable[a] >= vram}

============================================================================
