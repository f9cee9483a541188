------------------------------- MODULE Agent -------------------------------
(***************************************************************************)
(* One agent process connected to a controller (cmd/agent/app): the update *)
(* loop, the goroutines of each session, the renderers and the HTTP        *)
(* handlers that connect clients to them, and the two bounded channels     *)
(* through which they report.  The controller is the sessions' rows as the *)
(* agent sees them; how it changes them is in Controller.                  *)
(***************************************************************************)
EXTENDS Integers, Sequences, FiniteSets, SequencesExt

CONSTANTS Session,
          Conn,         \* connections, each started at most once
          SessionOf,    \* the session of each connection
          NoConn,       \* a free lock
          QueueDepth    \* the capacity of sessionUpdates and connectionUpdates

ASSUME AgentAssumption ==
    /\ NoConn \notin Conn
    /\ SessionOf \in [Conn -> Session]
    /\ QueueDepth \in Nat \ {0}

VARIABLES
    row,                \* the state of each session at the controller
    reportedClosed,     \* history: sessions reported closed
    \* the "Controller Update" goroutine
    loop, fetched, current, err, report,
    \* agent.sessions and the sessions in it; the lock of session.closed
    sessions, closer, canceled, closed, lock,
    \* session.connections, the renderers, the handlers of session.Connect
    connections, renderer, handler,
    sessionUpdates, connectionUpdates,
    stopping,           \* the context of the process is done
    waited              \* agent.taskManager.Wait has returned

controller == <<row, reportedClosed>>
loopVars == <<loop, fetched, current, err, report>>
sessionVars == <<sessions, closer, canceled, closed>>
connVars == <<connections, renderer, handler, lock>>
channels == <<sessionUpdates, connectionUpdates>>
process == <<stopping, waited>>
vars == <<controller, loopVars, sessionVars, connVars, channels, process>>

\* What a step of the loop, of a session's goroutine and of a connection's
\* handler or renderer leaves alone.
notLoop == <<sessionVars, connVars, process>>
notSession == <<controller, loopVars, connVars, process>>
notConn == <<controller, loopVars, sessionVars, process>>

TypeOK ==
    /\ row \in [Session -> {"none", "assigned", "active", "canceling", "closed"}]
    /\ reportedClosed \subseteq Session
    /\ loop \in {"tick", "sessions", "announce", "cancel", "update", "stopped", "panicked"}
    /\ fetched \in [Session -> {"none", "assigned", "canceling"}]
    /\ current \in Session
    /\ err \in BOOLEAN
    /\ report \in [Session -> {"none", "touch", "active", "closed"}]
    /\ sessions \subseteq Session
    /\ closer \in [Session -> {"none", "watching", "closing", "waiting", "released", "done"}]
    /\ canceled \subseteq Session
    /\ closed \subseteq Session
    /\ lock \in [Session -> Conn \cup {NoConn}]
    /\ connections \subseteq Conn
    /\ renderer \in [Conn -> {"none", "running", "exited", "unlisted", "done"}]
    /\ handler \in [Conn -> {"idle", "start", "list", "announce", "connect"}]
    /\ sessionUpdates \in Seq(Session \X {"active", "closed"})
    /\ connectionUpdates \in Seq(Conn)
    /\ Len(sessionUpdates) <= QueueDepth
    /\ Len(connectionUpdates) <= QueueDepth
    /\ stopping \in BOOLEAN
    /\ waited \in BOOLEAN

Init ==
    /\ row = [s \in Session |-> "none"]
    /\ reportedClosed = {}
    /\ loop = "tick" /\ fetched = row /\ current \in Session /\ err = FALSE /\ report = row
    /\ sessions = {} /\ closer = row /\ canceled = {} /\ closed = {}
    /\ lock = [s \in Session |-> NoConn]
    /\ connections = {}
    /\ renderer = [c \in Conn |-> "none"]
    /\ handler = [c \in Conn |-> "idle"]
    /\ sessionUpdates = <<>> /\ connectionUpdates = <<>>
    /\ stopping = FALSE /\ waited = FALSE

\* A send on a full channel blocks.
Room(channel) == Len(channel) < QueueDepth

SendSession(s, state) ==
    /\ Room(sessionUpdates)
    /\ sessionUpdates' = Append(sessionUpdates, <<s, state>>)
    /\ UNCHANGED connectionUpdates

SendConnection(c) ==
    /\ Room(connectionUpdates)
    /\ connectionUpdates' = Append(connectionUpdates, c)
    /\ UNCHANGED sessionUpdates

\* A session's context is a child of the process's.
\* Mutants of ContextDone: it has no parent; only the process's is watched.
OwnContextDone(s) == s \in canceled
ParentContextDone(s) == stopping
ContextDone(s) == s \in canceled \/ stopping

----------------------------------------------------------------------------
(* The controller and the clients.                                         *)

ControllerAssigns(s) ==
    /\ row[s] = "none"
    /\ row' = [row EXCEPT ![s] = "assigned"]
    /\ UNCHANGED <<reportedClosed, loopVars, sessionVars, connVars, channels, process>>

ControllerCancels(s) ==
    /\ row[s] \notin {"none", "canceling"}
    /\ row' = [row EXCEPT ![s] = "canceling"]
    /\ UNCHANGED <<reportedClosed, loopVars, sessionVars, connVars, channels, process>>

\* session.Cancel: under the lock of closed, the context unless it is set.
Cancel(s) ==
    /\ lock[s] = NoConn
    /\ canceled' = canceled \cup ({s} \ closed)
    /\ UNCHANGED <<sessions, closer, closed, connVars, channels, process>>

\* cancelSessionEp: a client ends its session at the agent.
ClientCancels(s) == s \in sessions /\ Cancel(s) /\ UNCHANGED <<controller, loopVars>>

----------------------------------------------------------------------------
(* The update loop.                                                        *)

\* The tick, and GetAgent: the sessions to start and to cancel.
LoopFetches ==
    /\ loop = "tick"
    /\ ~stopping
    /\ fetched' = [s \in Session |->
                     IF row[s] \in {"assigned", "canceling"} THEN row[s] ELSE "none"]
    /\ err' = FALSE
    /\ loop' = "sessions"
    /\ UNCHANGED <<controller, current, report, notLoop, channels>>

\* The loop takes up session s, listed in state.
TakesUp(s, state) ==
    /\ loop = "sessions"
    /\ fetched[s] = state
    /\ fetched' = [fetched EXCEPT ![s] = "none"]
    /\ UNCHANGED <<controller, report, connVars, channels, process>>

\* registerSession and addSession: the session is in agent.sessions and its
\* goroutine runs before its active update is queued.  A goroutine started
\* after agent.taskManager.Wait has closed its channel panics on it, which
\* ends the process.
LoopRegisters(s) ==
    /\ TakesUp(s, "assigned")
    /\ sessions' = sessions \cup {s}
    /\ closer' = [closer EXCEPT ![s] = "watching"]
    /\ current' = s
    /\ loop' = IF waited THEN "panicked" ELSE "announce"
    /\ UNCHANGED <<err, canceled, closed>>

\* The GPUs of the row cannot be selected.
LoopCannotRegister(s) ==
    /\ TakesUp(s, "assigned")
    /\ err' = TRUE
    /\ UNCHANGED <<loop, current, sessionVars>>

\* SessionActive.
LoopAnnounces ==
    /\ loop = "announce"
    /\ SendSession(current, "active")
    /\ loop' = "sessions"
    /\ UNCHANGED <<controller, fetched, current, err, report, notLoop>>

\* Mutant of NotFound: a session that is not there is passed over.
NotFoundIsFine(s) == FALSE
NotFound(s) == s \notin sessions

\* cancelSession looks the session up; one that is not there is an error.
LoopFindsSession(s) ==
    /\ TakesUp(s, "canceling")
    /\ err' = (err \/ NotFound(s))
    /\ current' = s
    /\ loop' = IF s \in sessions THEN "cancel" ELSE "sessions"
    /\ UNCHANGED sessionVars

LoopCancels ==
    /\ loop = "cancel"
    /\ Cancel(current)
    /\ loop' = "sessions"
    /\ UNCHANGED <<controller, fetched, current, err, report>>

\* CopySessions, after the listed sessions: it takes from either channel and
\* the last state of a session wins.
Copying == loop = "sessions" /\ \A s \in Session : fetched[s] = "none"

LoopTakesSession ==
    /\ Copying
    /\ sessionUpdates # <<>>
    /\ report' = [report EXCEPT ![Head(sessionUpdates)[1]] = Head(sessionUpdates)[2]]
    /\ sessionUpdates' = Tail(sessionUpdates)
    /\ UNCHANGED <<controller, loop, fetched, current, err, notLoop, connectionUpdates>>

LoopTakesConnection ==
    /\ Copying
    /\ connectionUpdates # <<>>
    /\ report' = [report EXCEPT ![SessionOf[Head(connectionUpdates)]] =
                     IF @ = "none" THEN "touch" ELSE @]
    /\ connectionUpdates' = Tail(connectionUpdates)
    /\ UNCHANGED <<controller, loop, fetched, current, err, notLoop, sessionUpdates>>

\* Mutant of Drained: session updates may be left in the channel.
HalfDrained == connectionUpdates = <<>>
Drained == sessionUpdates = <<>> /\ connectionUpdates = <<>>

LoopDrained ==
    /\ Copying
    /\ Drained
    /\ loop' = "update"
    /\ UNCHANGED <<controller, fetched, current, err, report, notLoop, channels>>

\* UpdateAgent; with an error the loop returns it, which ends the process.
LoopUpdates ==
    /\ loop = "update"
    /\ row' = [s \in Session |-> IF report[s] \in {"active", "closed"}
                                 THEN report[s] ELSE row[s]]
    /\ reportedClosed' = reportedClosed \cup {s \in Session : report[s] = "closed"}
    /\ report' = [s \in Session |-> "none"]
    /\ loop' = IF err THEN "stopped" ELSE "tick"
    /\ stopping' = (stopping \/ err)
    /\ UNCHANGED <<fetched, current, err, sessionVars, connVars, channels, waited>>

\* A call to the controller fails: at the fetch at once, at the update too.
LoopFails ==
    /\ loop \in {"tick", "update"}
    /\ loop' = "stopped"
    /\ stopping' = TRUE
    /\ UNCHANGED <<controller, fetched, current, err, report, sessionVars, connVars,
                   channels, waited>>

\* The context is done: a last update without sessions.
LoopSeesContext ==
    /\ loop = "tick"
    /\ stopping
    /\ loop' = "stopped"
    /\ UNCHANGED <<controller, fetched, current, err, report, notLoop, channels>>

\* What the loop does when nothing fails.
LoopStep ==
    \/ LoopFetches
    \/ \E s \in Session : LoopRegisters(s) \/ LoopFindsSession(s)
    \/ LoopAnnounces
    \/ LoopCancels
    \/ LoopTakesSession
    \/ LoopTakesConnection
    \/ LoopDrained
    \/ LoopUpdates
    \/ LoopSeesContext

----------------------------------------------------------------------------
(* The goroutine that closes a session (Session.Run).                      *)

SessionGoes(s, from, to) ==
    /\ closer[s] = from
    /\ closer' = [closer EXCEPT ![s] = to]
    /\ UNCHANGED <<notSession, canceled>>

SessionWakes(s) ==
    /\ SessionGoes(s, "watching", "closing")
    /\ ContextDone(s)
    /\ UNCHANGED <<sessions, closed, channels>>

\* closed.Set(true) takes the lock.
SessionSetsClosed(s) ==
    /\ SessionGoes(s, "closing", "waiting")
    /\ lock[s] = NoConn
    /\ closed' = closed \cup {s}
    /\ UNCHANGED <<sessions, channels>>

\* The goroutines a session's task manager waits for: both of each connection.
\* Mutant of GroupDone: nobody is waited for.
GroupIgnored(s) == TRUE
GroupDone(s) ==
    \A c \in Conn : SessionOf[c] = s => renderer[c] \in {"none", "done"}

\* taskManager.Wait returns, the GPUs are released, and the first half of
\* SessionClosed takes the session out of agent.sessions.
SessionReleases(s) ==
    /\ SessionGoes(s, "waiting", "released")
    /\ GroupDone(s)
    /\ sessions' = sessions \ {s}
    /\ UNCHANGED <<closed, channels>>

\* The rest of SessionClosed: the update.
SessionReports(s) ==
    /\ SessionGoes(s, "released", "done")
    /\ SendSession(s, "closed")
    /\ UNCHANGED <<sessions, closed>>

SessionStep(s) ==
    \/ SessionWakes(s)
    \/ SessionSetsClosed(s)
    \/ SessionReleases(s)
    \/ SessionReports(s)

----------------------------------------------------------------------------
(* A handler of connectSessionEp (Session.Connect), and the renderer it    *)
(* starts.  Session.Connect holds the lock of closed all the way through.  *)

HandlerGoes(c, from, to) ==
    /\ handler[c] = from
    /\ handler' = [handler EXCEPT ![c] = to]
    /\ UNCHANGED notConn

\* Bound: a connection whose renderer has ended is not started a second time.
StartedOnceOnly(c) == c \in connections \/ renderer[c] = "none"

\* Mutant of Holds: closed is read, but its lock is not kept.
HoldsNot(s, c) == lock
Holds(s, c) == [lock EXCEPT ![s] = c]

\* getSession found the session, maybe a while ago, and the lock is taken; a
\* closed session refuses, which changes nothing; a known connection is used.
HandlerEnters(c) ==
    /\ closer[SessionOf[c]] # "none"
    /\ lock[SessionOf[c]] = NoConn
    /\ SessionOf[c] \notin closed
    /\ StartedOnceOnly(c)
    /\ HandlerGoes(c, "idle", IF c \in connections THEN "connect" ELSE "start")
    /\ lock' = Holds(SessionOf[c], c)
    /\ UNCHANGED <<connections, renderer, channels>>

\* Session.Connect returns and gives the lock back.
\* Mutant of HandlerLeaves: it is forgotten on the way out.
HandlerLeavesLocked(c, from) ==
    /\ HandlerGoes(c, from, "idle")
    /\ UNCHANGED <<lock, connections, renderer, channels>>
HandlerLeaves(c, from) ==
    /\ HandlerGoes(c, from, "idle")
    /\ lock' = [lock EXCEPT ![SessionOf[c]] = NoConn]
    /\ UNCHANGED <<connections, renderer, channels>>

\* connection.Start, and the goroutine that takes the exit code.  Start fails
\* when the context is done already.
HandlerStarts(c) ==
    /\ HandlerGoes(c, "start", "list")
    /\ ~ContextDone(SessionOf[c])
    /\ renderer' = [renderer EXCEPT ![c] = "running"]
    /\ UNCHANGED <<connections, lock, channels>>

\* No pipe, no executable, or the context is done.
HandlerFailsToStart(c) == HandlerLeaves(c, "start")

\* Only now is the connection put in session.connections.
HandlerLists(c) ==
    /\ HandlerGoes(c, "list", "announce")
    /\ connections' = connections \cup {c}
    /\ UNCHANGED <<renderer, lock, channels>>

\* ConnectionCreated.
HandlerAnnounces(c) ==
    /\ HandlerGoes(c, "announce", "connect")
    /\ SendConnection(c)
    /\ UNCHANGED <<connections, renderer, lock>>

\* connection.Connect: the socket is handed over and the renderer answers on
\* the pipe, or the pipe breaks because it is gone.
HandlerConnects(c) == HandlerLeaves(c, "connect")

RendererGoes(c, from, to) ==
    /\ renderer[c] = from
    /\ renderer' = [renderer EXCEPT ![c] = to]
    /\ UNCHANGED <<notConn, handler, lock>>

\* The renderer ends, of its own or killed with the session's context.
RendererExits(c) ==
    /\ RendererGoes(c, "running", "exited")
    /\ UNCHANGED <<connections, channels>>

\* The exit code is received: out of session.connections, then the update.
RendererUnlisted(c) ==
    /\ RendererGoes(c, "exited", "unlisted")
    /\ connections' = connections \ {c}
    /\ UNCHANGED channels

\* ConnectionClosed.
RendererReported(c) ==
    /\ RendererGoes(c, "unlisted", "done")
    /\ SendConnection(c)
    /\ UNCHANGED connections

\* What a handler does once it is in Session.Connect.
HandlerStep(c) ==
    \/ HandlerStarts(c)
    \/ HandlerFailsToStart(c)
    \/ HandlerLists(c)
    \/ HandlerAnnounces(c)
    \/ HandlerConnects(c)

RendererStep(c) == RendererUnlisted(c) \/ RendererReported(c)

----------------------------------------------------------------------------
(* The process.                                                            *)

ProcessStops ==
    /\ ~stopping
    /\ stopping' = TRUE
    /\ UNCHANGED <<controller, loopVars, sessionVars, connVars, channels, waited>>

\* agent.taskManager.Wait returns once every session's goroutine is done.
AgentWaited ==
    /\ ~waited
    /\ stopping
    /\ \A s \in Session : closer[s] \in {"none", "done"}
    /\ waited' = TRUE
    /\ UNCHANGED <<controller, loopVars, sessionVars, connVars, channels, stopping>>

Next ==
    \/ \E s \in Session : ControllerAssigns(s) \/ ControllerCancels(s) \/ ClientCancels(s)
    \/ LoopStep
    \/ \E s \in Session : LoopCannotRegister(s)
    \/ LoopFails
    \/ \E s \in Session : SessionStep(s)
    \/ \E c \in Conn : HandlerEnters(c) \/ HandlerStep(c) \/ RendererExits(c) \/ RendererStep(c)
    \/ ProcessStops
    \/ AgentWaited

Spec == Init /\ [][Next]_vars

\* Every goroutine goes on when it can.  A renderer answers on its pipe or is
\* gone, and is gone once its session's context is done (exec.CommandContext
\* kills it); nothing is assumed of clients, of the controller or of errors.
\* The lock of closed is a sync.Mutex: one who has waited for a millisecond
\* gets it next, whoever else comes for it.
Fairness ==
    /\ WF_vars(LoopStep)
    /\ SF_vars(LoopCancels)
    /\ \A s \in Session :
          /\ WF_vars(SessionStep(s))
          /\ SF_vars(SessionSetsClosed(s))
    /\ \A c \in Conn :
          /\ WF_vars(HandlerStep(c))
          /\ WF_vars(RendererStep(c))
          /\ WF_vars(ContextDone(SessionOf[c]) /\ RendererExits(c))
    /\ WF_vars(AgentWaited)

FairSpec == Spec /\ Fairness

----------------------------------------------------------------------------
(* Properties.                                                             *)

Released(s) == closer[s] \in {"released", "done"}

\* The GPUs of a session are given back only when no renderer of it runs on
\* them, and none can be started any more: a client that connects while the
\* session closes is either waited for or refused.
GpusReleasedLast ==
    \A c \in Conn : Released(SessionOf[c]) =>
        /\ renderer[c] \in {"none", "done"}
        /\ handler[c] = "idle"

\* Once the controller was told that a session is closed nothing more about
\* it waits to be reported: its connections' updates were all taken with or
\* before the closed update.
NothingAfterClosed ==
    \A i \in 1..Len(connectionUpdates) :
        SessionOf[connectionUpdates[i]] \notin reportedClosed

\* A session the controller keeps listing as assigned is started once: its
\* active update is always taken in the round that started it.  A second
\* start would charge its GPUs twice and lose the running session.
RegisteredOnce ==
    [][\A s \in Session : LoopRegisters(s) => closer[s] = "none"]_vars

Stopped == loop \in {"stopped", "panicked"}

\* The loop waits for ever: in SessionActive for room in a channel that only it
\* empties, or for the lock of a session whose handler waits for such room.
LoopJammed ==
    \/ loop = "announce" /\ ~Room(sessionUpdates)
    \/ /\ loop = "cancel"
       /\ lock[current] # NoConn
       /\ handler[lock[current]] = "announce"
       /\ ~Room(connectionUpdates)

NobodyReceives == Stopped \/ LoopJammed

\* A goroutine of the session waits for room that nobody will make.
HeldUp(s) ==
    /\ NobodyReceives
    /\ \/ closer[s] = "released" /\ ~Room(sessionUpdates)
       \/ /\ ~Room(connectionUpdates)
          /\ \E c \in Conn : /\ SessionOf[c] = s
                            /\ (handler[c] = "announce" \/ renderer[c] = "unlisted")

\* Nothing keeps the loop from its next tick but a full channel: not a client
\* that holds the lock of closed while its renderer starts, nor one that has
\* failed to start it.
LoopComesRound == []<>(loop = "tick" \/ NobodyReceives)

\* A canceled session gives its GPUs back, whatever its clients are doing,
\* unless one of its goroutines is held up by a full channel.
CanceledSessionEnds ==
    \A s \in Session : s \in canceled ~> Released(s) \/ HeldUp(s)

\* A cancel the controller holds for this agent does not stay there: it is
\* acted on and overwritten by a report, or the agent ends over it, or its
\* loop is jammed.
CancelIsAnswered ==
    \A s \in Session : row[s] = "canceling" ~> row[s] # "canceling" \/ NobodyReceives

\* A stopping agent ends, in whatever order its sessions, handlers and
\* renderers notice it: only a send to a channel that the loop has left full
\* can keep it waiting.
StoppingEnds == stopping ~> waited \/ \E s \in Session : HeldUp(s)

============================================================================
