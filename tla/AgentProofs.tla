---------------------------- MODULE AgentProofs ----------------------------
(***************************************************************************)
(* Proofs about Agent, for any sessions and connections and channels of    *)
(* any capacity.                                                           *)
(***************************************************************************)
EXTENDS Agent, SequenceTheorems, TLAPS

----------------------------------------------------------------------------
(* The inductive invariants.                                               *)

\* A handler in Session.Connect has the lock of its session, which is not
\* closed; a session is closed once it waits for its goroutines, and has none
\* of them when it has waited, nor before it is started.
LockInv ==
    /\ \A c \in Conn : handler[c] # "idle" =>
          /\ lock[SessionOf[c]] = c
          /\ SessionOf[c] \notin closed
          /\ closer[SessionOf[c]] # "none"
    /\ \A s \in Session : closer[s] \in {"waiting", "released", "done"} => s \in closed
    /\ GpusReleasedLast

\* The state of session s is about to be reported, in this round.
Announced(s) ==
    \/ loop = "announce" /\ current = s
    \/ loop # "update" /\ \E i \in 1..Len(sessionUpdates) : sessionUpdates[i][1] = s
    \/ report[s] \in {"active", "closed"}

\* What the loop has fetched as assigned is not started yet; what is started
\* and still assigned at the controller is reported before the next tick.
RoundInv ==
    /\ \A s \in Session : row[s] = "none" => closer[s] = "none"
    /\ \A s \in Session : fetched[s] = "assigned" => closer[s] = "none" /\ row[s] # "none"
    /\ \A s \in Session : row[s] = "assigned" /\ closer[s] # "none" =>
          \/ loop \in {"stopped", "panicked"}
          \/ loop # "tick" /\ Announced(s)

\* A closed report is the last thing a session's goroutine does, and no update
\* of its connections is left when it is on its way to the controller.
ClosedInv ==
    /\ \A i \in 1..Len(sessionUpdates) :
          sessionUpdates[i][2] = "closed" => closer[sessionUpdates[i][1]] = "done"
    /\ \A s \in Session : report[s] = "closed" \/ s \in reportedClosed => closer[s] = "done"
    /\ loop = "update" => \A i \in 1..Len(connectionUpdates) :
                              report[SessionOf[connectionUpdates[i]]] # "closed"
    /\ NothingAfterClosed

IInv == TypeOK /\ LockInv /\ RoundInv /\ ClosedInv

----------------------------------------------------------------------------
(* Type correctness.                                                       *)

\* Every element of a sequence of updates is one.
LEMMA UpdateTypes ==
    ASSUME TypeOK
    PROVE  /\ \A i \in 1..Len(sessionUpdates) :
                 sessionUpdates[i][1] \in Session /\ sessionUpdates[i][2] \in {"active", "closed"}
           /\ \A i \in 1..Len(connectionUpdates) :
                 connectionUpdates[i] \in Conn /\ SessionOf[connectionUpdates[i]] \in Session
  BY AgentAssumption DEF TypeOK

LEMMA OrIsBoolean == \A p, q : (p \/ q) \in BOOLEAN
  OBVIOUS

LEMMA TypeInit == Init => TypeOK
<1> SUFFICES ASSUME Init PROVE TypeOK
  OBVIOUS
<1>1. row = [s \in Session |-> "none"] /\ fetched = row /\ report = row /\ closer = row
  BY DEF Init
<1>2. /\ sessionUpdates \in Seq(Session \X {"active", "closed"})
      /\ connectionUpdates \in Seq(Conn)
      /\ Len(sessionUpdates) = 0
      /\ Len(connectionUpdates) = 0
  BY EmptySeq DEF Init
<1>3. err \in BOOLEAN /\ stopping \in BOOLEAN /\ waited \in BOOLEAN
  BY DEF Init
<1> QED
  BY <1>1, <1>2, <1>3, AgentAssumption DEF Init, TypeOK

LEMMA TypeStep ==
    ASSUME TypeOK, [Next]_vars
    PROVE  TypeOK'
<1> USE AgentAssumption DEF TypeOK, controller, loopVars, sessionVars, connVars, channels, process,
            notLoop, notSession, notConn
<1>1. CASE UNCHANGED vars
  BY <1>1 DEF vars
<1>2. ASSUME NEW s \in Session, ControllerAssigns(s) \/ ControllerCancels(s) \/ ClientCancels(s)
      PROVE  TypeOK'
  <2>1. CASE ControllerAssigns(s) \/ ControllerCancels(s)
    BY <2>1 DEF ControllerAssigns, ControllerCancels
  <2>2. CASE ClientCancels(s)
    BY <2>2 DEF ClientCancels, Cancel
  <2> QED
    BY <1>2, <2>1, <2>2
<1>3. CASE LoopFetches
  BY <1>3 DEF LoopFetches
<1>4. ASSUME NEW s \in Session, LoopRegisters(s) \/ LoopCannotRegister(s) \/ LoopFindsSession(s)
      PROVE  TypeOK'
  <2>1. CASE LoopRegisters(s)
    BY <2>1 DEF LoopRegisters, TakesUp
  <2>3. CASE LoopCannotRegister(s)
    <3>1. err' \in BOOLEAN
      BY <2>3 DEF LoopCannotRegister
    <3> QED
      BY <2>3, <3>1 DEF LoopCannotRegister, TakesUp
  <2>2. CASE LoopFindsSession(s)
    <3>1. err' = (err \/ NotFound(s))
      BY <2>2 DEF LoopFindsSession
    <3>2. err' \in BOOLEAN
      BY <3>1, OrIsBoolean
    <3> QED
      BY <2>2, <3>2 DEF LoopFindsSession, TakesUp
  <2> QED
    BY <1>4, <2>1, <2>2, <2>3
<1>5. CASE LoopAnnounces
  BY <1>5, AppendProperties DEF LoopAnnounces, SendSession, Room
<1>6. CASE LoopCancels
  BY <1>6 DEF LoopCancels, Cancel
<1>7. CASE LoopTakesSession
  <2>1. Head(sessionUpdates) \in Session \X {"active", "closed"}
    BY <1>7 DEF LoopTakesSession
  <2>2. /\ Tail(sessionUpdates) \in Seq(Session \X {"active", "closed"})
        /\ Len(Tail(sessionUpdates)) <= QueueDepth
    BY <1>7, HeadTailProperties DEF LoopTakesSession
  <2> QED
    BY <1>7, <2>1, <2>2 DEF LoopTakesSession
<1>8. CASE LoopTakesConnection
  <2>1. /\ Tail(connectionUpdates) \in Seq(Conn)
        /\ Len(Tail(connectionUpdates)) <= QueueDepth
    BY <1>8, HeadTailProperties DEF LoopTakesConnection
  <2> QED
    BY <1>8, <2>1 DEF LoopTakesConnection
<1>9. CASE LoopDrained \/ LoopSeesContext \/ LoopFails
  BY <1>9 DEF LoopDrained, LoopSeesContext, LoopFails
<1>10. CASE LoopUpdates
  BY <1>10 DEF LoopUpdates
<1>11. ASSUME NEW s \in Session, SessionStep(s) PROVE TypeOK'
  <2>1. CASE SessionWakes(s) \/ SessionSetsClosed(s) \/ SessionReleases(s)
    BY <2>1, SMTT(30) DEF SessionWakes, SessionSetsClosed, SessionReleases, SessionGoes
  <2>2. CASE SessionReports(s)
    BY <2>2, AppendProperties DEF SessionReports, SessionGoes, SendSession, Room
  <2> QED
    BY <1>11, <2>1, <2>2 DEF SessionStep
<1>12. ASSUME NEW c \in Conn, HandlerEnters(c) PROVE TypeOK'
  BY <1>12 DEF HandlerEnters, HandlerGoes, Holds
<1>13. ASSUME NEW c \in Conn, HandlerStep(c) PROVE TypeOK'
  <2>1. CASE HandlerStarts(c) \/ HandlerLists(c)
    BY <2>1, ZenonT(40) DEF HandlerStarts, HandlerLists, HandlerGoes
  <2>2. CASE HandlerFailsToStart(c) \/ HandlerConnects(c)
    <3>1. lock' \in [Session -> Conn \cup {NoConn}]
      BY <2>2 DEF HandlerFailsToStart, HandlerConnects, HandlerLeaves
    <3>2. handler' \in [Conn -> {"idle", "start", "list", "announce", "connect"}]
      BY <2>2 DEF HandlerFailsToStart, HandlerConnects, HandlerLeaves, HandlerGoes
    <3> QED
      BY <2>2, <3>1, <3>2 DEF HandlerFailsToStart, HandlerConnects, HandlerLeaves, HandlerGoes
  <2>3. CASE HandlerAnnounces(c)
    BY <2>3, AppendProperties DEF HandlerAnnounces, HandlerGoes, SendConnection, Room
  <2> QED
    BY <1>13, <2>1, <2>2, <2>3 DEF HandlerStep
<1>14. ASSUME NEW c \in Conn, RendererExits(c) \/ RendererStep(c) PROVE TypeOK'
  <2>1. CASE RendererExits(c) \/ RendererUnlisted(c)
    BY <2>1 DEF RendererExits, RendererUnlisted, RendererGoes
  <2>2. CASE RendererReported(c)
    BY <2>2, AppendProperties DEF RendererReported, RendererGoes, SendConnection, Room
  <2> QED
    BY <1>14, <2>1, <2>2 DEF RendererStep
<1>15. CASE ProcessStops \/ AgentWaited
  BY <1>15 DEF ProcessStops, AgentWaited
<1> QED
  BY <1>1, <1>2, <1>3, <1>4, <1>5, <1>6, <1>7, <1>8, <1>9, <1>10, <1>11, <1>12, <1>13, <1>14, <1>15
     DEF Next, LoopStep

----------------------------------------------------------------------------
(* The lock of closed.                                                     *)

\* What LockInv is about.
lockVars == <<handler, lock, closed, closer, renderer>>

LEMMA LockStep ==
    ASSUME TypeOK, LockInv, RoundInv, [Next]_vars
    PROVE  LockInv'
<1> USE AgentAssumption DEF TypeOK, LockInv, GpusReleasedLast, Released,
            controller, loopVars, sessionVars, connVars, channels, process,
            notLoop, notSession, notConn
<1>1. CASE UNCHANGED lockVars
  BY <1>1 DEF lockVars
<1>2. CASE UNCHANGED vars \/ ProcessStops \/ AgentWaited
  BY <1>1, <1>2 DEF vars, ProcessStops, AgentWaited, lockVars
<1>3. ASSUME NEW s \in Session, ControllerAssigns(s) \/ ControllerCancels(s) \/ ClientCancels(s)
      PROVE  LockInv'
  BY <1>1, <1>3 DEF ControllerAssigns, ControllerCancels, ClientCancels, Cancel, lockVars
<1>4. CASE \/ LoopFetches \/ LoopAnnounces \/ LoopCancels \/ LoopTakesSession \/ LoopTakesConnection
           \/ LoopDrained \/ LoopUpdates \/ LoopSeesContext \/ LoopFails
  BY <1>1, <1>4 DEF LoopFetches, LoopAnnounces, LoopCancels, Cancel, LoopTakesSession,
     LoopTakesConnection, LoopDrained, LoopUpdates, LoopSeesContext, LoopFails, lockVars
<1>5. ASSUME NEW s \in Session, LoopCannotRegister(s) \/ LoopFindsSession(s) PROVE LockInv'
  BY <1>1, <1>5 DEF LoopCannotRegister, LoopFindsSession, TakesUp, lockVars
<1>6. ASSUME NEW s \in Session, LoopRegisters(s) PROVE LockInv'
  <2>1. closer[s] = "none"
    BY <1>6 DEF LoopRegisters, TakesUp, RoundInv
  <2> QED
    BY <1>6, <2>1 DEF LoopRegisters, TakesUp
<1>7. ASSUME NEW s \in Session, SessionWakes(s) \/ SessionReports(s) PROVE LockInv'
  BY <1>7 DEF SessionWakes, SessionReports, SessionGoes, SendSession
<1>8. ASSUME NEW s \in Session, SessionSetsClosed(s) PROVE LockInv'
  BY <1>8 DEF SessionSetsClosed, SessionGoes
<1>9. ASSUME NEW s \in Session, SessionReleases(s) PROVE LockInv'
  BY <1>9 DEF SessionReleases, SessionGoes, GroupDone
<1>10. ASSUME NEW c \in Conn, HandlerEnters(c) PROVE LockInv'
  BY <1>10 DEF HandlerEnters, HandlerGoes, Holds
<1>11. ASSUME NEW c \in Conn, HandlerStarts(c) \/ HandlerLists(c) PROVE LockInv'
  BY <1>11 DEF HandlerStarts, HandlerLists, HandlerGoes
<1>12. ASSUME NEW c \in Conn, HandlerFailsToStart(c) \/ HandlerConnects(c) PROVE LockInv'
  BY <1>12 DEF HandlerFailsToStart, HandlerConnects, HandlerLeaves, HandlerGoes
<1>13. ASSUME NEW c \in Conn, HandlerAnnounces(c) PROVE LockInv'
  BY <1>13 DEF HandlerAnnounces, HandlerGoes, SendConnection
<1>14. ASSUME NEW c \in Conn, RendererExits(c) \/ RendererStep(c) PROVE LockInv'
  <2>1. UNCHANGED <<handler, lock, closed, closer>>
    BY <1>14 DEF RendererExits, RendererStep, RendererUnlisted, RendererReported, RendererGoes
  <2>2. renderer[c] \notin {"none", "done"} /\ \A d \in Conn \ {c} : renderer'[d] = renderer[d]
    BY <1>14 DEF RendererExits, RendererStep, RendererUnlisted, RendererReported, RendererGoes
  <2> QED
    BY <2>1, <2>2
<1> QED
  BY <1>2, <1>3, <1>4, <1>5, <1>6, <1>7, <1>8, <1>9, <1>10, <1>11, <1>12, <1>13, <1>14
     DEF Next, LoopStep, SessionStep, HandlerStep

----------------------------------------------------------------------------
(* The rounds of the loop.                                                 *)

\* What RoundInv is about.
roundVars == <<row, loop, current, fetched, report, closer, sessionUpdates>>

LEMMA RoundStep ==
    ASSUME TypeOK, LockInv, RoundInv, [Next]_vars
    PROVE  RoundInv'
<1> USE AgentAssumption DEF TypeOK, RoundInv, Announced,
            controller, loopVars, sessionVars, connVars, channels, process,
            notLoop, notSession, notConn
<1>1. CASE UNCHANGED roundVars
  BY <1>1 DEF roundVars
<1>2. CASE UNCHANGED vars \/ ProcessStops \/ AgentWaited
  BY <1>1, <1>2 DEF vars, ProcessStops, AgentWaited, roundVars
<1>3. ASSUME NEW s \in Session, ControllerAssigns(s) \/ ControllerCancels(s)
      PROVE  RoundInv'
  BY <1>3 DEF ControllerAssigns, ControllerCancels
<1>4. ASSUME NEW s \in Session, ClientCancels(s) PROVE RoundInv'
  BY <1>1, <1>4 DEF ClientCancels, Cancel, roundVars
<1>5. CASE LoopFetches
  BY <1>5 DEF LoopFetches
<1>6. ASSUME NEW s \in Session, LoopRegisters(s) PROVE RoundInv'
  BY <1>6 DEF LoopRegisters, TakesUp
<1>7. ASSUME NEW s \in Session, LoopCannotRegister(s) \/ LoopFindsSession(s) PROVE RoundInv'
  BY <1>7 DEF LoopCannotRegister, LoopFindsSession, TakesUp
<1>8. CASE LoopAnnounces
  BY <1>8, AppendProperties DEF LoopAnnounces, SendSession
<1>9. CASE LoopCancels
  BY <1>9 DEF LoopCancels, Cancel
<1>10. CASE LoopTakesSession
  <2>1. /\ loop = "sessions" /\ UNCHANGED <<row, loop, fetched, current, closer>>
        /\ sessionUpdates # <<>>
        /\ sessionUpdates' = Tail(sessionUpdates)
        /\ report' = [report EXCEPT ![Head(sessionUpdates)[1]] = Head(sessionUpdates)[2]]
    BY <1>10 DEF LoopTakesSession, Copying
  <2>2. /\ Head(sessionUpdates) = sessionUpdates[1]
        /\ Len(sessionUpdates) \in Nat \ {0}
        /\ \A i \in 2..Len(sessionUpdates) :
              i - 1 \in 1..Len(sessionUpdates') /\ sessionUpdates'[i - 1] = sessionUpdates[i]
    BY <2>1, HeadTailProperties
  <2>3. /\ sessionUpdates[1][1] \in Session
        /\ sessionUpdates[1][2] \in {"active", "closed"}
    BY <2>2, UpdateTypes
  <2>4. ASSUME NEW s \in Session, Announced(s) PROVE Announced(s)'
    <3>1. CASE report[s] \in {"active", "closed"}
      BY <3>1, <2>1, <2>2, <2>3
    <3>2. ASSUME NEW i \in 1..Len(sessionUpdates), sessionUpdates[i][1] = s PROVE Announced(s)'
      <4>1. CASE i = 1
        BY <4>1, <3>2, <2>1, <2>2, <2>3
      <4>2. CASE i # 1
        <5>1. i - 1 \in 1..Len(sessionUpdates') /\ sessionUpdates'[i - 1][1] = s
          BY <4>2, <3>2, <2>2
        <5> QED
          BY <5>1, <2>1
      <4> QED
        BY <4>1, <4>2
    <3> QED
      BY <2>4, <2>1, <3>1, <3>2
  <2> HIDE DEF Announced
  <2> QED
    BY <2>1, <2>4
<1>11. CASE LoopTakesConnection
  BY <1>11 DEF LoopTakesConnection, Copying
<1>12. CASE LoopDrained
  BY <1>12 DEF LoopDrained, Drained, Copying
<1>13. CASE LoopUpdates
  BY <1>13 DEF LoopUpdates
<1>14. CASE LoopSeesContext \/ LoopFails
  BY <1>14 DEF LoopSeesContext, LoopFails
<1>15. ASSUME NEW s \in Session, SessionWakes(s) \/ SessionSetsClosed(s) \/ SessionReleases(s)
       PROVE  RoundInv'
  BY <1>15 DEF SessionWakes, SessionSetsClosed, SessionReleases, SessionGoes
<1>16. ASSUME NEW s \in Session, SessionReports(s) PROVE RoundInv'
  BY <1>16, AppendProperties DEF SessionReports, SessionGoes, SendSession
<1>17. ASSUME NEW c \in Conn, HandlerEnters(c) \/ HandlerStarts(c) \/ HandlerLists(c)
       PROVE  RoundInv'
  BY <1>1, <1>17 DEF HandlerEnters, HandlerStarts, HandlerLists, HandlerGoes, roundVars
<1>18. ASSUME NEW c \in Conn, HandlerFailsToStart(c) \/ HandlerConnects(c) PROVE RoundInv'
  BY <1>1, <1>18 DEF HandlerFailsToStart, HandlerConnects, HandlerLeaves, HandlerGoes, roundVars
<1>19. ASSUME NEW c \in Conn, HandlerAnnounces(c) PROVE RoundInv'
  BY <1>1, <1>19 DEF HandlerAnnounces, HandlerGoes, SendConnection, roundVars
<1>20. ASSUME NEW c \in Conn, RendererExits(c) \/ RendererStep(c) PROVE RoundInv'
  BY <1>1, <1>20 DEF RendererExits, RendererStep, RendererUnlisted, RendererReported, RendererGoes,
     SendConnection, roundVars
<1> QED
  BY <1>2, <1>3, <1>4, <1>5, <1>6, <1>7, <1>8, <1>9, <1>10, <1>11, <1>12, <1>13, <1>14, <1>15,
     <1>16, <1>17, <1>18, <1>19, <1>20
     DEF Next, LoopStep, SessionStep, HandlerStep

----------------------------------------------------------------------------
(* Closed is the last report.                                              *)

\* What ClosedInv is about.
closedVars == <<reportedClosed, loop, report, closer, sessionUpdates, connectionUpdates>>

\* A connection may report as long as the goroutine of its session is not done.
LEMMA ConnectionMaySend ==
    ASSUME TypeOK, ClosedInv, NEW c \in Conn, SendConnection(c),
           closer[SessionOf[c]] # "done",
           UNCHANGED <<reportedClosed, loop, report, closer>>
    PROVE  ClosedInv'
<1>1. /\ UNCHANGED sessionUpdates
      /\ Len(connectionUpdates') = Len(connectionUpdates) + 1
      /\ Len(connectionUpdates) \in Nat
      /\ connectionUpdates'[Len(connectionUpdates) + 1] = c
      /\ \A i \in 1..Len(connectionUpdates) : connectionUpdates'[i] = connectionUpdates[i]
  BY AppendProperties DEF SendConnection, TypeOK
<1>2. SessionOf[c] \in Session /\ SessionOf[c] \notin reportedClosed /\ report[SessionOf[c]] # "closed"
  BY AgentAssumption DEF ClosedInv
<1> QED
  BY <1>1, <1>2 DEF ClosedInv, NothingAfterClosed

LEMMA ClosedStep ==
    ASSUME TypeOK, LockInv, RoundInv, ClosedInv, [Next]_vars
    PROVE  ClosedInv'
<1> USE AgentAssumption DEF TypeOK, ClosedInv, NothingAfterClosed,
            controller, loopVars, sessionVars, connVars, channels, process,
            notLoop, notSession, notConn
<1>1. CASE UNCHANGED closedVars
  BY <1>1 DEF closedVars
<1>2. CASE UNCHANGED vars \/ ProcessStops \/ AgentWaited
  BY <1>1, <1>2 DEF vars, ProcessStops, AgentWaited, closedVars
<1>3. ASSUME NEW s \in Session, ControllerAssigns(s) \/ ControllerCancels(s) \/ ClientCancels(s)
      PROVE  ClosedInv'
  BY <1>1, <1>3 DEF ControllerAssigns, ControllerCancels, ClientCancels, Cancel, closedVars
<1>4. CASE LoopFetches \/ LoopCancels \/ LoopSeesContext \/ LoopFails
  BY <1>4 DEF LoopFetches, LoopCancels, Cancel, LoopSeesContext, LoopFails
<1>5. ASSUME NEW s \in Session, LoopRegisters(s) PROVE ClosedInv'
  <2>1. closer[s] = "none"
    BY <1>5 DEF LoopRegisters, TakesUp, RoundInv
  <2> QED
    BY <1>5, <2>1, UpdateTypes DEF LoopRegisters, TakesUp
<1>6. ASSUME NEW s \in Session, LoopCannotRegister(s) \/ LoopFindsSession(s) PROVE ClosedInv'
  BY <1>6 DEF LoopCannotRegister, LoopFindsSession, TakesUp
<1>7. CASE LoopAnnounces
  BY <1>7, AppendProperties DEF LoopAnnounces, SendSession
<1>8. CASE LoopTakesSession
  BY <1>8, HeadTailProperties, UpdateTypes DEF LoopTakesSession, Copying
<1>9. CASE LoopTakesConnection
  BY <1>9, HeadTailProperties, UpdateTypes DEF LoopTakesConnection, Copying
<1>10. CASE LoopDrained
  BY <1>10 DEF LoopDrained, Drained, Copying
<1>11. CASE LoopUpdates
  BY <1>11, UpdateTypes DEF LoopUpdates
<1>12. ASSUME NEW s \in Session, SessionWakes(s) \/ SessionSetsClosed(s) \/ SessionReleases(s)
       PROVE  ClosedInv'
  BY <1>12, UpdateTypes DEF SessionWakes, SessionSetsClosed, SessionReleases, SessionGoes
<1>13. ASSUME NEW s \in Session, SessionReports(s) PROVE ClosedInv'
  BY <1>13, UpdateTypes, AppendProperties DEF SessionReports, SessionGoes, SendSession
<1>14. ASSUME NEW c \in Conn, HandlerEnters(c) \/ HandlerStarts(c) \/ HandlerLists(c)
       PROVE  ClosedInv'
  BY <1>1, <1>14 DEF HandlerEnters, HandlerStarts, HandlerLists, HandlerGoes, closedVars
<1>15. ASSUME NEW c \in Conn, HandlerFailsToStart(c) \/ HandlerConnects(c) PROVE ClosedInv'
  BY <1>1, <1>15 DEF HandlerFailsToStart, HandlerConnects, HandlerLeaves, HandlerGoes, closedVars
<1>16. ASSUME NEW c \in Conn, HandlerAnnounces(c) PROVE ClosedInv'
  <2>1. closer[SessionOf[c]] # "done"
    BY <1>16 DEF HandlerAnnounces, HandlerGoes, LockInv, GpusReleasedLast, Released
  <2> QED
    BY <1>16, <2>1, ConnectionMaySend DEF HandlerAnnounces, HandlerGoes
<1>17. ASSUME NEW c \in Conn, RendererExits(c) \/ RendererUnlisted(c) PROVE ClosedInv'
  BY <1>1, <1>17 DEF RendererExits, RendererUnlisted, RendererGoes, closedVars
<1>18. ASSUME NEW c \in Conn, RendererReported(c) PROVE ClosedInv'
  <2>1. closer[SessionOf[c]] # "done"
    BY <1>18 DEF RendererReported, RendererGoes, LockInv, GpusReleasedLast, Released
  <2> QED
    BY <1>18, <2>1, ConnectionMaySend DEF RendererReported, RendererGoes
<1> QED
  BY <1>2, <1>3, <1>4, <1>5, <1>6, <1>7, <1>8, <1>9, <1>10, <1>11, <1>12, <1>13, <1>14, <1>15,
     <1>16, <1>17, <1>18
     DEF Next, LoopStep, SessionStep, HandlerStep, RendererStep

----------------------------------------------------------------------------
(* The theorems.                                                           *)

LEMMA InitInv == Init => IInv
<1> SUFFICES ASSUME Init PROVE IInv
  OBVIOUS
<1>1. TypeOK
  BY TypeInit
<1>2. \A s \in Session : row[s] = "none" /\ fetched[s] = "none" /\ report[s] = "none" /\ closer[s] = "none"
  BY DEF Init
<1>3. sessionUpdates = <<>> /\ connectionUpdates = <<>> /\ reportedClosed = {}
  BY DEF Init
<1>4. \A c \in Conn : handler[c] = "idle" /\ renderer[c] = "none"
  BY DEF Init
<1> QED
  BY <1>1, <1>2, <1>3, <1>4, AgentAssumption
     DEF IInv, LockInv, RoundInv, ClosedInv, GpusReleasedLast, NothingAfterClosed, Released

LEMMA InvStep ==
    ASSUME IInv, [Next]_vars
    PROVE  IInv'
  BY TypeStep, LockStep, RoundStep, ClosedStep DEF IInv

\* The goroutines of an agent keep to their states and its channels to their
\* capacity.
THEOREM TypeCorrect == Spec => []TypeOK
<1>1. IInv => TypeOK
  BY DEF IInv
<1> QED
  BY <1>1, InitInv, InvStep, PTL DEF Spec

\* GPUs are given back last (Session.Run and Session.Connect): whatever clients
\* connect, exit or cancel while the session closes, no renderer of it runs
\* when its GPUs are released, and none is started any more.
THEOREM GpusReleasedLastHolds == Spec => []GpusReleasedLast
<1>1. IInv => GpusReleasedLast
  BY DEF IInv, LockInv
<1> QED
  BY <1>1, InitInv, InvStep, PTL DEF Spec

\* Nothing is reported of a session after it was reported closed (CopySessions,
\* SessionClosed, ConnectionClosed), however many updates the channels hold.
THEOREM NothingAfterClosedHolds == Spec => []NothingAfterClosed
<1>1. IInv => NothingAfterClosed
  BY DEF IInv, ClosedInv
<1> QED
  BY <1>1, InitInv, InvStep, PTL DEF Spec

\* The loop starts a session once (registerSession), however long the
\* controller goes on listing it as assigned.
THEOREM RegisteredOnceHolds == Spec => RegisteredOnce
<1>1. IInv => \A s \in Session : LoopRegisters(s) => closer[s] = "none"
  BY DEF IInv, RoundInv, LoopRegisters, TakesUp
<1>2. IInv /\ [Next]_vars => [\A s \in Session : LoopRegisters(s) => closer[s] = "none"]_vars
  BY <1>1
<1> QED
  BY <1>2, InitInv, InvStep, PTL DEF Spec, RegisteredOnce

============================================================================
