--------------------------- MODULE JuicifyProofs ---------------------------
(***************************************************************************)
(* juicify is a user of TaskManager that keeps to its rules: what is       *)
(* proved of any group of goroutines holds of those of juicify, and the    *)
(* session it asks for is closed, or asked to close, when it leaves.       *)
(***************************************************************************)
EXTENDS Juicify, TaskManagerProofs

LEMMA GroupIsOfTaskManager == "AppMain" \in Task /\ "QueueTimeout" \in Task /\ "CheckSession" \in Task
  BY JuicifyAssumption

\* A step of the goroutine that runs app.Run.
LEMMA RunStepMaps ==
    ASSUME RunStep
    PROVE  [Next]_vars
<1> USE DEF groupVars
<1>1. ASSUME NEW from, NEW to, MainGoes(from, to) PROVE UNCHANGED vars
  BY <1>1 DEF MainGoes
<1>2. ASSUME NEW from, NEW e, WaitFails(from, e) PROVE UNCHANGED vars
  BY <1>2, <1>1 DEF WaitFails
<1>3. ASSUME NEW t \in Task, TaskStarts(t) PROVE Next
  BY <1>3 DEF Next, TaskStep
<1>4. ASSUME NEW from, WaitSucceeds(from) PROVE [Next]_vars
  BY <1>4, <1>3, GroupIsOfTaskManager DEF WaitSucceeds
<1>5. ASSUME NEW from, CancelCall(from) PROVE UNCHANGED vars
  BY <1>5, <1>1 DEF CancelCall
<1>6. CASE RunWithoutSession \/ RunBegins \/ RunRequests
  BY <1>6, <1>1 DEF RunWithoutSession, RunBegins, RunRequests
<1>7. CASE FirstLook
  BY <1>7, <1>2, <1>3, <1>4, GroupIsOfTaskManager DEF FirstLook, StartsTimer
<1>8. CASE SelectContext \/ SelectTimeout \/ SelectTick
  BY <1>8, <1>1, <1>2 DEF SelectContext, SelectTimeout, TimedOut, SelectTick
<1>9. CASE Poll
  BY <1>9, <1>1, <1>2, <1>4 DEF Poll
<1>10. CASE WaitCancels \/ RunLeaves
  BY <1>10, <1>5 DEF WaitCancels, RunLeaves
<1>11. CASE MainCancels
  BY <1>11 DEF MainCancels, Next
<1>12. CASE MainReturns
  BY <1>12, GroupIsOfTaskManager DEF MainReturns, Next, TaskStep, TaskReturns
<1> QED
  BY <1>6, <1>7, <1>8, <1>9, <1>10, <1>11, <1>12 DEF RunStep

\* A step of juicify, or of the controller's row, is one of its group or does
\* not concern it.
LEMMA StepMaps ==
    ASSUME [JuicifyNext]_juicifyVars
    PROVE  [Next]_vars
<1> USE DEF groupVars
<1>1. CASE UNCHANGED juicifyVars
  BY <1>1 DEF juicifyVars
<1>2. CASE AppStarts
  BY <1>2, GroupIsOfTaskManager DEF AppStarts, Next, TaskStep
<1>3. CASE AppWaits
  BY <1>3 DEF AppWaits, Next
<1>4. CASE Signal
  BY <1>4 DEF Signal, Next
<1>5. CASE AppExits
  BY <1>5 DEF AppExits, MainGoes
<1>6. ASSUME NEW t \in Task, TaskEnds(t) PROVE [Next]_vars
  BY <1>6 DEF TaskEnds, Next, TaskStep
<1>7. CASE TimerFires \/ TimerReturns \/ TimerPanics
  BY <1>7, GroupIsOfTaskManager
     DEF TimerFires, TimerReturns, TimerPanics, Next, TaskStep, TaskReturns
<1>8. CASE CheckerTicks \/ CheckerLooks
  BY <1>8 DEF CheckerTicks, CheckerLooks, Next
<1>9. CASE CheckerReturns
  BY <1>9, GroupIsOfTaskManager DEF CheckerReturns, Next, TaskStep, TaskReturns
<1>10. CASE RowStep
  BY <1>10 DEF RowStep, RowGoes
<1> QED
  BY <1>1, <1>2, <1>3, <1>4, <1>5, <1>6, <1>7, <1>8, <1>9, <1>10, RunStepMaps
     DEF JuicifyNext, ProcessStep

\* juicify starts, cancels and waits for its goroutines as TaskManager wants
\* it, whatever its session, its application and its signals do: it implements
\* the specification of the group.
THEOREM ImplementsTaskManager == JuicifySpec => Spec
<1>1. JuicifyInit => Init
  BY DEF JuicifyInit
<1> QED
  BY <1>1, StepMaps, PTL DEF JuicifySpec, Spec

\* No goroutine of juicify sends on the closed channel of errors; its one
\* panic is that of the queue timeout.
THEOREM JuicifyNeverPanics == JuicifySpec => []NeverPanics
  BY ImplementsTaskManager, NeverPanicsHolds, PTL

\* When juicify's Wait returns all its goroutines have finished, and the error
\* of each is in what main prints.
THEOREM JuicifyLosesNothing == JuicifySpec => []NothingLost
  BY ImplementsTaskManager, NothingLostHolds, PTL

----------------------------------------------------------------------------
(* The session that juicify has asked for.                                 *)

\* The types of juicify's own variables, but for the two Booleans.
OwnTypes ==
    /\ at \in {"start", "requesting", "first", "select", "polling", "cancelling",
               "running", "leaving", "returned", "cancelled"}
    /\ err \in {"none", "invalid", "cancelled", "timeout", "call"}
    /\ channel \in {"none", "open", "closed"}
    /\ timer \in {"none", "waiting", "sending", "returning", "done"}
    /\ checker \in {"none", "waiting", "polling", "done"}
    /\ row \in Live \cup {"none", "canceling", "closed"}
    /\ server \in {"given", "kept", "agent"}
    /\ handedBack \in {"unknown", "owed", "sent", "told", "failed", "found"}

\* A session is owed from the moment its id is known until app.Run returns, a
\* server was learnt from a row that has been active, and no such row comes
\* back to life once it has been cancelled.
OwedInv ==
    /\ at \in {"start", "requesting"} => handedBack = "unknown"
    /\ handedBack = "owed" => at \notin {"returned", "cancelled"}
    /\ handedBack = "sent" => at \in {"returned", "cancelled"}
    /\ row = "active" => wasActive
    /\ server # "given" => wasActive
    /\ server # "given" /\ handedBack = "sent" => row \notin Live

SessionInv == OwnTypes /\ OwedInv

LEMMA CallsAreServedOrNot == \A call \in CallOutcomes : call.served \in BOOLEAN /\ call.ok \in BOOLEAN
<1>1. ASSUME NEW answer \in Answers
      PROVE  Outcome(answer).served \in BOOLEAN /\ Outcome(answer).ok \in BOOLEAN
  <2>1. Outcome(answer).served = (do(answer.peer) = "response" /\ answer.status = 200)
    BY DEF Outcome
  <2>2. Outcome(answer).ok = (do(answer.peer) = "response" /\ parseResponse(answer))
    BY DEF Outcome
  <2>3. \A p, q : (p /\ q) \in BOOLEAN
    OBVIOUS
  <2> QED
    BY <2>1, <2>2, <2>3, Zenon
<1> QED
  BY <1>1 DEF CallOutcomes

\* What a DELETE leaves in the row is not a live session.
LEMMA CanceledIsNotLive ==
    ASSUME OwnTypes
    PROVE  Canceled \subseteq {"none", "canceling", "closed"}
  BY DEF OwnTypes, Canceled, Live

LEMMA CancelCallStep ==
    ASSUME SessionInv, NEW from, from \in {"cancelling", "leaving"}, CancelCall(from)
    PROVE  SessionInv'
<1> PICK call \in CallOutcomes :
        /\ MainGoes(from, "returned")
        /\ row' \in IF call.served /\ server # "agent" THEN Canceled ELSE {row}
        /\ handedBack' = CASE ~call.served -> "failed"
                           [] call.served /\ server = "agent" -> "told"
                           [] OTHER -> "sent"
        /\ UNCHANGED <<err, helperVars, wasActive, server>>
  BY DEF CancelCall
<1>1. call.served \in BOOLEAN
  BY CallsAreServedOrNot
<1>2. /\ at' = "returned"
      /\ UNCHANGED <<err, channel, timer, checker, crashed, wasActive, server>>
  BY DEF MainGoes, AppGoes, groupVars, vars, helperVars
<1>3. CASE ~call.served
  BY <1>1, <1>2, <1>3 DEF SessionInv, OwnTypes, OwedInv
<1>4. CASE call.served /\ server = "agent"
  BY <1>1, <1>2, <1>4 DEF SessionInv, OwnTypes, OwedInv
<1>5. CASE call.served /\ server # "agent"
  <2>1. row' \in {"none", "canceling", "closed"} /\ handedBack' = "sent"
    BY <1>1, <1>5, CanceledIsNotLive DEF SessionInv
  <2> QED
    BY <1>2, <2>1 DEF SessionInv, OwnTypes, OwedInv, Live
<1> QED
  BY <1>1, <1>3, <1>4, <1>5

LEMMA WaitSucceedsStep ==
    ASSUME SessionInv, NEW from, from \in {"first", "polling"}, row = "active", WaitSucceeds(from)
    PROVE  SessionInv'
<1>1. /\ at = from /\ at' = "running"
      /\ checker' = "waiting"
      /\ channel' = IF channel = "open" THEN "closed" ELSE channel
      /\ server' \in {"kept", "agent"}
      /\ UNCHANGED <<err, timer, row, wasActive, handedBack>>
  BY DEF WaitSucceeds, AppGoes, rowVars
<1> QED
  BY <1>1 DEF SessionInv, OwnTypes, OwedInv, Live

LEMMA WaitFailsStep ==
    ASSUME SessionInv, NEW from, from \in {"first", "polling", "select"},
           NEW e \in {"invalid", "cancelled", "timeout", "call"}, WaitFails(from, e)
    PROVE  SessionInv'
<1>1. /\ at = from /\ err' = e
      /\ at' = IF e # "invalid" THEN "cancelling" ELSE "returned"
      /\ channel' = IF channel = "open" THEN "closed" ELSE channel
      /\ handedBack' = IF e = "invalid" THEN "found" ELSE handedBack
      /\ UNCHANGED <<timer, checker, crashed, row, wasActive, server>>
  BY DEF WaitFails, MainGoes, AppGoes, CancelAfter, groupVars, vars, rowVars
<1> QED
  BY <1>1 DEF SessionInv, OwnTypes, OwedInv

LEMMA RunStepSession ==
    ASSUME SessionInv, RunStep
    PROVE  SessionInv'
<1> USE DEF MainGoes, AppGoes, groupVars, vars, mainVars, helperVars, rowVars, seen
<1>1. CASE RunWithoutSession \/ RunBegins
  BY <1>1 DEF RunWithoutSession, RunBegins, SessionInv, OwnTypes, OwedInv
<1>2. CASE RunRequests
  <2> PICK call \in CallOutcomes :
        /\ MainGoes("requesting", IF call.ok THEN "first" ELSE "returned")
        /\ err' = IF call.ok THEN "none" ELSE "call"
        /\ row' = IF call.served THEN "queued" ELSE row
        /\ handedBack' = IF call.ok THEN "owed" ELSE "unknown"
        /\ UNCHANGED <<helperVars, wasActive, server>>
    BY <1>2 DEF RunRequests
  <2>1. row' \in {"queued", row}
    BY CallsAreServedOrNot
  <2>2. \/ at' = "first" /\ err' = "none" /\ handedBack' = "owed"
        \/ at' = "returned" /\ err' = "call" /\ handedBack' = "unknown"
    BY CallsAreServedOrNot
  <2> QED
    BY <2>1, <2>2 DEF SessionInv, OwnTypes, OwedInv, Live
<1>4. CASE FirstLook
  <2>1. CASE row = "active" /\ WaitSucceeds("first")
    BY <2>1, WaitSucceedsStep
  <2>2. CASE WaitFails("first", "call")
    BY <2>2, WaitFailsStep
  <2>3. CASE /\ StartsTimer
             /\ \/ /\ row \in {"queued", "assigned"}
                   /\ AppGoes("first", "select")
                   /\ channel' = "open"
                   /\ UNCHANGED <<err, handedBack>>
                \/ /\ row \in {"canceling", "closed"}
                   /\ AppGoes("first", "returned")
                   /\ err' = "invalid"
                   /\ channel' = "closed"
                   /\ handedBack' = "found"
             /\ UNCHANGED <<checker, crashed, rowVars, server>>
    <3>1. timer' \in {"waiting", timer}
      BY <2>3, JuicifyAssumption DEF StartsTimer
    <3>2. CASE row \in {"queued", "assigned"} /\ at' = "select"
      BY <2>3, <3>1, <3>2 DEF SessionInv, OwnTypes, OwedInv, AppGoes
    <3>3. CASE row \in {"canceling", "closed"} /\ at' = "returned"
      BY <2>3, <3>1, <3>3 DEF SessionInv, OwnTypes, OwedInv, AppGoes
    <3> QED
      BY <2>3, <3>2, <3>3 DEF AppGoes
  <2> QED
    BY <1>4, <2>1, <2>2, <2>3 DEF FirstLook
<1>5. CASE SelectContext
  BY <1>5, WaitFailsStep DEF SelectContext
<1>6. CASE SelectTimeout
  BY <1>6 DEF SelectTimeout, TimedOut, SessionInv, OwnTypes, OwedInv
<1>7. CASE SelectTick
  BY <1>7 DEF SelectTick, SessionInv, OwnTypes, OwedInv
<1>8. CASE Poll
  <2>1. CASE row = "active" /\ WaitSucceeds("polling")
    BY <2>1, WaitSucceedsStep
  <2>2. CASE WaitFails("polling", "call") \/ WaitFails("polling", "invalid")
    BY <2>2, WaitFailsStep
  <2>3. CASE MainGoes("polling", "select") /\ UNCHANGED <<err, helperVars, rowVars, seen>>
    BY <2>3 DEF SessionInv, OwnTypes, OwedInv
  <2> QED
    BY <1>8, <2>1, <2>2, <2>3 DEF Poll
<1>9. CASE WaitCancels \/ RunLeaves
  BY <1>9, CancelCallStep DEF WaitCancels, RunLeaves
<1>10. CASE MainCancels
  BY <1>10 DEF MainCancels, SessionInv, OwnTypes, OwedInv
<1>11. CASE MainReturns
  BY <1>11 DEF MainReturns, SessionInv, OwnTypes, OwedInv
<1> QED
  BY <1>1, <1>2, <1>4, <1>5, <1>6, <1>7, <1>8, <1>9, <1>10, <1>11 DEF RunStep

LEMMA RowStepSession ==
    ASSUME SessionInv, RowStep
    PROVE  SessionInv'
<1> USE DEF groupVars, vars, mainVars, helperVars, seen, SessionInv, OwnTypes, OwedInv, Live
<1>1. ASSUME NEW from, NEW to \in {"assigned", "canceling", "closed"}, RowGoes(from, to),
             from \cap Live # {} \/ to \notin Live,
             to = "assigned" => from = {"queued"}
      PROVE  SessionInv'
  <2>1. row \in from /\ row' = to /\ UNCHANGED <<mainVars, helperVars, seen>>
    BY <1>1 DEF RowGoes
  <2>2. wasActive => wasActive'
    BY <1>1 DEF RowGoes
  <2> QED
    BY <1>1, <2>1, <2>2
<1>2. CASE RowGoes({"assigned"} \cup (IF wasActive THEN {} ELSE {"canceling", "closed"}), "active")
  <2>1. wasActive' = TRUE /\ row' = "active"
    BY <1>2 DEF RowGoes
  <2>2. row = "assigned" \/ ~wasActive
    BY <1>2 DEF RowGoes
  <2> QED
    BY <1>2, <2>1, <2>2 DEF RowGoes
<1> QED
  BY <1>1, <1>2 DEF RowStep

LEMMA SessionStep ==
    ASSUME SessionInv, [JuicifyNext]_juicifyVars
    PROVE  SessionInv'
<1> USE DEF groupVars, vars, mainVars, helperVars, rowVars, seen, SessionInv, OwnTypes, OwedInv
<1>1. CASE UNCHANGED juicifyVars
  BY <1>1 DEF juicifyVars
<1>2. CASE AppStarts \/ AppWaits \/ Signal
  BY <1>2 DEF AppStarts, AppWaits, Signal
<1>3. CASE AppExits
  BY <1>3 DEF AppExits, MainGoes, AppGoes
<1>4. ASSUME NEW t \in Task, TaskEnds(t) PROVE SessionInv'
  BY <1>4 DEF TaskEnds
<1>5. CASE TimerFires \/ TimerReturns
  BY <1>5 DEF TimerFires, TimerReturns, TimerGoes
<1>6. CASE TimerPanics
  BY <1>6 DEF TimerPanics
<1>7. CASE CheckerTicks \/ CheckerLooks \/ CheckerReturns
  BY <1>7 DEF CheckerTicks, CheckerLooks, CheckerReturns, CheckerGoes
<1> QED
  BY <1>1, <1>2, <1>3, <1>4, <1>5, <1>6, <1>7, RunStepSession, RowStepSession
     DEF JuicifyNext, ProcessStep

LEMMA SessionInit == JuicifyInit => SessionInv
  BY DEF JuicifyInit, SessionInv, OwnTypes, OwedInv, Live

\* The two Booleans, which only one action each ever sets.
Booleans == crashed \in BOOLEAN /\ wasActive \in BOOLEAN

LEMMA BooleansStep ==
    ASSUME Booleans, [JuicifyNext]_juicifyVars
    PROVE  Booleans'
<1> USE DEF groupVars, vars, mainVars, helperVars, rowVars, seen, Booleans
<1>1. CASE UNCHANGED <<crashed, wasActive>>
  BY <1>1
<1>2. ASSUME NEW from, NEW to, RowGoes(from, to) PROVE Booleans'
  <2>1. wasActive' = (wasActive \/ to = "active") /\ UNCHANGED crashed
    BY <1>2 DEF RowGoes
  <2>2. \A p, q : (p \/ q) \in BOOLEAN
    OBVIOUS
  <2> QED
    BY <2>1, <2>2, Zenon
<1>3. CASE TimerPanics
  <2>1. crashed' = TRUE /\ UNCHANGED wasActive
    BY <1>3 DEF TimerPanics
  <2> QED
    BY <2>1, Zenon
<1>4. CASE RowStep
  BY <1>2, <1>4 DEF RowStep
<1>5. ASSUME NEW from, NEW e, WaitFails(from, e) PROVE UNCHANGED <<crashed, wasActive>>
  BY <1>5 DEF WaitFails
<1>6. ASSUME NEW from, WaitSucceeds(from) PROVE UNCHANGED <<crashed, wasActive>>
  BY <1>6 DEF WaitSucceeds
<1>7. ASSUME NEW from, CancelCall(from) PROVE UNCHANGED <<crashed, wasActive>>
  BY <1>7 DEF CancelCall
<1>8. CASE RunStep
  <2>1. CASE RunWithoutSession \/ RunBegins \/ RunRequests \/ SelectTick
    BY <2>1 DEF RunWithoutSession, RunBegins, RunRequests, SelectTick
  <2>2. CASE FirstLook \/ Poll
    BY <2>2, <1>5, <1>6 DEF FirstLook, Poll
  <2>3. CASE SelectContext \/ SelectTimeout
    BY <2>3, <1>5 DEF SelectContext, SelectTimeout
  <2>4. CASE WaitCancels \/ RunLeaves
    BY <2>4, <1>7 DEF WaitCancels, RunLeaves
  <2>5. CASE MainCancels \/ MainReturns
    BY <2>5 DEF MainCancels, MainReturns
  <2> QED
    BY <1>1, <1>8, <2>1, <2>2, <2>3, <2>4, <2>5 DEF RunStep
<1>10. CASE AppStarts \/ AppWaits \/ Signal \/ AppExits
  BY <1>1, <1>10 DEF AppStarts, AppWaits, Signal, AppExits
<1>11. ASSUME NEW t \in Task, TaskEnds(t) PROVE UNCHANGED <<crashed, wasActive>>
  BY <1>11 DEF TaskEnds
<1>12. CASE TimerFires \/ TimerReturns
  BY <1>1, <1>12 DEF TimerFires, TimerReturns, TimerGoes
<1>13. CASE CheckerTicks \/ CheckerLooks \/ CheckerReturns
  BY <1>1, <1>13 DEF CheckerTicks, CheckerLooks, CheckerReturns, CheckerGoes
<1>14. CASE UNCHANGED juicifyVars
  BY <1>1, <1>14 DEF juicifyVars
<1> QED
  BY <1>1, <1>3, <1>4, <1>8, <1>10, <1>11, <1>12, <1>13, <1>14 DEF JuicifyNext, ProcessStep

\* juicify's variables, and those of its group, keep their types.
THEOREM JuicifyTypeCorrect == JuicifySpec => []JuicifyTypeOK
<1>1. SessionInv /\ Booleans /\ TypeOK => JuicifyTypeOK
  BY Zenon DEF SessionInv, OwnTypes, Booleans, JuicifyTypeOK
<1>2. JuicifyInit => Booleans
  BY Zenon DEF JuicifyInit, Booleans
<1> QED
  BY <1>1, <1>2, SessionInit, SessionStep, BooleansStep, ImplementsTaskManager, TypeCorrect, PTL
     DEF JuicifySpec

\* However juicify ends, the session it knows of has been given back, and one
\* it has seen active and cancelled at the controller stays so (app.go,
\* requestSession and cancelSession).
THEOREM LeavesNothingBehindHolds == JuicifySpec => []LeavesNothingBehind
<1>1. SessionInv => LeavesNothingBehind
  BY DEF SessionInv, OwnTypes, OwedInv, LeavesNothingBehind
<1> QED
  BY <1>1, SessionInit, SessionStep, PTL DEF JuicifySpec

=============================================================================
