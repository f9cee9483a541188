------------------------------- MODULE Juicify -------------------------------
(***************************************************************************)
(* juicify (cmd/juicify): it requests a session, waits for it to become    *)
(* active, runs the application and gives the session back.  Its           *)
(* goroutines are the tasks of the one TaskManager of the process, whose   *)
(* actions are conjoined with theirs.  It is given a controller; once the  *)
(* session is active it speaks to the agent, if that has an address.  The  *)
(* controller's row of the session is external: it moves as Controller     *)
(* says, and other clients may cancel it.                                  *)
(***************************************************************************)
EXTENDS TaskManager, RestApi

CONSTANT QueueTimeout   \* --queue-timeout is set

ASSUME JuicifyAssumption ==
    /\ Task = {"AppMain", "QueueTimeout", "CheckSession"}
    /\ QueueTimeout \in BOOLEAN

VARIABLES at,         \* where app.Run is
          err,        \* the error it is about to return, "none" for nil
          channel,    \* timeoutChannel
          timer,      \* the Queue Timeout goroutine
          checker,    \* the Check session goroutine
          crashed,    \* the process died of a panic
          row,        \* the session's state at the server
          wasActive,  \* the row has been active
          server,     \* api.Address: given, kept or that of the agent
          handedBack  \* history: what became of the session at the end

groupVars == vars
mainVars == <<at, err>>
helperVars == <<channel, timer, checker, crashed>>
rowVars == <<row, wasActive>>
seen == <<server, handedBack>>
juicifyVars == <<groupVars, mainVars, helperVars, rowVars, seen>>

Live == {"queued", "assigned", "active"}

JuicifyTypeOK ==
    /\ TypeOK
    /\ at \in {"start", "requesting", "first", "select", "polling", "cancelling",
               "running", "leaving", "returned", "cancelled"}
    /\ err \in {"none", "invalid", "cancelled", "timeout", "call"}
    /\ channel \in {"none", "open", "closed"}
    /\ timer \in {"none", "waiting", "sending", "returning", "done"}
    /\ checker \in {"none", "waiting", "polling", "done"}
    /\ crashed \in BOOLEAN
    /\ row \in Live \cup {"none", "canceling", "closed"}
    /\ wasActive \in BOOLEAN
    /\ server \in {"given", "kept", "agent"}
    /\ handedBack \in {"unknown", "owed", "sent", "told", "failed", "found"}

JuicifyInit ==
    /\ Init
    /\ at = "start" /\ err = "none"
    /\ channel = "none" /\ timer = "none" /\ checker = "none" /\ crashed = FALSE
    /\ row = "none" /\ wasActive = FALSE
    /\ server = "given" /\ handedBack = "unknown"

\* app.Run goes from one of its steps to the next.
AppGoes(from, to) ==
    /\ status["AppMain"] = "running"
    /\ at = from
    /\ at' = to

\* A step of app.Run that starts no goroutine and cancels nothing.
MainGoes(from, to) == AppGoes(from, to) /\ UNCHANGED groupVars

----------------------------------------------------------------------------
(* appmain.Run and main.                                                   *)

AppStarts ==
    /\ OwnerStarts("AppMain")
    /\ UNCHANGED <<mainVars, helperVars, rowVars, seen>>

AppWaits ==
    /\ status["AppMain"] # "none"
    /\ WaitStep
    /\ UNCHANGED <<mainVars, helperVars, rowVars, seen>>

\* SIGINT or SIGTERM.
Signal ==
    /\ Cancel
    /\ UNCHANGED <<mainVars, helperVars, rowVars, seen>>

\* Whatever app.Run returned, main cancels the group before it returns it.
MainCancels ==
    /\ AppGoes("returned", "cancelled")
    /\ \/ Cancel
       \/ ctxDone /\ UNCHANGED groupVars
    /\ UNCHANGED <<err, helperVars, rowVars, seen>>

MainReturns ==
    /\ at = "cancelled"
    /\ IF err = "none" THEN TaskSucceeds("AppMain") ELSE TaskFails("AppMain")
    /\ UNCHANGED <<mainVars, helperVars, rowVars, seen>>

\* TaskManager.run after the task's function has returned.
TaskEnds(t) ==
    /\ (Report(t) \/ Done(t))
    /\ UNCHANGED <<mainVars, helperVars, rowVars, seen>>

----------------------------------------------------------------------------
(* app.Run.                                                                *)

\* The checks of flags, host and configuration, and --test-connection.
RunWithoutSession ==
    /\ MainGoes("start", "returned")
    /\ err' \in {"none", "call"}
    /\ UNCHANGED <<helperVars, rowVars, seen>>

RunBegins ==
    /\ MainGoes("start", "requesting")
    /\ UNCHANGED <<err, helperVars, rowVars, seen>>

\* api.RequestSessionWithContext.  Once the context is done a call may fail
\* whatever its peer does; when it fails the id is lost, served or not.
RunRequests ==
    \E call \in CallOutcomes :
        /\ MainGoes("requesting", IF call.ok THEN "first" ELSE "returned")
        /\ err' = IF call.ok THEN "none" ELSE "call"
        /\ row' = IF call.served THEN "queued" ELSE row
        /\ handedBack' = IF call.ok THEN "owed" ELSE "unknown"
        /\ UNCHANGED <<helperVars, wasActive, server>>

\* Mutant of CancelAfter: only a wait that was interrupted is followed by a cancel.
CancelAfterInterrupt(e) == e \in {"cancelled", "timeout"}

\* requestSession, when waitForSession has failed with e.
CancelAfter(e) == e # "invalid"

\* waitForSession returns an error, and closes the channel if it has made one.
WaitFails(from, e) ==
    /\ MainGoes(from, IF CancelAfter(e) THEN "cancelling" ELSE "returned")
    /\ err' = e
    /\ channel' = IF channel = "open" THEN "closed" ELSE channel
    /\ handedBack' = IF e = "invalid" THEN "found" ELSE handedBack
    /\ UNCHANGED <<timer, checker, crashed, rowVars, server>>

\* waitForSession returns the session, whose address, unless it is empty, is
\* the one to ask from now on; the goroutine that checks the session is started.
WaitSucceeds(from) ==
    /\ AppGoes(from, "running")
    /\ TaskStarts("CheckSession")
    /\ checker' = "waiting"
    /\ channel' = IF channel = "open" THEN "closed" ELSE channel
    /\ server' \in {"kept", "agent"}
    /\ UNCHANGED <<err, timer, crashed, rowVars, handedBack>>

StartsTimer ==
    IF QueueTimeout THEN TaskStarts("QueueTimeout") /\ timer' = "waiting"
                    ELSE UNCHANGED <<groupVars, timer>>

\* The first api.GetSessionWithContext of waitForSession.  A session that is not
\* active makes the channel and starts the timer, and only then the loop finds
\* that there is nothing to wait for when it has ended.
FirstLook ==
    \/ row = "active" /\ WaitSucceeds("first")
    \/ WaitFails("first", "call")
    \/ /\ StartsTimer
       /\ \/ /\ row \in {"queued", "assigned"}
             /\ AppGoes("first", "select")
             /\ channel' = "open"
             /\ UNCHANGED <<err, handedBack>>
          \/ /\ row \in {"canceling", "closed"}
             /\ AppGoes("first", "returned")
             /\ err' = "invalid"
             /\ channel' = "closed"
             /\ handedBack' = "found"
       /\ UNCHANGED <<checker, crashed, rowVars, server>>

\* The select of the loop: the context, the timer's send, the ticker.
SelectContext == ctxDone /\ WaitFails("select", "cancelled")

\* Mutant of TimedOut: the timeout is received and the loop goes on.
TimeoutDropped == MainGoes("select", "polling") /\ UNCHANGED <<err, channel, handedBack>>
TimedOut ==
    /\ MainGoes("select", "cancelling")
    /\ err' = "timeout"
    /\ channel' = "closed"
    /\ UNCHANGED handedBack

SelectTimeout ==
    /\ timer = "sending"
    /\ TimedOut
    /\ timer' = "returning"
    /\ UNCHANGED <<checker, crashed, rowVars, server>>

SelectTick ==
    /\ MainGoes("select", "polling")
    /\ UNCHANGED <<err, helperVars, rowVars, seen>>

\* api.GetSessionWithContext in the loop, which is left when the session is
\* active or has ended.
Poll ==
    \/ row = "active" /\ WaitSucceeds("polling")
    \/ row \in {"canceling", "closed"} /\ WaitFails("polling", "invalid")
    \/ WaitFails("polling", "call")
    \/ /\ row \in {"queued", "assigned"}
       /\ MainGoes("polling", "select")
       /\ UNCHANGED <<err, helperVars, rowVars, seen>>

\* What the controller makes of a DELETE, by the state and the agent of the row.
Canceled ==
    CASE row = "queued" -> {"closed"}
      [] row \in {"assigned", "active"} -> {"canceling"}
      [] row = "closed" -> {"closed", "canceling"}
      [] OTHER -> {row}

\* api.CancelSession with the background context, from requestSession or from
\* the deferred cancelSession.  An agent that is told closes its session, and
\* the row later.
CancelCall(from) ==
    \E call \in CallOutcomes :
        /\ MainGoes(from, "returned")
        /\ row' \in IF call.served /\ server # "agent" THEN Canceled ELSE {row}
        /\ handedBack' = CASE ~call.served -> "failed"
                           [] call.served /\ server = "agent" -> "told"
                           [] OTHER -> "sent"
        /\ UNCHANGED <<err, helperVars, wasActive, server>>

WaitCancels == CancelCall("cancelling")

\* The application runs; the group's context does not reach it.
AppExits ==
    /\ MainGoes("running", "leaving")
    /\ err' \in {"none", "call"}
    /\ UNCHANGED <<helperVars, rowVars, seen>>

RunLeaves == CancelCall("leaving")

----------------------------------------------------------------------------
(* The Queue Timeout goroutine.                                            *)

TimerGoes(from, to) ==
    /\ timer = from
    /\ timer' = to
    /\ UNCHANGED <<mainVars, channel, checker, crashed, rowVars, seen>>

TimerFires == TimerGoes("waiting", "sending") /\ UNCHANGED groupVars

TimerReturns ==
    /\ \/ TimerGoes("returning", "done")
       \/ ctxDone /\ TimerGoes("waiting", "done")
    /\ TaskSucceeds("QueueTimeout")

\* A send on a closed channel panics, which ends the process.
TimerPanics ==
    /\ timer = "sending"
    /\ channel = "closed"
    /\ crashed' = TRUE
    /\ UNCHANGED <<groupVars, mainVars, channel, timer, checker, rowVars, seen>>

----------------------------------------------------------------------------
(* The Check session goroutine.                                            *)

CheckerGoes(from, to) ==
    /\ checker = from
    /\ checker' = to
    /\ UNCHANGED <<mainVars, channel, timer, crashed, rowVars, seen>>

CheckerTicks == CheckerGoes("waiting", "polling") /\ UNCHANGED groupVars

\* Mutant of Over: only an error is looked at.
OverOnError(state) == FALSE
Over(state) == state = "closed"

\* An error, or a closed session, cancels the group.  A session whose row is
\* closed is one the agent has closed, or does not know any more, an error.
CheckerLooks ==
    /\ CheckerGoes("polling", "waiting")
    /\ \/ Cancel
       \/ ctxDone /\ UNCHANGED groupVars
       \/ ~Over(row) /\ UNCHANGED groupVars

\* Mutant of CheckerInterrupted: the select has no case for the context.
CheckerDeaf == FALSE
CheckerInterrupted == ctxDone

CheckerReturns ==
    /\ CheckerInterrupted
    /\ CheckerGoes("waiting", "done")
    /\ TaskSucceeds("CheckSession")

----------------------------------------------------------------------------
(* The row.                                                                *)

RowGoes(from, to) ==
    /\ row \in from
    /\ row' = to
    /\ wasActive' = (wasActive \/ to = "active")
    /\ UNCHANGED <<groupVars, mainVars, helperVars, seen>>

\* It is assigned; it becomes active, and the first report does so even when
\* it was canceling or closed; another client cancels it; the agent closes it.
RowStep ==
    \/ RowGoes({"queued"}, "assigned")
    \/ RowGoes({"assigned"} \cup (IF wasActive THEN {} ELSE {"canceling", "closed"}), "active")
    \/ RowGoes({"assigned", "active"}, "canceling")
    \/ RowGoes({"queued", "assigned", "active", "canceling"}, "closed")

----------------------------------------------------------------------------

RunStep ==
    \/ RunWithoutSession \/ RunBegins \/ RunRequests
    \/ FirstLook
    \/ SelectContext \/ SelectTimeout \/ SelectTick \/ Poll
    \/ WaitCancels \/ RunLeaves
    \/ MainCancels \/ MainReturns

ProcessStep ==
    \/ AppStarts \/ AppWaits \/ Signal
    \/ RunStep \/ AppExits
    \/ \E t \in Task : TaskEnds(t)
    \/ TimerFires \/ TimerReturns \/ TimerPanics
    \/ CheckerTicks \/ CheckerLooks \/ CheckerReturns

JuicifyNext ==
    \/ ~crashed /\ ProcessStep
    \/ RowStep

JuicifySpec == JuicifyInit /\ [][JuicifyNext]_juicifyVars

Alive(A) == ~crashed /\ A

\* Goroutines are scheduled, tickers tick and calls are answered; a select
\* that is offered the timeout again and again takes it once.  Nothing is
\* assumed of the application, the signals or the row.
JuicifyFairness ==
    /\ WF_juicifyVars(Alive(AppStarts))
    /\ WF_juicifyVars(Alive(AppWaits))
    /\ WF_juicifyVars(Alive(RunStep))
    /\ SF_juicifyVars(Alive(SelectTimeout))
    /\ SF_juicifyVars(Alive(SelectContext))
    /\ \A t \in Task : WF_juicifyVars(Alive(TaskEnds(t)))
    /\ WF_juicifyVars(Alive(TimerFires \/ TimerReturns \/ TimerPanics))
    /\ WF_juicifyVars(Alive(CheckerTicks \/ CheckerLooks))
    /\ SF_juicifyVars(Alive(CheckerReturns))

JuicifyFairSpec == JuicifySpec /\ JuicifyFairness

----------------------------------------------------------------------------
(* Properties.                                                             *)

\* However juicify ends, short of a panic, the session it knows of is given
\* back: it has cancelled it at the controller or at the agent, or could not,
\* or had found it ended; and one it had seen active and has cancelled at the
\* controller does not come back to life (requestSession, cancelSession).
LeavesNothingBehind ==
    at \in {"returned", "cancelled"} =>
        /\ handedBack # "owed"
        /\ server # "given" /\ handedBack = "sent" => row \notin Live

\* With a queue timeout nobody waits for ever for a session, whatever becomes
\* of its row.
WaitingEnds ==
    QueueTimeout => (at = "select" ~> at \notin {"select", "polling"} \/ crashed)

\* A stopping juicify waits for nothing but the application: every goroutine
\* of its group notices, and Wait returns.
StopEnds == ctxDone ~> waiting = "returned" \/ at = "running" \/ crashed

\* A session that ends under the application is noticed, and the group is
\* cancelled.
EndIsNoticed == at = "running" /\ row = "closed" ~> ctxDone \/ at # "running" \/ crashed

\* --queue-timeout is the "Maximum number of seconds to wait for a GPU": it
\* does nothing to a juicify that has its GPU.
TimeoutOnlyWhileWaiting == [][at = "running" => ~(~crashed /\ crashed')]_juicifyVars

==============================================================================
