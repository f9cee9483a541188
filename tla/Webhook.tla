------------------------------- MODULE Webhook -------------------------------
(***************************************************************************)
(* The webhook of the controller (cmd/controller/frontend): the handlers   *)
(* of agent updates send a message per reported session to a channel, one  *)
(* goroutine copies it to a slice, another posts what is in the slice.     *)
(* They are tasks of the controller's TaskManager.  Reports of one agent   *)
(* follow one another: it waits for the answer to each.  The receiver of   *)
(* the posts is external; what it answers is not looked at.                *)
(***************************************************************************)
EXTENDS TaskManager, SequencesExt

CONSTANTS Agent,
          Session,
          AgentOf,     \* the agent that reports a session
          Depth,       \* of the channel, 32 in the code
          MaxReports   \* bound: reports of one session

ASSUME WebhookAssumption ==
    /\ Task = {"Frontend", "Copying", "Calling"}
    /\ AgentOf \in [Session -> Agent]
    /\ Depth \in Nat \ {0}
    /\ MaxReports \in Nat

Message == [session : Session, report : Nat]

VARIABLES reported,  \* per session, how many of its reports are stored
          toSend,    \* per agent, the sessions its handler has yet to send
          channel,   \* webhookMessages
          copier,    \* where Webhook Copying is
          inHand,    \* the message it has received, in a sequence of at most one
          messages,
          caller,    \* where Webhook Calling is
          posting,   \* the message it has popped, in a sequence of at most one
          posted,    \* history, per session: the last report posted
          missed     \* history: the signal of the stop met nobody, a moment too early

groupVars == vars
handlerVars == <<reported, toSend>>
copierVars == <<copier, inHand>>
callerVars == <<caller, posting, posted>>
webhookVars == <<groupVars, handlerVars, channel, copierVars, messages, callerVars, missed>>

WebhookTypeOK ==
    /\ TypeOK
    /\ reported \in [Session -> Nat]
    /\ toSend \in [Agent -> SUBSET Session]
    /\ channel \in Seq(Message)
    /\ copier \in {"select", "appending", "signalling", "stopped"}
    /\ inHand \in Seq(Message)
    /\ messages \in Seq(Message)
    /\ caller \in {"looking", "select", "popping", "posting", "locking", "testing", "gap",
                   "asleep", "woken", "stopped", "left"}
    /\ posting \in Seq(Message)
    /\ posted \in [Session -> Nat]
    /\ missed \in BOOLEAN

WebhookInit ==
    /\ Init
    /\ reported = [s \in Session |-> 0]
    /\ toSend = [a \in Agent |-> {}]
    /\ channel = <<>> /\ messages = <<>>
    /\ copier = "select" /\ inHand = <<>>
    /\ caller = "looking" /\ posting = <<>>
    /\ posted = [s \in Session |-> 0]
    /\ missed = FALSE

----------------------------------------------------------------------------
(* The process.                                                            *)

ProcessGoes == UNCHANGED <<handlerVars, channel, copierVars, messages, callerVars, missed>>

\* Frontend.Run starts the two goroutines and returns.
FrontendStarts(t) ==
    /\ IF t = "Frontend" THEN OwnerStarts(t) ELSE status["Frontend"] = "running" /\ TaskStarts(t)
    /\ ProcessGoes

FrontendReturns ==
    /\ \A t \in Task : status[t] # "none"
    /\ TaskSucceeds("Frontend")
    /\ ProcessGoes

\* A signal, or another task of the controller fails.
ControllerStops == Cancel /\ ProcessGoes

ControllerWaits == status["Frontend"] # "none" /\ WaitStep /\ ProcessGoes

TaskEnds(t) == (Report(t) \/ Done(t)) /\ ProcessGoes

----------------------------------------------------------------------------
(* Frontend.updateAgent, in the handler of an agent.                       *)

\* storage.UpdateAgent has stored a report on some sessions of the agent.
ReportStored(a, S) ==
    /\ toSend[a] = {}
    /\ S # {}
    /\ \A s \in S : AgentOf[s] = a /\ reported[s] < MaxReports
    /\ reported' = [s \in Session |-> reported[s] + (IF s \in S THEN 1 ELSE 0)]
    /\ toSend' = [toSend EXCEPT ![a] = S]
    /\ UNCHANGED <<groupVars, channel, copierVars, messages, callerVars, missed>>

\* One send, in any order of the map.  It blocks while the channel is full and
\* does not look at the context.
HandlerSends(a) ==
    /\ Len(channel) < Depth
    /\ \E s \in toSend[a] :
          /\ channel' = Append(channel, [session |-> s, report |-> reported[s]])
          /\ toSend' = [toSend EXCEPT ![a] = @ \ {s}]
    /\ UNCHANGED <<groupVars, reported, copierVars, messages, callerVars, missed>>

----------------------------------------------------------------------------
(* Webhook Copying.                                                        *)

\* Calling holds the mutex: while it tests and until Wait has let go of it,
\* and for ever when it has returned from inside the test.
Locked == caller \in {"testing", "gap", "left"}

\* Mutant of Signalled: the Signal is left out.
NotSignalled == caller
Signalled == IF caller = "asleep" THEN "woken" ELSE caller

CopierGoes(from, to) ==
    /\ status["Copying"] = "running"
    /\ copier = from
    /\ copier' = to
    /\ UNCHANGED <<handlerVars, posting, posted>>

CopierReceives ==
    /\ channel # <<>>
    /\ CopierGoes("select", "appending")
    /\ inHand' = <<Head(channel)>>
    /\ channel' = Tail(channel)
    /\ UNCHANGED <<groupVars, messages, caller, missed>>

\* Mutant of Appended: the newest message comes first.
Prepended == inHand \o messages
Appended == messages \o inHand

CopierAppends ==
    /\ ~Locked
    /\ CopierGoes("appending", "signalling")
    /\ messages' = Appended
    /\ inHand' = <<>>
    /\ UNCHANGED <<groupVars, channel, caller, missed>>

CopierSignals ==
    /\ CopierGoes("signalling", "select")
    /\ caller' = Signalled
    /\ UNCHANGED <<groupVars, inHand, channel, messages, missed>>

\* The context is done: Signal, without the mutex, and return.
CopierStops ==
    /\ ctxDone
    /\ CopierGoes("select", "stopped")
    /\ caller' = Signalled
    /\ missed' = (caller = "gap")
    /\ TaskSucceeds("Copying")
    /\ UNCHANGED <<inHand, channel, messages>>

CopierStep == CopierReceives \/ CopierAppends \/ CopierSignals \/ CopierStops

----------------------------------------------------------------------------
(* Webhook Calling.                                                        *)

CallerGoes(from, to) ==
    /\ status["Calling"] = "running"
    /\ caller = from
    /\ caller' = to
    /\ UNCHANGED <<handlerVars, channel, copierVars, missed>>

CallerMoves(from, to) ==
    CallerGoes(from, to) /\ UNCHANGED <<groupVars, messages, posting, posted>>

\* len(messages) > 0, read without the mutex.
CallerLooks == CallerMoves("looking", IF messages = <<>> THEN "locking" ELSE "select")

CallerSelects == ~ctxDone /\ CallerMoves("select", "popping")

CallerStops ==
    /\ ctxDone
    /\ CallerGoes("select", "stopped")
    /\ TaskSucceeds("Calling")
    /\ UNCHANGED <<messages, posting, posted>>

CallerPops ==
    /\ CallerGoes("popping", "posting")
    /\ posting' = <<Head(messages)>>
    /\ messages' = Tail(messages)
    /\ UNCHANGED <<groupVars, posted>>

\* The POST is answered or fails; the message is not posted again.
CallerPosts ==
    /\ CallerGoes("posting", "looking")
    /\ posted' = [posted EXCEPT ![Head(posting).session] = Head(posting).report]
    /\ posting' = <<>>
    /\ UNCHANGED <<groupVars, messages>>

CallerLocks == CallerMoves("locking", "testing") \/ CallerMoves("woken", "testing")

\* The test of the inner loop: there is a message; or the context is done, and
\* the goroutine returns with the mutex; or it is about to Wait.
CallerTests ==
    \/ messages # <<>> /\ CallerMoves("testing", "looking")
    \/ /\ messages = <<>> /\ ctxDone
       /\ CallerGoes("testing", "left")
       /\ TaskSucceeds("Calling")
       /\ UNCHANGED <<messages, posting, posted>>
    \/ messages = <<>> /\ ~ctxDone /\ CallerMoves("testing", "gap")

CallerSleeps == CallerMoves("gap", "asleep")

CallerStep ==
    \/ CallerLooks \/ CallerSelects \/ CallerStops \/ CallerPops \/ CallerPosts
    \/ CallerLocks \/ CallerTests \/ CallerSleeps

----------------------------------------------------------------------------

GroupStep ==
    \/ FrontendReturns
    \/ ControllerWaits
    \/ \E t \in Task : FrontendStarts(t) \/ TaskEnds(t)

\* The process ends with Wait.
WebhookNext ==
    /\ waiting # "returned"
    /\ \/ ControllerStops
       \/ GroupStep
       \/ \E a \in Agent : HandlerSends(a) \/ \E S \in SUBSET Session : ReportStored(a, S)
       \/ CopierStep
       \/ CallerStep

WebhookSpec == WebhookInit /\ [][WebhookNext]_webhookVars

Running(A) == waiting # "returned" /\ A

\* Goroutines are scheduled and the receiver answers.  Nothing is assumed of
\* the agents and of the stop.
WebhookFairness ==
    /\ WF_webhookVars(Running(FrontendReturns))
    /\ WF_webhookVars(Running(ControllerWaits))
    /\ \A t \in Task : WF_webhookVars(Running(FrontendStarts(t) \/ TaskEnds(t)))
    /\ \A a \in Agent : WF_webhookVars(Running(HandlerSends(a)))
    /\ WF_webhookVars(Running(CopierStep))
    /\ WF_webhookVars(Running(CallerStep))

WebhookFairSpec == WebhookSpec /\ WebhookFairness

----------------------------------------------------------------------------
(* Properties.                                                             *)

\* The messages on their way, oldest first.
Pipeline == posting \o messages \o inHand \o channel

\* The places of s in a sequence of messages, and its reports there.
PlacesOf(s, seq) == {i \in 1..Len(seq) : seq[i].session = s}
ReportsOf(s, seq) == {seq[i].report : i \in PlacesOf(s, seq)}
InOrder(s, seq) == \A i, j \in PlacesOf(s, seq) : i < j => seq[i].report < seq[j].report

Sent(s) == reported[s] - (IF s \in toSend[AgentOf[s]] THEN 1 ELSE 0)

\* Every report of a session goes through the channel and the slice exactly
\* once and in the order the reports were stored, though handlers, copying and
\* calling overlap and len(messages) is read without the mutex.
NothingLostOrReordered ==
    \A s \in Session :
        /\ InOrder(s, Pipeline)
        /\ ReportsOf(s, Pipeline) = (posted[s] + 1)..Sent(s)

\* As long as the controller is not stopped a POST is tried for every stored
\* report: no wake-up is lost between Copying and Calling.  (One that fails is not
\* repeated.)
ReportsArePosted ==
    \A s \in Session : \A n \in 1..MaxReports :
        reported[s] = n ~> posted[s] >= n \/ ctxDone

\* A stopping controller ends, but for the two moments in which the code
\* leaves a goroutine behind: the only Signal of the stop came between the test
\* of the context and Wait, or Calling has returned with the mutex that Copying
\* needs for a message it has received.
StopEnds ==
    ctxDone ~> waiting = "returned" \/ missed \/ (caller = "left" /\ copier = "appending")

==============================================================================
