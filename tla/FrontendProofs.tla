--------------------------- MODULE FrontendProofs ---------------------------
(***************************************************************************)
(* Proofs about the frontend of the controller.  The goroutines of the     *)
(* webhook are tasks of the controller's TaskManager: what is proved of    *)
(* any group holds of them, and no report is lost or overtaken, for any    *)
(* number of agents and sessions and any depth of the channel.  Of pools   *)
(* and permissions: what the creator of a pool holds, and that the two     *)
(* listings agree, for any number of pools, users and requests under way.  *)
(***************************************************************************)
EXTENDS Webhook, Catalog, TaskManagerProofs, SequenceTheorems

----------------------------------------------------------------------------
(* The webhook.                                                            *)

LEMMA TasksOfWebhook == "Frontend" \in Task /\ "Copying" \in Task /\ "Calling" \in Task
  BY WebhookAssumption

\* Frontend.Run, the signals and Wait.
LEMMA GroupStepMaps ==
    ASSUME GroupStep \/ ControllerStops
    PROVE  Next
<1>1. ASSUME NEW t \in Task, FrontendStarts(t) PROVE Next
  BY <1>1 DEF FrontendStarts, Next, TaskStep
<1>2. ASSUME NEW t \in Task, TaskEnds(t) PROVE Next
  BY <1>2 DEF TaskEnds, Next, TaskStep
<1>3. CASE FrontendReturns
  BY <1>3, TasksOfWebhook DEF FrontendReturns, Next, TaskStep, TaskReturns
<1>4. CASE ControllerWaits
  BY <1>4 DEF ControllerWaits, Next
<1>5. CASE ControllerStops
  BY <1>5 DEF ControllerStops, Next
<1> QED
  BY <1>1, <1>2, <1>3, <1>4, <1>5 DEF GroupStep

\* Webhook Copying: its steps do not concern the group, until it returns.
LEMMA CopierStepMaps ==
    ASSUME CopierStep
    PROVE  [Next]_vars
<1>1. CASE CopierReceives \/ CopierAppends \/ CopierSignals
  BY <1>1 DEF CopierReceives, CopierAppends, CopierSignals, groupVars
<1>2. CASE CopierStops
  BY <1>2, TasksOfWebhook DEF CopierStops, Next, TaskStep, TaskReturns
<1> QED
  BY <1>1, <1>2 DEF CopierStep

\* Webhook Calling likewise; it can return from two places.
LEMMA CallerStepMaps ==
    ASSUME CallerStep
    PROVE  [Next]_vars
<1>1. ASSUME NEW from, NEW to, CallerMoves(from, to) PROVE UNCHANGED vars
  BY <1>1 DEF CallerMoves, groupVars
<1>2. CASE CallerLooks \/ CallerSelects \/ CallerLocks \/ CallerSleeps
  BY <1>2, <1>1 DEF CallerLooks, CallerSelects, CallerLocks, CallerSleeps
<1>3. CASE CallerPops \/ CallerPosts
  BY <1>3 DEF CallerPops, CallerPosts, groupVars
<1>4. CASE CallerStops
  BY <1>4, TasksOfWebhook DEF CallerStops, Next, TaskStep, TaskReturns
<1>5. CASE CallerTests
  BY <1>5, <1>1, TasksOfWebhook DEF CallerTests, Next, TaskStep, TaskReturns
<1> QED
  BY <1>2, <1>3, <1>4, <1>5 DEF CallerStep

LEMMA StepMaps ==
    ASSUME [WebhookNext]_webhookVars
    PROVE  [Next]_vars
<1>1. CASE UNCHANGED webhookVars
  BY <1>1 DEF webhookVars, groupVars
<1>2. ASSUME NEW a \in Agent, HandlerSends(a) PROVE UNCHANGED vars
  BY <1>2 DEF HandlerSends, groupVars
<1>3. ASSUME NEW a \in Agent, NEW S \in SUBSET Session, ReportStored(a, S) PROVE UNCHANGED vars
  BY <1>3 DEF ReportStored, groupVars
<1> QED
  BY <1>1, <1>2, <1>3, GroupStepMaps, CopierStepMaps, CallerStepMaps DEF WebhookNext

\* The webhook starts and ends its goroutines as TaskManager wants it, also
\* when one of them leaves with the mutex: it implements the specification of
\* the group (frontend.go, Run).
THEOREM ImplementsTaskManager == WebhookSpec => Spec
<1>1. WebhookInit => Init
  BY DEF WebhookInit
<1> QED
  BY <1>1, StepMaps, PTL DEF WebhookSpec, Spec

\* No goroutine of the webhook sends on the closed channel of errors, however
\* late it notices the stop.
THEOREM WebhookNeverPanics == WebhookSpec => []NeverPanics
  BY ImplementsTaskManager, NeverPanicsHolds, PTL

\* A controller whose Wait has returned has left no goroutine of the webhook
\* behind: one that is stuck keeps Wait from returning.
THEOREM WebhookLosesNothing == WebhookSpec => []NothingLost
  BY ImplementsTaskManager, NothingLostHolds, PTL

----------------------------------------------------------------------------
(* The messages on their way.                                              *)

\* The types of the webhook's own variables, but for the Boolean one.
OwnTypes ==
    /\ reported \in [Session -> Nat]
    /\ toSend \in [Agent -> SUBSET Session]
    /\ channel \in Seq(Message)
    /\ copier \in {"select", "appending", "signalling", "stopped"}
    /\ inHand \in Seq(Message)
    /\ messages \in Seq(Message)
    /\ caller \in {"looking", "select", "popping", "posting", "locking", "testing", "gap",
                   "asleep", "woken", "stopped", "left"}
    /\ posting \in Seq(Message)
    /\ posted \in [Session -> Nat]

\* The hands are empty but while there is something in them, and Calling, the
\* only one to take from the slice, pops from one that is not empty.
HandInv ==
    /\ copier # "appending" => inHand = <<>>
    /\ caller # "posting" => posting = <<>>
    /\ caller = "posting" => Len(posting) = 1
    /\ caller \in {"select", "popping"} => messages # <<>>
    /\ \A a \in Agent : \A s \in toSend[a] : AgentOf[s] = a /\ reported[s] > 0

\* Nothing is posted before it has been sent.
PostedInv == \A s \in Session : posted[s] <= Sent(s)

PipelineInv == OwnTypes /\ HandInv /\ PostedInv /\ NothingLostOrReordered

pipelineVars == <<handlerVars, channel, copierVars, messages, callerVars>>

LEMMA SentIsNatural ==
    ASSUME OwnTypes, HandInv
    PROVE  \A s \in Session : AgentOf[s] \in Agent /\ Sent(s) \in Nat
  BY WebhookAssumption DEF OwnTypes, HandInv, Sent

\* A new message at the end, of the next report of its session.
LEMMA AppendKeepsOrder ==
    ASSUME NEW seq \in Seq(Message), NEW m \in Message, NEW s \in Session,
           NEW p \in Nat, NEW n \in Nat, p <= n,
           InOrder(s, seq), ReportsOf(s, seq) = (p + 1)..n,
           m.session = s => m.report = n + 1
    PROVE  /\ InOrder(s, Append(seq, m))
           /\ ReportsOf(s, Append(seq, m)) = (p + 1)..(IF m.session = s THEN n + 1 ELSE n)
<1> DEFINE new == Append(seq, m)
           l == Len(seq)
<1>1. /\ new \in Seq(Message) /\ Len(new) = l + 1 /\ l \in Nat
      /\ \A i \in 1..l : new[i] = seq[i]
      /\ new[l + 1] = m
  BY AppendProperties
<1>2. \A i \in 1..l : seq[i] \in Message
  BY ElementOfSeq
<1>3. \A i \in PlacesOf(s, seq) : i \in 1..l /\ seq[i].report \in (p + 1)..n
  BY DEF ReportsOf, PlacesOf
<1> HIDE DEF new, l
<1>4. PlacesOf(s, new) = PlacesOf(s, seq) \cup (IF m.session = s THEN {l + 1} ELSE {})
  BY <1>1 DEF PlacesOf, l
<1>5. InOrder(s, new)
  <2>1. SUFFICES ASSUME NEW i \in PlacesOf(s, new), NEW j \in PlacesOf(s, new), i < j
                 PROVE  new[i].report < new[j].report
    BY DEF InOrder
  <2>2. i \in PlacesOf(s, seq) /\ new[i] = seq[i]
    BY <1>1, <1>3, <1>4, <2>1
  <2>3. CASE j \in PlacesOf(s, seq)
    BY <1>1, <1>3, <2>1, <2>2, <2>3 DEF InOrder
  <2>4. CASE m.session = s /\ j = l + 1
    <3>1. new[i].report \in (p + 1)..n
      BY <1>3, <2>2
    <3>2. new[j].report = n + 1
      BY <1>1, <2>4
    <3> QED
      BY <3>1, <3>2
  <2> QED
    BY <1>4, <2>3, <2>4
<1>6. ReportsOf(s, new) = (p + 1)..(IF m.session = s THEN n + 1 ELSE n)
  <2>1. \A i \in PlacesOf(s, seq) : new[i] = seq[i]
    BY <1>1, <1>3
  <2>2. ReportsOf(s, new) = ReportsOf(s, seq) \cup (IF m.session = s THEN {n + 1} ELSE {})
    BY <1>1, <1>4, <2>1 DEF ReportsOf
  <2> QED
    BY <2>2
<1> QED
  BY <1>5, <1>6 DEF new

\* The oldest message leaves: it is the next report of its session.
LEMMA TailKeepsOrder ==
    ASSUME NEW seq \in Seq(Message), seq # <<>>, NEW s \in Session,
           NEW p \in Nat, NEW n \in Nat, p <= n,
           InOrder(s, seq), ReportsOf(s, seq) = (p + 1)..n
    PROVE  /\ InOrder(s, Tail(seq))
           /\ Head(seq).session = s => p < n /\ Head(seq).report = p + 1
           /\ ReportsOf(s, Tail(seq)) = ((IF Head(seq).session = s THEN p + 1 ELSE p) + 1)..n
<1> DEFINE rest == Tail(seq)
           l == Len(seq)
<1>1. /\ rest \in Seq(Message) /\ l \in Nat /\ l > 0 /\ Len(rest) = l - 1
      /\ \A i \in 1..(l - 1) : rest[i] = seq[i + 1]
      /\ Head(seq) = seq[1]
  BY HeadTailProperties, EmptySeq
<1>2. \A i \in PlacesOf(s, seq) : i \in 1..l /\ seq[i].report \in (p + 1)..n
  BY DEF ReportsOf, PlacesOf
<1> HIDE DEF rest, l
<1>3. \A i : i \in PlacesOf(s, rest) <=> i \in 1..(l - 1) /\ i + 1 \in PlacesOf(s, seq)
  BY <1>1 DEF PlacesOf, l
<1>4. InOrder(s, rest)
  <2>1. SUFFICES ASSUME NEW i \in PlacesOf(s, rest), NEW j \in PlacesOf(s, rest), i < j
                 PROVE  rest[i].report < rest[j].report
    BY DEF InOrder
  <2>2. /\ i \in 1..(l - 1) /\ i + 1 \in PlacesOf(s, seq)
        /\ j \in 1..(l - 1) /\ j + 1 \in PlacesOf(s, seq)
    BY <1>3
  <2>3. i + 1 < j + 1
    BY <2>1, <2>2
  <2> QED
    BY <1>1, <2>2, <2>3 DEF InOrder
<1>5. PlacesOf(s, seq) = {i + 1 : i \in PlacesOf(s, rest)}
                            \cup (IF Head(seq).session = s THEN {1} ELSE {})
  <2>1. ASSUME NEW k \in PlacesOf(s, seq), k # 1 PROVE k - 1 \in PlacesOf(s, rest) /\ (k - 1) + 1 = k
    <3>1. k \in 1..l
      BY <1>2
    <3>2. k - 1 \in 1..(l - 1) /\ (k - 1) + 1 = k
      BY <1>1, <2>1, <3>1
    <3> QED
      BY <1>3, <3>2
  <2>2. 1 \in PlacesOf(s, seq) <=> Head(seq).session = s
    BY <1>1 DEF PlacesOf, l
  <2> QED
    BY <1>3, <2>1, <2>2
<1>6. \A i \in PlacesOf(s, rest) : rest[i] = seq[i + 1]
  BY <1>1, <1>3
<1>7. ReportsOf(s, seq) = ReportsOf(s, rest)
                             \cup (IF Head(seq).session = s THEN {Head(seq).report} ELSE {})
  BY <1>1, <1>5, <1>6 DEF ReportsOf
<1>8. CASE Head(seq).session = s
  <2> DEFINE r == Head(seq).report
  <2>1. 1 \in PlacesOf(s, seq) /\ r = seq[1].report /\ r \in (p + 1)..n
    BY <1>1, <1>2, <1>5, <1>8
  <2>2. \A x \in ReportsOf(s, rest) : r < x
    <3>1. ASSUME NEW i \in PlacesOf(s, rest) PROVE r < rest[i].report
      <4>1. i + 1 \in PlacesOf(s, seq) /\ 1 < i + 1
        BY <1>1, <1>3
      <4> QED
        BY <1>6, <2>1, <4>1 DEF InOrder
    <3> QED
      BY <3>1 DEF ReportsOf
  <2>3. (p + 1)..n = ReportsOf(s, rest) \cup {r}
    BY <1>7, <1>8
  <2> HIDE DEF r
  <2>4. r = p + 1
    <3>1. p + 1 \in (p + 1)..n
      BY <2>1
    <3>2. p + 1 \in ReportsOf(s, rest) => r < p + 1
      BY <2>2
    <3> QED
      BY <2>1, <2>3, <3>1, <3>2
  <2>5. r \notin ReportsOf(s, rest)
    BY <2>1, <2>2
  <2>6. ReportsOf(s, rest) = ((p + 1)..n) \ {p + 1}
    BY <2>3, <2>4, <2>5
  <2>7. ReportsOf(s, rest) = ((p + 1) + 1)..n
    BY <2>6
  <2> QED
    BY <1>4, <1>8, <2>1, <2>4, <2>7 DEF r, rest
<1>9. CASE Head(seq).session # s
  BY <1>4, <1>7, <1>9 DEF rest
<1> QED
  BY <1>8, <1>9

\* A message goes from one hand to the next: the pipeline is as it was.
LEMMA PassedOn ==
    ASSUME PipelineInv, OwnTypes', HandInv', Pipeline' = Pipeline,
           UNCHANGED <<reported, toSend, posted>>
    PROVE  PipelineInv'
  BY DEF PipelineInv, PostedInv, NothingLostOrReordered, Sent

LEMMA PipelineType ==
    ASSUME OwnTypes
    PROVE  Pipeline \in Seq(Message)
  BY ConcatProperties DEF OwnTypes, Pipeline

LEMMA GroupStepPipeline ==
    ASSUME PipelineInv, UNCHANGED pipelineVars
    PROVE  PipelineInv'
<1> USE DEF pipelineVars, handlerVars, copierVars, callerVars
<1>1. OwnTypes' /\ HandInv'
  BY DEF PipelineInv, OwnTypes, HandInv
<1>2. Pipeline' = Pipeline
  BY DEF Pipeline
<1> QED
  BY <1>1, <1>2, PassedOn

LEMMA ReportStoredStep ==
    ASSUME PipelineInv, NEW a \in Agent, NEW S \in SUBSET Session, ReportStored(a, S)
    PROVE  PipelineInv'
<1>1. /\ toSend[a] = {}
      /\ \A s \in S : AgentOf[s] = a
      /\ reported' = [s \in Session |-> reported[s] + (IF s \in S THEN 1 ELSE 0)]
      /\ toSend' = [toSend EXCEPT ![a] = S]
      /\ UNCHANGED <<channel, copier, inHand, messages, caller, posting, posted>>
  BY DEF ReportStored, copierVars, callerVars
<1>2. OwnTypes'
  <2>1. reported' \in [Session -> Nat]
    BY <1>1 DEF PipelineInv, OwnTypes
  <2> QED
    BY <1>1, <2>1 DEF PipelineInv, OwnTypes
<1>3. \A s \in Session : /\ reported'[s] = reported[s] + (IF s \in S THEN 1 ELSE 0)
                          /\ reported[s] \in Nat
  BY <1>1 DEF PipelineInv, OwnTypes
<1>4. \A b \in Agent : toSend'[b] = IF b = a THEN S ELSE toSend[b]
  BY <1>1 DEF PipelineInv, OwnTypes
<1>5. HandInv'
  <2>1. \A b \in Agent : \A s \in toSend'[b] : AgentOf[s] = b /\ reported'[s] > 0
    <3>1. SUFFICES ASSUME NEW b \in Agent, NEW s \in toSend'[b]
                   PROVE  AgentOf[s] = b /\ reported'[s] > 0
      OBVIOUS
    <3>2. CASE b = a
      BY <1>1, <1>3, <1>4, <3>2
    <3>3. CASE b # a
      <4>1. s \in toSend[b] /\ s \in Session
        BY <1>4, <3>3 DEF PipelineInv, OwnTypes
      <4> QED
        BY <1>3, <4>1 DEF PipelineInv, HandInv
    <3> QED
      BY <3>2, <3>3
  <2> QED
    BY <1>1, <2>1 DEF PipelineInv, HandInv
<1>6. \A s \in Session : Sent(s)' = Sent(s)
  <2>1. SUFFICES ASSUME NEW s \in Session PROVE Sent(s)' = Sent(s)
    OBVIOUS
  <2>2. Sent(s)' = reported'[s] - (IF s \in toSend'[AgentOf[s]] THEN 1 ELSE 0)
    BY DEF Sent
  <2>3. AgentOf[s] \in Agent
    BY WebhookAssumption
  <2>4. CASE s \in S
    <3>1. s \in toSend'[AgentOf[s]] /\ s \notin toSend[AgentOf[s]]
      BY <1>1, <1>4, <2>3, <2>4
    <3> QED
      BY <1>3, <2>2, <2>4, <3>1 DEF Sent
  <2>5. CASE s \notin S
    <3>1. s \in toSend'[AgentOf[s]] <=> s \in toSend[AgentOf[s]]
      BY <1>1, <1>4, <2>3, <2>5
    <3> QED
      BY <1>3, <2>2, <2>5, <3>1 DEF Sent
  <2> QED
    BY <2>4, <2>5
<1>7. Pipeline' = Pipeline
  BY <1>1 DEF Pipeline
<1> QED
  BY <1>1, <1>2, <1>5, <1>6, <1>7 DEF PipelineInv, PostedInv, NothingLostOrReordered

LEMMA HandlerSendsStep ==
    ASSUME PipelineInv, NEW a \in Agent, HandlerSends(a)
    PROVE  PipelineInv'
<1>1. PICK s \in toSend[a] :
         /\ channel' = Append(channel, [session |-> s, report |-> reported[s]])
         /\ toSend' = [toSend EXCEPT ![a] = @ \ {s}]
  BY DEF HandlerSends
<1> DEFINE m == [session |-> s, report |-> reported[s]]
<1>2. UNCHANGED <<reported, copier, inHand, messages, caller, posting, posted>>
  BY DEF HandlerSends, copierVars, callerVars
<1>3. s \in Session /\ m \in Message /\ AgentOf[s] = a /\ reported[s] > 0
  BY <1>1 DEF PipelineInv, OwnTypes, HandInv, Message
<1>4. OwnTypes'
  <2>1. channel' \in Seq(Message)
    BY <1>1, <1>3, AppendProperties DEF PipelineInv, OwnTypes
  <2> QED
    BY <1>1, <1>2, <2>1 DEF PipelineInv, OwnTypes
<1>5. \A b \in Agent : toSend'[b] = IF b = a THEN toSend[a] \ {s} ELSE toSend[b]
  BY <1>1 DEF PipelineInv, OwnTypes
<1>6. HandInv'
  BY <1>2, <1>5 DEF PipelineInv, HandInv
<1>7. Pipeline' = Append(Pipeline, m)
  <2>1. /\ Pipeline' = posting \o messages \o inHand \o Append(channel, m)
        /\ posting \in Seq(Message) /\ messages \in Seq(Message)
        /\ inHand \in Seq(Message) /\ channel \in Seq(Message)
    BY <1>1, <1>2 DEF Pipeline, PipelineInv, OwnTypes
  <2> DEFINE before == posting \o messages \o inHand
  <2>2. before \in Seq(Message)
    BY <2>1, ConcatProperties
  <2> HIDE DEF before
  <2>3. before \o Append(channel, m) = Append(before \o channel, m)
    BY <1>3, <2>1, <2>2
  <2> QED
    BY <2>1, <2>3 DEF before, Pipeline
<1>8. \A t \in Session : Sent(t)' = IF t = s THEN Sent(t) + 1 ELSE Sent(t)
  <2>1. SUFFICES ASSUME NEW t \in Session
                 PROVE  Sent(t)' = IF t = s THEN Sent(t) + 1 ELSE Sent(t)
    OBVIOUS
  <2>2. Sent(t)' = reported[t] - (IF t \in toSend'[AgentOf[t]] THEN 1 ELSE 0)
    BY <1>2 DEF Sent
  <2>3. AgentOf[t] \in Agent /\ reported[t] \in Nat
    BY WebhookAssumption DEF PipelineInv, OwnTypes
  <2>4. CASE t = s
    BY <1>3, <1>5, <2>2, <2>3, <2>4 DEF Sent
  <2>5. CASE t # s
    <3>1. t \in toSend'[AgentOf[t]] <=> t \in toSend[AgentOf[t]]
      BY <1>5, <2>3, <2>5
    <3> QED
      BY <2>2, <2>5, <3>1 DEF Sent
  <2> QED
    BY <2>4, <2>5
<1>9. m.session = s /\ m.report = Sent(s) + 1
  BY <1>1, <1>3 DEF Sent, PipelineInv, OwnTypes
<1>10. ASSUME NEW t \in Session
       PROVE  /\ posted'[t] <= Sent(t)'
              /\ InOrder(t, Pipeline')
              /\ ReportsOf(t, Pipeline') = (posted'[t] + 1)..(Sent(t)')
  <2>1. posted[t] \in Nat /\ Sent(t) \in Nat /\ posted[t] <= Sent(t)
    BY SentIsNatural DEF PipelineInv, OwnTypes, PostedInv
  <2>2. InOrder(t, Pipeline) /\ ReportsOf(t, Pipeline) = (posted[t] + 1)..Sent(t)
    BY DEF PipelineInv, NothingLostOrReordered
  <2>3. m.session = t => m.report = Sent(t) + 1
    BY <1>9
  <2>4. Sent(t)' = IF m.session = t THEN Sent(t) + 1 ELSE Sent(t)
    BY <1>8, <1>9
  <2>5. Pipeline \in Seq(Message)
    BY PipelineType DEF PipelineInv
  <2> HIDE DEF m
  <2>6. /\ InOrder(t, Append(Pipeline, m))
        /\ ReportsOf(t, Append(Pipeline, m)) =
              (posted[t] + 1)..(IF m.session = t THEN Sent(t) + 1 ELSE Sent(t))
    BY <1>3, <2>1, <2>2, <2>3, <2>5, AppendKeepsOrder
  <2> QED
    BY <1>2, <1>7, <2>1, <2>4, <2>6
<1> QED
  BY <1>4, <1>6, <1>10 DEF PipelineInv, PostedInv, NothingLostOrReordered, InOrder, ReportsOf, PlacesOf

\* A sequence is its head and its tail.
LEMMA HeadTailConcat ==
    ASSUME NEW seq \in Seq(Message), seq # <<>>
    PROVE  seq = <<Head(seq)>> \o Tail(seq)
<1>1. /\ Head(seq) \in Message /\ Head(seq) = seq[1] /\ Tail(seq) \in Seq(Message)
      /\ Len(seq) \in Nat /\ Len(seq) > 0
      /\ Len(Tail(seq)) = Len(seq) - 1
      /\ \A i \in 1..Len(Tail(seq)) : Tail(seq)[i] = seq[i + 1]
  BY HeadTailProperties, EmptySeq
<1> DEFINE new == <<Head(seq)>> \o Tail(seq)
<1>2. <<Head(seq)>> \in Seq(Message) /\ Len(<<Head(seq)>>) = 1 /\ <<Head(seq)>>[1] = Head(seq)
  BY <1>1
<1>3. /\ new \in Seq(Message)
      /\ Len(new) = 1 + Len(Tail(seq))
      /\ \A i \in 1..Len(new) : new[i] = IF i <= 1 THEN <<Head(seq)>>[i] ELSE Tail(seq)[i - 1]
  BY <1>1, <1>2, ConcatProperties
<1> HIDE DEF new
<1>4. ASSUME NEW i \in 1..Len(seq) PROVE seq[i] = new[i]
  <2>1. CASE i = 1
    BY <1>1, <1>2, <1>3, <2>1
  <2>2. CASE i # 1
    <3>1. i - 1 \in 1..Len(Tail(seq)) /\ i \in 1..Len(new)
      BY <1>1, <1>3, <2>2
    <3> QED
      BY <1>1, <1>3, <2>2, <3>1
  <2> QED
    BY <2>1, <2>2
<1>5. seq = new
  BY <1>1, <1>3, <1>4, SeqEqual
<1> QED
  BY <1>5 DEF new

LEMMA CopierStepPipeline ==
    ASSUME PipelineInv, CopierStep
    PROVE  PipelineInv'
<1> USE DEF handlerVars, copierVars, callerVars, groupVars, vars, CopierGoes
<1>0. /\ posting \in Seq(Message) /\ messages \in Seq(Message)
      /\ inHand \in Seq(Message) /\ channel \in Seq(Message)
  BY DEF PipelineInv, OwnTypes
<1>1. CASE CopierReceives
  <2>1. /\ channel # <<>> /\ copier = "select" /\ copier' = "appending"
        /\ inHand' = <<Head(channel)>> /\ channel' = Tail(channel)
        /\ UNCHANGED <<reported, toSend, posting, posted, messages, caller>>
    BY <1>1 DEF CopierReceives
  <2>2. inHand = <<>>
    BY <2>1 DEF PipelineInv, HandInv
  <2>3. /\ Head(channel) \in Message /\ Tail(channel) \in Seq(Message)
        /\ channel = <<Head(channel)>> \o Tail(channel)
    BY <1>0, <2>1, HeadTailProperties, HeadTailConcat
  <2>4. Pipeline' = Pipeline
    <3> DEFINE before == posting \o messages
    <3>1. before \in Seq(Message)
      BY <1>0, ConcatProperties
    <3>2. Pipeline' = before \o <<Head(channel)>> \o Tail(channel)
      BY <2>1 DEF Pipeline
    <3>3. Pipeline = before \o (<<Head(channel)>> \o Tail(channel))
      <4>1. before \o inHand = before
        BY <2>2, <3>1, ConcatEmptySeq
      <4> QED
        BY <2>3, <4>1 DEF Pipeline
    <3> HIDE DEF before
    <3>4. <<Head(channel)>> \in Seq(Message)
      BY <2>3
    <3> QED
      BY <2>3, <3>1, <3>2, <3>3, <3>4, ConcatAssociative
  <2>5. OwnTypes' /\ HandInv'
    BY <2>1, <2>3 DEF PipelineInv, OwnTypes, HandInv
  <2> QED
    BY <2>1, <2>4, <2>5, PassedOn
<1>2. CASE CopierAppends
  <2>1. /\ copier = "appending" /\ copier' = "signalling"
        /\ messages' = messages \o inHand /\ inHand' = <<>>
        /\ UNCHANGED <<reported, toSend, posting, posted, channel, caller>>
    BY <1>2 DEF CopierAppends, Appended
  <2>2. messages \o inHand \in Seq(Message) /\ (messages # <<>> => messages \o inHand # <<>>)
    <3>1. /\ messages \o inHand \in Seq(Message)
          /\ Len(messages \o inHand) = Len(messages) + Len(inHand)
      BY <1>0, ConcatProperties
    <3>2. Len(messages) \in Nat /\ Len(inHand) \in Nat
      BY <1>0, LenProperties
    <3>3. messages # <<>> => Len(messages) > 0
      BY <1>0, <3>2, EmptySeq
    <3> QED
      BY <3>1, <3>2, <3>3, EmptySeq
  <2>3. Pipeline' = Pipeline
    <3>1. Pipeline' = posting \o (messages \o inHand) \o <<>> \o channel
      BY <2>1 DEF Pipeline
    <3>2. posting \o (messages \o inHand) = posting \o messages \o inHand
      BY <1>0, ConcatAssociative
    <3>3. posting \o (messages \o inHand) \in Seq(Message)
      BY <1>0, <2>2, ConcatProperties
    <3>4. posting \o (messages \o inHand) \o <<>> = posting \o (messages \o inHand)
      BY <3>3, ConcatEmptySeq
    <3> QED
      BY <3>1, <3>2, <3>4 DEF Pipeline
  <2>4. OwnTypes' /\ HandInv'
    BY <2>1, <2>2 DEF PipelineInv, OwnTypes, HandInv
  <2> QED
    BY <2>1, <2>3, <2>4, PassedOn
<1>3. CASE CopierSignals \/ CopierStops
  <2>1. /\ copier' \in {"select", "stopped"}
        /\ caller' = IF caller = "asleep" THEN "woken" ELSE caller
        /\ copier \in {"signalling", "select"}
        /\ UNCHANGED <<reported, toSend, posting, posted, inHand, channel, messages>>
    BY <1>3 DEF CopierSignals, CopierStops, Signalled
  <2>2. OwnTypes' /\ HandInv'
    BY <2>1 DEF PipelineInv, OwnTypes, HandInv
  <2>3. Pipeline' = Pipeline
    BY <2>1 DEF Pipeline
  <2> QED
    BY <2>1, <2>2, <2>3, PassedOn
<1> QED
  BY <1>1, <1>2, <1>3 DEF CopierStep

LEMMA CallerPopsStep ==
    ASSUME PipelineInv, CallerPops
    PROVE  PipelineInv'
<1>1. /\ caller = "popping" /\ caller' = "posting"
      /\ posting' = <<Head(messages)>> /\ messages' = Tail(messages)
      /\ UNCHANGED <<reported, toSend, posted, channel, copier, inHand>>
  BY DEF CallerPops, CallerGoes, handlerVars, copierVars
<1>2. /\ messages # <<>> /\ posting = <<>>
      /\ messages \in Seq(Message) /\ inHand \in Seq(Message) /\ channel \in Seq(Message)
  BY <1>1 DEF PipelineInv, HandInv, OwnTypes
<1>3. /\ Head(messages) \in Message /\ Tail(messages) \in Seq(Message)
      /\ messages = <<Head(messages)>> \o Tail(messages)
  BY <1>2, HeadTailProperties, HeadTailConcat
<1>4. Pipeline' = Pipeline
  <2>1. posting \o messages = messages
    BY <1>2, ConcatEmptySeq
  <2>2. posting' \o messages' = messages
    BY <1>1, <1>3
  <2>3. Pipeline' = (posting' \o messages') \o inHand \o channel
    BY <1>1 DEF Pipeline
  <2> QED
    BY <2>1, <2>2, <2>3 DEF Pipeline
<1>5. Len(posting') = 1 /\ posting' \in Seq(Message)
  BY <1>1, <1>3
<1>6. OwnTypes' /\ HandInv'
  BY <1>1, <1>3, <1>5 DEF PipelineInv, OwnTypes, HandInv
<1> QED
  BY <1>1, <1>4, <1>6, PassedOn

LEMMA OneIsNotEmpty ==
    ASSUME NEW s, Len(s) = 1
    PROVE  s # <<>>
<1>1. Len(<<>>) = 0
  OBVIOUS
<1> QED
  BY <1>1

LEMMA CallerPostsStep ==
    ASSUME PipelineInv, CallerPosts
    PROVE  PipelineInv'
<1> DEFINE m == Head(posting)
           rest == messages \o inHand \o channel
<1>1. /\ caller = "posting" /\ caller' = "looking"
      /\ posted' = [posted EXCEPT ![m.session] = m.report]
      /\ posting' = <<>>
      /\ UNCHANGED <<reported, toSend, messages, channel, copier, inHand>>
  BY DEF CallerPosts, CallerGoes, handlerVars, copierVars
<1>2. /\ posting \in Seq(Message) /\ Len(posting) = 1
      /\ messages \in Seq(Message) /\ inHand \in Seq(Message) /\ channel \in Seq(Message)
  BY <1>1 DEF PipelineInv, HandInv, OwnTypes
<1>3. m \in Message /\ posting = <<m>>
  <2>1. posting # <<>>
    <3>1. Len(posting) = 1
      BY <1>2
    <3> QED
      BY <3>1, OneIsNotEmpty
  <2>2. m \in Message /\ m = posting[1]
    BY <1>2, <2>1, HeadTailProperties
  <2>3. <<m>> \in Seq(Message) /\ Len(<<m>>) = 1 /\ <<m>>[1] = m
    BY <2>2
  <2> HIDE DEF m
  <2>4. \A i \in 1..Len(posting) : posting[i] = <<m>>[i]
    BY <1>2, <2>2, <2>3
  <2>5. posting = <<m>>
    BY <1>2, <2>3, <2>4, SeqEqual
  <2> QED
    BY <2>2, <2>5
<1>4. rest \in Seq(Message)
  BY <1>2, ConcatProperties
<1>5. Pipeline = <<m>> \o rest
  <2>1. messages \o inHand \in Seq(Message)
    BY <1>2, ConcatProperties
  <2>2. <<m>> \o messages \o inHand = <<m>> \o (messages \o inHand)
    BY <1>2, <1>3, ConcatAssociative
  <2>3. <<m>> \o (messages \o inHand) \o channel = <<m>> \o rest
    BY <1>2, <1>3, <2>1, ConcatAssociative, SMTT(30)
  <2> QED
    BY <1>3, <2>2, <2>3 DEF Pipeline
<1> HIDE DEF m
<1>6. Pipeline' = rest
  <2>1. <<>> \o messages = messages
    BY <1>2, ConcatEmptySeq
  <2> QED
    BY <1>1, <2>1 DEF Pipeline
<1> HIDE DEF rest
<1>7. Pipeline \in Seq(Message) /\ Pipeline # <<>> /\ Head(Pipeline) = m /\ Tail(Pipeline) = rest
  <2>1. <<m>> \in Seq(Message) /\ Len(<<m>>) = 1
    BY <1>3
  <2>2. Pipeline \in Seq(Message) /\ Len(Pipeline) = 1 + Len(rest) /\ Len(rest) \in Nat
    BY <1>4, <1>5, <2>1, ConcatProperties, LenProperties
  <2> QED
    BY <1>3, <1>4, <1>5, <2>2
<1>8. \A s \in Session : Sent(s)' = Sent(s)
  BY <1>1 DEF Sent
<1>9. m.session \in Session /\ m.report \in Nat
  BY <1>3 DEF Message
<1>10. \A s \in Session : posted'[s] = IF s = m.session THEN m.report ELSE posted[s]
  BY <1>1, <1>9 DEF PipelineInv, OwnTypes
<1>11. ASSUME NEW s \in Session
       PROVE  /\ posted'[s] <= Sent(s)'
              /\ InOrder(s, Pipeline')
              /\ ReportsOf(s, Pipeline') = (posted'[s] + 1)..(Sent(s)')
  <2>1. posted[s] \in Nat /\ Sent(s) \in Nat /\ posted[s] <= Sent(s)
    BY SentIsNatural DEF PipelineInv, OwnTypes, PostedInv
  <2>2. InOrder(s, Pipeline) /\ ReportsOf(s, Pipeline) = (posted[s] + 1)..Sent(s)
    BY DEF PipelineInv, NothingLostOrReordered
  <2>3. /\ InOrder(s, rest)
        /\ m.session = s => posted[s] < Sent(s) /\ m.report = posted[s] + 1
        /\ ReportsOf(s, rest) = ((IF m.session = s THEN posted[s] + 1 ELSE posted[s]) + 1)..Sent(s)
    <3>1. /\ InOrder(s, Tail(Pipeline))
          /\ Head(Pipeline).session = s => posted[s] < Sent(s) /\ Head(Pipeline).report = posted[s] + 1
          /\ ReportsOf(s, Tail(Pipeline)) =
                ((IF Head(Pipeline).session = s THEN posted[s] + 1 ELSE posted[s]) + 1)..Sent(s)
      BY <1>7, <2>1, <2>2, TailKeepsOrder
    <3> QED
      BY <1>7, <3>1
  <2> QED
    BY <1>6, <1>8, <1>10, <2>1, <2>3
<1>12. OwnTypes'
  <2>1. posted' \in [Session -> Nat]
    BY <1>1, <1>9 DEF PipelineInv, OwnTypes
  <2> QED
    BY <1>1, <2>1 DEF PipelineInv, OwnTypes
<1>13. HandInv'
  BY <1>1 DEF PipelineInv, HandInv
<1> QED
  BY <1>11, <1>12, <1>13 DEF PipelineInv, PostedInv, NothingLostOrReordered, InOrder, ReportsOf, PlacesOf

LEMMA CallerStepPipeline ==
    ASSUME PipelineInv, CallerStep
    PROVE  PipelineInv'
<1> USE DEF handlerVars, copierVars, callerVars, groupVars, vars, CallerGoes
<1>1. ASSUME NEW from, NEW to, caller = from, caller' = to,
             from \notin {"posting"},
             to \in {"looking", "locking", "testing", "gap", "asleep", "stopped", "left",
                    "select", "popping"},
             to \in {"select", "popping"} => messages # <<>>,
             UNCHANGED <<reported, toSend, channel, copier, inHand, messages, posting, posted>>
      PROVE  PipelineInv'
  <2>1. OwnTypes' /\ HandInv'
    BY <1>1 DEF PipelineInv, OwnTypes, HandInv
  <2>2. Pipeline' = Pipeline
    BY <1>1 DEF Pipeline
  <2> QED
    BY <1>1, <2>1, <2>2, PassedOn
<1>2. CASE CallerLooks
  <2>1. /\ caller = "looking"
        /\ caller' = IF messages = <<>> THEN "locking" ELSE "select"
        /\ UNCHANGED <<reported, toSend, channel, copier, inHand, messages, posting, posted>>
    BY <1>2 DEF CallerLooks, CallerMoves
  <2> QED
    BY <1>1, <2>1
<1>3. CASE CallerSelects
  <2>1. /\ caller = "select" /\ caller' = "popping"
        /\ UNCHANGED <<reported, toSend, channel, copier, inHand, messages, posting, posted>>
    BY <1>3 DEF CallerSelects, CallerMoves
  <2>2. messages # <<>>
    BY <2>1 DEF PipelineInv, HandInv
  <2> QED
    BY <1>1, <2>1, <2>2
<1>4. CASE CallerStops \/ CallerLocks \/ CallerTests \/ CallerSleeps
  <2>1. /\ caller # "posting"
        /\ caller' \in {"looking", "testing", "gap", "asleep", "stopped", "left"}
        /\ UNCHANGED <<reported, toSend, channel, copier, inHand, messages, posting, posted>>
    BY <1>4 DEF CallerStops, CallerLocks, CallerTests, CallerSleeps, CallerMoves
  <2> QED
    BY <1>1, <2>1
<1> QED
  BY <1>2, <1>3, <1>4, CallerPopsStep, CallerPostsStep DEF CallerStep

LEMMA PipelineStep ==
    ASSUME PipelineInv, [WebhookNext]_webhookVars
    PROVE  PipelineInv'
<1>1. CASE UNCHANGED webhookVars
  BY <1>1, GroupStepPipeline DEF webhookVars, pipelineVars
<1>2. CASE GroupStep \/ ControllerStops
  <2>1. ProcessGoes
    BY <1>2 DEF GroupStep, ControllerStops, FrontendReturns, ControllerWaits, FrontendStarts, TaskEnds
  <2> QED
    BY <2>1, GroupStepPipeline DEF ProcessGoes, pipelineVars
<1> QED
  BY <1>1, <1>2, HandlerSendsStep, ReportStoredStep, CopierStepPipeline, CallerStepPipeline
     DEF WebhookNext

LEMMA PipelineInit == WebhookInit => PipelineInv
<1> SUFFICES ASSUME WebhookInit PROVE PipelineInv
  OBVIOUS
<1>1. OwnTypes /\ HandInv
  BY DEF WebhookInit, OwnTypes, HandInv
<1>2. Pipeline = <<>>
  BY DEF WebhookInit, Pipeline
<1>3. \A s \in Session : Sent(s) = 0 /\ posted[s] = 0
  BY WebhookAssumption DEF WebhookInit, Sent
<1>4. \A s \in Session : PlacesOf(s, <<>>) = {}
  BY DEF PlacesOf
<1> QED
  BY <1>1, <1>2, <1>3, <1>4 DEF PipelineInv, PostedInv, NothingLostOrReordered, InOrder, ReportsOf

\* The history variable of the gap is a truth value.
MissedType == missed \in BOOLEAN

LEMMA MissedStep ==
    ASSUME MissedType, [WebhookNext]_webhookVars
    PROVE  MissedType'
<1> USE DEF MissedType
<1>1. CASE UNCHANGED missed
  BY <1>1, Zenon
<1>2. CASE CopierStops
  <2>1. missed' = (caller = "gap")
    BY <1>2 DEF CopierStops
  <2> QED
    BY <2>1, Zenon
<1>3. CASE CallerStep
  <2>1. UNCHANGED missed
    BY <1>3 DEF CallerStep, CallerLooks, CallerSelects, CallerStops, CallerPops, CallerPosts,
                CallerLocks, CallerTests, CallerSleeps, CallerMoves, CallerGoes
  <2> QED
    BY <1>1, <2>1
<1>4. CASE GroupStep \/ ControllerStops
  <2>1. UNCHANGED missed
    BY <1>4 DEF GroupStep, ControllerStops, FrontendReturns, ControllerWaits, FrontendStarts,
                TaskEnds, ProcessGoes
  <2> QED
    BY <1>1, <2>1
<1>5. ASSUME NEW a \in Agent, NEW S \in SUBSET Session, HandlerSends(a) \/ ReportStored(a, S)
      PROVE  UNCHANGED missed
  BY <1>5 DEF HandlerSends, ReportStored
<1>6. CASE CopierReceives \/ CopierAppends \/ CopierSignals
  <2>1. UNCHANGED missed
    BY <1>6 DEF CopierReceives, CopierAppends, CopierSignals
  <2> QED
    BY <1>1, <2>1
<1>7. CASE UNCHANGED webhookVars
  BY <1>1, <1>7 DEF webhookVars
<1> QED
  BY <1>1, <1>2, <1>3, <1>4, <1>5, <1>6, <1>7 DEF WebhookNext, CopierStep

\* The variables of the webhook, and those of its group, keep their types: in
\* particular Calling never pops from an empty slice.
THEOREM WebhookTypeCorrect == WebhookSpec => []WebhookTypeOK
<1>1. PipelineInv /\ MissedType /\ TypeOK => WebhookTypeOK
  BY Zenon DEF MissedType, PipelineInv, OwnTypes, WebhookTypeOK
<1>2. WebhookInit => MissedType
  BY Zenon DEF MissedType, WebhookInit
<1> QED
  BY <1>1, <1>2, PipelineInit, PipelineStep, MissedStep, ImplementsTaskManager, TypeCorrect, PTL
     DEF WebhookSpec

\* Every report goes through the channel and the slice once and in order
\* (frontend.go, webhook.go), for any number of agents and sessions, any depth
\* of the channel and any number of reports.
THEOREM NothingLostOrReorderedHolds == WebhookSpec => []NothingLostOrReordered
<1>1. PipelineInv => NothingLostOrReordered
  BY DEF PipelineInv
<1> QED
  BY <1>1, PipelineInit, PipelineStep, PTL DEF WebhookSpec

----------------------------------------------------------------------------
(* Pools and permissions.                                                  *)

\* What createPoolEp has left to add, at each of its three statements.
Todos == {<<"admin", "create_session", "register_agent">>,
          <<"create_session", "register_agent">>,
          <<"register_agent">>}

Requests ==
    [at : {"idle"}]
        \cup [at : {"claims", "answering"}, user : User, pool : Pool]
        \cup [at : {"adding"}, user : User, pool : Pool, todo : Todos]

CatalogTypes ==
    /\ pools \in [Pool -> {"none", "live", "deleted"}]
    /\ permissions \in [Pool \X User \X Types -> [live : Nat, deleted : Nat]]
    /\ creating \in [Client -> Requests]
    /\ answered \subseteq Pool \X User

\* A permission is on a pool whose row is there, and so is a request's pool.
RowsInv ==
    /\ \A p \in Pool, u \in User, t \in Types :
          permissions[<<p, u, t>>].live > 0 => pools[p] # "none"
    /\ \A c \in Client : creating[c].at # "idle" => pools[creating[c].pool] # "none"

Holds(p, u, t) == permissions[<<p, u, t>>].live > 0

\* A request has added a permission before it goes on to the next.
HasAdded(request, t) ==
    \/ request.at = "adding" /\ t \notin ToSet(request.todo)
    \/ request.at = "answering"

\* What a request has added its user holds, unless it was taken away.
AddedInv ==
    \A c \in Client, t \in Permissions :
        HasAdded(creating[c], t) =>
            \/ <<creating[c].pool, creating[c].user>> \in removed
            \/ Holds(creating[c].pool, creating[c].user, t)

CatalogInv == CatalogTypes /\ RowsInv /\ AddedInv /\ CreatorHoldsAll

LEMMA CatalogStarts == CatalogInit => CatalogInv
<1> SUFFICES ASSUME CatalogInit PROVE CatalogInv
  OBVIOUS
<1> USE DEF CatalogInit
<1>1. CatalogTypes
  BY DEF CatalogTypes, Requests
<1>2. RowsInv
  BY DEF RowsInv, Types, Permissions
<1>3. AddedInv
  BY DEF AddedInv, HasAdded
<1>4. CreatorHoldsAll
  BY DEF CreatorHoldsAll
<1> QED
  BY <1>1, <1>2, <1>3, <1>4 DEF CatalogInv

\* What a request has left to add is one of three lists, each the tail of the
\* one before.
LEMMA TodoFacts ==
    ASSUME NEW todo \in Todos
    PROVE  /\ todo # <<>>
           /\ Head(todo) \in Permissions
           /\ Len(todo) = 1 => ToSet(todo) = {Head(todo)}
           /\ Len(todo) # 1 => Tail(todo) \in Todos /\ ToSet(todo) = {Head(todo)} \cup ToSet(Tail(todo))
<1>1. CASE todo = <<"admin", "create_session", "register_agent">>
  <2>1. Tail(todo) = <<"create_session", "register_agent">>
    BY <1>1
  <2> QED
    BY <1>1, <2>1 DEF Todos, Permissions, ToSet
<1>2. CASE todo = <<"create_session", "register_agent">>
  <2>1. Tail(todo) = <<"register_agent">>
    BY <1>2
  <2> QED
    BY <1>2, <2>1 DEF Todos, Permissions, ToSet
<1>3. CASE todo = <<"register_agent">>
  BY <1>3 DEF Todos, Permissions, ToSet
<1> QED
  BY <1>1, <1>2, <1>3 DEF Todos
----------------------------------------------------------------------------
(* One permission added, or all of a user's removed.                       *)

LEMMA AddGives ==
    ASSUME CatalogTypes, NEW p \in Pool, NEW u \in User, NEW name \in Names, AddPermission(p, u, name)
    PROVE  /\ permissions' \in [Pool \X User \X Types -> [live : Nat, deleted : Nat]]
           /\ \A q \in Pool, v \in User, t \in Types :
                 /\ Holds(q, v, t) => Holds(q, v, t)'
                 /\ Holds(q, v, t)' => Holds(q, v, t) \/ (q = p /\ v = u)
           /\ name \in Permissions => Holds(p, u, name)'
<1> DEFINE row == <<p, u, PermissionTypeFromString(name)>>
<1>1. row \in Pool \X User \X Types
  BY DEF Types, PermissionTypeFromString
<1>2. permissions' = [permissions EXCEPT ![row] = [live |-> permissions[row].live + 1,
                                                   deleted |-> permissions[row].deleted]]
  <2>1. permissions' = [permissions EXCEPT ![row].live = permissions[row].live + 1]
    BY DEF AddPermission
  <2>2. permissions[row] \in [live : Nat, deleted : Nat]
    BY <1>1 DEF CatalogTypes
  <2>3. [permissions[row] EXCEPT !.live = permissions[row].live + 1]
            = [live |-> permissions[row].live + 1, deleted |-> permissions[row].deleted]
    BY <2>2
  <2> QED
    BY <2>1, <2>3
<1>3. permissions' \in [Pool \X User \X Types -> [live : Nat, deleted : Nat]]
  BY <1>1, <1>2 DEF CatalogTypes
<1>4. /\ permissions'[row].live = permissions[row].live + 1
      /\ \A r \in Pool \X User \X Types : r # row => permissions'[r] = permissions[r]
  BY <1>1, <1>2 DEF CatalogTypes
<1>5. ASSUME NEW q \in Pool, NEW v \in User, NEW t \in Types
      PROVE  /\ Holds(q, v, t) => Holds(q, v, t)'
             /\ Holds(q, v, t)' => Holds(q, v, t) \/ (q = p /\ v = u)
  <2>1. CASE <<q, v, t>> = row
    BY <1>1, <1>4, <2>1 DEF CatalogTypes, Holds
  <2>2. CASE <<q, v, t>> # row
    BY <1>4, <2>2 DEF Holds
  <2> QED
    BY <2>1, <2>2
<1>6. name \in Permissions => Holds(p, u, name)'
  BY <1>1, <1>4 DEF CatalogTypes, PermissionTypeFromString, Holds
<1> QED
  BY <1>3, <1>5, <1>6

LEMMA RemoveTakes ==
    ASSUME CatalogTypes, NEW p \in Pool, NEW u \in User, RemovePermission(p, u)
    PROVE  /\ permissions' \in [Pool \X User \X Types -> [live : Nat, deleted : Nat]]
           /\ \A q \in Pool, v \in User, t \in Types :
                 Holds(q, v, t)' <=> Holds(q, v, t) /\ <<q, v>> # <<p, u>>
<1>1. \A r \in Pool \X User \X Types : RowsOf(r) \in Nat
  BY DEF RowsOf, CatalogTypes
<1>2. DOMAIN permissions = Pool \X User \X Types
  BY DEF CatalogTypes
<1>3. permissions' \in [Pool \X User \X Types -> [live : Nat, deleted : Nat]]
  BY <1>1, <1>2 DEF RemovePermission, CatalogTypes
<1>4. ASSUME NEW q \in Pool, NEW v \in User, NEW t \in Types
      PROVE  Holds(q, v, t)' <=> Holds(q, v, t) /\ <<q, v>> # <<p, u>>
  <2> DEFINE r == <<q, v, t>>
  <2>1. r \in DOMAIN permissions /\ r[1] = q /\ r[2] = v
    BY <1>2
  <2>2. permissions'[r] = IF r[1] = p /\ r[2] = u THEN [live |-> 0, deleted |-> RowsOf(r)] ELSE permissions[r]
    BY <2>1 DEF RemovePermission
  <2>3. CASE q = p /\ v = u
    <3>1. permissions'[r].live = 0
      BY <2>1, <2>2, <2>3
    <3> QED
      BY <3>1, <2>3 DEF Holds
  <2>4. CASE ~(q = p /\ v = u)
    <3>1. permissions'[r] = permissions[r]
      BY <2>1, <2>2, <2>4
    <3> QED
      BY <3>1, <2>4 DEF Holds
  <2> QED
    BY <2>3, <2>4
<1> QED
  BY <1>3, <1>4

----------------------------------------------------------------------------
(* What a step keeps of the invariant.                                     *)

\* What permissions a step that removes none keeps.
Kept == \A q \in Pool, v \in User, t \in Types : Holds(q, v, t) => Holds(q, v, t)'

\* As long as permissions are only added, and the requests that go on have
\* added what their place in the handler says.
LEMMA RequestMoves ==
    ASSUME CatalogInv, Kept, removed' = removed, answered' = answered,
           NEW c \in Client, NEW request \in Requests,
           creating' = [creating EXCEPT ![c] = request],
           \A t \in Permissions : HasAdded(request, t) =>
               <<request.pool, request.user>> \in removed \/ Holds(request.pool, request.user, t)'
    PROVE  creating' \in [Client -> Requests] /\ AddedInv' /\ CreatorHoldsAll'
<1> USE DEF CatalogInv, CatalogTypes
<1>1. creating' \in [Client -> Requests]
  OBVIOUS
<1>2. creating'[c] = request /\ \A d \in Client : d # c => creating'[d] = creating[d]
  OBVIOUS
<1>3. AddedInv'
  <2> SUFFICES ASSUME NEW d \in Client, NEW t \in Permissions, HasAdded(creating'[d], t),
                      <<creating'[d].pool, creating'[d].user>> \notin removed
               PROVE  Holds(creating[d].pool, creating[d].user, t)'
    BY DEF AddedInv, HasAdded
  <2>1. CASE d = c
    BY <1>2, <2>1
  <2>2. CASE d # c
    <3>1. creating'[d] = creating[d]
      BY <1>2, <2>2
    <3>2. creating[d].at \in {"adding", "answering"}
      BY <3>1 DEF HasAdded
    <3>3. creating[d].pool \in Pool /\ creating[d].user \in User /\ t \in Types
      BY <3>2 DEF Requests, Types
    <3>4. Holds(creating[d].pool, creating[d].user, t)
      BY <3>1 DEF AddedInv
    <3> QED
      BY <3>1, <3>3, <3>4 DEF Kept, Holds
  <2> QED
    BY <2>1, <2>2
<1>4. CreatorHoldsAll'
  <2> SUFFICES ASSUME NEW creation \in answered \ removed, NEW t \in Permissions
               PROVE  Holds(creation[1], creation[2], t)'
    BY DEF CreatorHoldsAll, Holds
  <2>1. creation[1] \in Pool /\ creation[2] \in User /\ t \in Types
    BY DEF Types
  <2>2. Holds(creation[1], creation[2], t)
    BY DEF CreatorHoldsAll, Holds
  <2> QED
    BY <2>1, <2>2 DEF Kept
<1> QED
  BY <1>1, <1>3, <1>4
----------------------------------------------------------------------------
(* One lemma per action.                                                   *)

\* A permission taken from its user, with the note that it was.
LEMMA RemovalKeepsPromises ==
    ASSUME CatalogInv, NEW p \in Pool, NEW u \in User, DeletePermissionEp(p, u)
    PROVE  CatalogInv'
<1> USE DEF CatalogInv, DeletePermissionEp
<1>1. /\ permissions' \in [Pool \X User \X Types -> [live : Nat, deleted : Nat]]
      /\ \A q \in Pool, v \in User, t \in Types : Holds(q, v, t)' <=> Holds(q, v, t) /\ <<q, v>> # <<p, u>>
  BY RemoveTakes
<1>2. CatalogTypes'
  BY <1>1 DEF CatalogTypes
<1>3. RowsInv'
  BY <1>1 DEF RowsInv, Holds
<1>4. AddedInv'
  <2> SUFFICES ASSUME NEW c \in Client, NEW t \in Permissions, HasAdded(creating[c], t),
                      <<creating[c].pool, creating[c].user>> \notin removed'
               PROVE  Holds(creating[c].pool, creating[c].user, t)'
    BY DEF AddedInv, HasAdded
  <2>1. creating[c].pool \in Pool /\ creating[c].user \in User /\ t \in Types
    BY DEF CatalogTypes, Requests, Types, HasAdded
  <2>2. Holds(creating[c].pool, creating[c].user, t) /\ <<creating[c].pool, creating[c].user>> # <<p, u>>
    BY DEF AddedInv
  <2> QED
    BY <1>1, <2>1, <2>2 DEF Holds
<1>5. CreatorHoldsAll'
  <2> SUFFICES ASSUME NEW creation \in answered \ removed', NEW t \in Permissions
               PROVE  Holds(creation[1], creation[2], t)'
    BY DEF CreatorHoldsAll, Holds
  <2>1. creation = <<creation[1], creation[2]>> /\ creation[1] \in Pool /\ creation[2] \in User /\ t \in Types
    BY DEF CatalogTypes, Types
  <2>2. Holds(creation[1], creation[2], t) /\ creation # <<p, u>>
    BY DEF CreatorHoldsAll, Holds
  <2> QED
    BY <1>1, <2>1, <2>2
<1> QED
  BY <1>2, <1>3, <1>4, <1>5

LEMMA AdditionKeepsPromises ==
    ASSUME CatalogInv, NEW p \in Pool, NEW u \in User, NEW name \in Names, AddPermissionEp(p, u, name)
    PROVE  CatalogInv'
<1> USE DEF CatalogInv, AddPermissionEp
<1>1. /\ permissions' \in [Pool \X User \X Types -> [live : Nat, deleted : Nat]]
      /\ \A q \in Pool, v \in User, t \in Types :
            /\ Holds(q, v, t) => Holds(q, v, t)'
            /\ Holds(q, v, t)' => Holds(q, v, t) \/ (q = p /\ v = u)
  BY AddGives
<1>2. CatalogTypes'
  BY <1>1 DEF CatalogTypes
<1>3. RowsInv'
  BY <1>1 DEF RowsInv, Holds
<1>4. AddedInv'
  <2> SUFFICES ASSUME NEW c \in Client, NEW t \in Permissions, HasAdded(creating[c], t),
                      <<creating[c].pool, creating[c].user>> \notin removed
               PROVE  Holds(creating[c].pool, creating[c].user, t)'
    BY DEF AddedInv, HasAdded
  <2>1. creating[c].pool \in Pool /\ creating[c].user \in User /\ t \in Types
    BY DEF CatalogTypes, Requests, Types, HasAdded
  <2>2. Holds(creating[c].pool, creating[c].user, t)
    BY DEF AddedInv
  <2> QED
    BY <1>1, <2>1, <2>2 DEF Holds
<1>5. CreatorHoldsAll'
  <2> SUFFICES ASSUME NEW creation \in answered \ removed, NEW t \in Permissions
               PROVE  Holds(creation[1], creation[2], t)'
    BY DEF CreatorHoldsAll, Holds
  <2>1. creation[1] \in Pool /\ creation[2] \in User /\ t \in Types
    BY DEF CatalogTypes, Types
  <2>2. Holds(creation[1], creation[2], t)
    BY DEF CreatorHoldsAll, Holds
  <2> QED
    BY <1>1, <2>1, <2>2
<1> QED
  BY <1>2, <1>3, <1>4, <1>5

\* A request at a place where it has added nothing yet.
LEMMA RequestLeavesPermissions ==
    ASSUME CatalogInv, permissions' = permissions, removed' = removed, answered' = answered,
           pools' \in [Pool -> {"none", "live", "deleted"}],
           \A p \in Pool : pools[p] # "none" => pools'[p] # "none",
           NEW c \in Client, NEW request \in Requests, creating' = [creating EXCEPT ![c] = request],
           request.at # "idle" => pools'[request.pool] # "none",
           \A t \in Permissions : HasAdded(request, t) =>
               <<request.pool, request.user>> \in removed \/ Holds(request.pool, request.user, t)
    PROVE  CatalogInv'
<1> USE DEF CatalogInv
<1>1. Kept
  BY DEF Kept, Holds
<1>2. \A t \in Permissions : HasAdded(request, t) =>
          <<request.pool, request.user>> \in removed \/ Holds(request.pool, request.user, t)'
  BY DEF Holds
<1>3. creating' \in [Client -> Requests] /\ AddedInv' /\ CreatorHoldsAll'
  BY <1>1, <1>2, RequestMoves
<1>4. CatalogTypes'
  BY <1>3 DEF CatalogTypes
<1>5. RowsInv'
  <2>1. \A d \in Client : creating'[d] = IF d = c THEN request ELSE creating[d]
    BY DEF CatalogTypes
  <2>2. \A d \in Client : creating[d].at # "idle" => creating[d].pool \in Pool
    BY DEF CatalogTypes, Requests
  <2> QED
    BY <2>1, <2>2 DEF RowsInv
<1> QED
  BY <1>3, <1>4, <1>5

LEMMA CreateBeginsKeeps ==
    ASSUME CatalogInv, NEW c \in Client, NEW u \in User, NEW p \in Pool, CreateBegins(c, u, p)
    PROVE  CatalogInv'
<1> DEFINE request == [at |-> "claims", user |-> u, pool |-> p]
<1>1. request \in Requests
  BY DEF Requests
<1>2. /\ pools' \in [Pool -> {"none", "live", "deleted"}]
      /\ \A q \in Pool : pools[q] # "none" => pools'[q] # "none"
      /\ pools'[request.pool] # "none"
  BY DEF CreateBegins, CreatePool, CatalogInv, CatalogTypes
<1>3. \A t \in Permissions : ~HasAdded(request, t)
  BY DEF HasAdded
<1> QED
  BY <1>1, <1>2, <1>3, RequestLeavesPermissions DEF CreateBegins

\* A request that ends, whether with an error or a panic.
LEMMA RequestStops ==
    ASSUME CatalogInv, NEW c \in Client, creating' = [creating EXCEPT ![c] = [at |-> "idle"]],
           UNCHANGED <<pools, permissions, answered, removed>>
    PROVE  CatalogInv'
<1>1. [at |-> "idle"] \in Requests
  BY DEF Requests
<1>2. \A t \in Permissions : ~HasAdded([at |-> "idle"], t)
  BY DEF HasAdded
<1>3. pools \in [Pool -> {"none", "live", "deleted"}]
  BY DEF CatalogInv, CatalogTypes
<1> QED
  BY <1>1, <1>2, <1>3, RequestLeavesPermissions

LEMMA CreateFindsUserKeeps ==
    ASSUME CatalogInv, NEW c \in Client, CreateFindsUser(c)
    PROVE  CatalogInv'
<1> DEFINE todo == <<"admin", "create_session", "register_agent">>
           request == [at |-> "adding", user |-> creating[c].user, pool |-> creating[c].pool, todo |-> todo]
<1>1. creating[c].pool \in Pool /\ creating[c].user \in User /\ pools[creating[c].pool] # "none"
  BY DEF CreateFindsUser, CatalogInv, CatalogTypes, RowsInv, Requests
<1>2. request \in Requests
  BY <1>1 DEF Requests, Todos
<1>3. \A t \in Permissions : ~HasAdded(request, t)
  <2>1. ToSet(todo) = Permissions
    BY DEF ToSet, Permissions
  <2> QED
    BY <2>1 DEF HasAdded
<1>4. creating' = [creating EXCEPT ![c] = request]
  BY DEF CreateFindsUser
<1>5. pools \in [Pool -> {"none", "live", "deleted"}]
  BY DEF CatalogInv, CatalogTypes
<1> QED
  BY <1>1, <1>2, <1>3, <1>4, <1>5, RequestLeavesPermissions DEF CreateFindsUser
\* What a request is after its next permission.
LEMMA AfterAddingFacts ==
    ASSUME NEW p \in Pool, NEW u \in User, NEW todo \in Todos, NEW request,
           request = AfterAdding([at |-> "adding", user |-> u, pool |-> p, todo |-> todo])
    PROVE  /\ request \in Requests
           /\ request.at # "idle" /\ request.pool = p /\ request.user = u
           /\ \A t \in Permissions : HasAdded(request, t) => t \notin ToSet(todo) \/ t = Head(todo)
<1>1. CASE Len(todo) = 1
  <2>1. request = [at |-> "answering", user |-> u, pool |-> p]
    BY <1>1 DEF AfterAdding
  <2>2. ToSet(todo) = {Head(todo)}
    BY <1>1, TodoFacts
  <2> QED
    BY <2>1, <2>2 DEF Requests
<1>2. CASE Len(todo) # 1
  <2>1. PICK rest : rest = Tail(todo)
    OBVIOUS
  <2>2. request = [at |-> "adding", user |-> u, pool |-> p, todo |-> rest]
    BY <1>2, <2>1 DEF AfterAdding
  <2>3. rest \in Todos /\ ToSet(todo) = {Head(todo)} \cup ToSet(rest)
    BY <1>2, <2>1, TodoFacts
  <2>4. request \in Requests
    BY ONLY <2>2, <2>3, p \in Pool, u \in User DEF Requests
  <2>5. request.at = "adding" /\ request.todo = rest /\ request.pool = p /\ request.user = u
    BY <2>2
  <2> QED
    BY <2>3, <2>4, <2>5 DEF HasAdded
<1> QED
  BY <1>1, <1>2

LEMMA CreateAddsOneKeeps ==
    ASSUME CatalogInv, NEW c \in Client, CreateAddsOne(c)
    PROVE  CatalogInv'
<1> USE DEF CatalogInv
<1>1. PICK p \in Pool, u \in User, todo \in Todos :
          creating[c] = [at |-> "adding", user |-> u, pool |-> p, todo |-> todo]
  BY DEF CreateAddsOne, CatalogTypes, Requests
<1>2. PICK request : request = AfterAdding([at |-> "adding", user |-> u, pool |-> p, todo |-> todo])
  OBVIOUS
<1>3. /\ AddPermission(p, u, Head(todo))
      /\ creating' = [creating EXCEPT ![c] = request]
      /\ UNCHANGED <<pools, answered, removed>>
  BY <1>1, <1>2 DEF CreateAddsOne
<1>4. Head(todo) \in Permissions /\ Head(todo) \in Names
  BY TodoFacts DEF Names
<1>5. /\ permissions' \in [Pool \X User \X Types -> [live : Nat, deleted : Nat]]
      /\ \A q \in Pool, v \in User, t \in Types :
            /\ Holds(q, v, t) => Holds(q, v, t)'
            /\ Holds(q, v, t)' => Holds(q, v, t) \/ (q = p /\ v = u)
      /\ Holds(p, u, Head(todo))'
  BY <1>3, <1>4, AddGives
<1>6. Kept
  BY <1>5 DEF Kept
<1>7. /\ request \in Requests
      /\ request.at # "idle" /\ request.pool = p /\ request.user = u
      /\ \A t \in Permissions : HasAdded(request, t) => t \notin ToSet(todo) \/ t = Head(todo)
  BY <1>2, AfterAddingFacts
<1>8. \A t \in Permissions : HasAdded(request, t) =>
          <<request.pool, request.user>> \in removed \/ Holds(request.pool, request.user, t)'
  <2> SUFFICES ASSUME NEW t \in Permissions, HasAdded(request, t), <<p, u>> \notin removed
               PROVE  Holds(p, u, t)'
    BY <1>7
  <2>1. CASE t \notin ToSet(todo)
    <3>1. HasAdded(creating[c], t)
      BY <1>1, <2>1 DEF HasAdded
    <3>2. Holds(p, u, t)
      BY <1>1, <3>1 DEF AddedInv
    <3> QED
      BY <1>5, <3>2 DEF Types
  <2>2. CASE t = Head(todo)
    BY <1>5, <2>2
  <2> QED
    BY <1>7, <2>1, <2>2
<1>9. creating' \in [Client -> Requests] /\ AddedInv' /\ CreatorHoldsAll'
  BY <1>3, <1>6, <1>7, <1>8, RequestMoves
<1>10. CatalogTypes'
  BY <1>3, <1>5, <1>9 DEF CatalogTypes
<1>11. RowsInv'
  <2>1. \A d \in Client : creating'[d] = IF d = c THEN request ELSE creating[d]
    BY <1>3 DEF CatalogTypes
  <2>2. pools[p] # "none"
    BY <1>1 DEF RowsInv
  <2> QED
    BY <1>3, <1>5, <1>7, <2>1, <2>2 DEF RowsInv, Holds
<1> QED
  BY <1>9, <1>10, <1>11
LEMMA CreateAnswersKeeps ==
    ASSUME CatalogInv, NEW c \in Client, CreateAnswers(c)
    PROVE  CatalogInv'
<1> USE DEF CatalogInv
<1>1. PICK p \in Pool, u \in User : creating[c] = [at |-> "answering", user |-> u, pool |-> p]
  BY DEF CreateAnswers, CatalogTypes, Requests
<1>2. /\ answered' = answered \cup {<<p, u>>}
      /\ creating' = [creating EXCEPT ![c] = [at |-> "idle"]]
      /\ UNCHANGED <<pools, permissions, removed>>
  BY <1>1 DEF CreateAnswers
<1>3. \A d \in Client : creating'[d] = IF d = c THEN [at |-> "idle"] ELSE creating[d]
  BY <1>2 DEF CatalogTypes
<1>4. CatalogTypes'
  BY <1>2 DEF CatalogTypes, Requests
<1>5. RowsInv'
  BY <1>2, <1>3 DEF RowsInv
<1>6. AddedInv'
  BY <1>2, <1>3 DEF AddedInv, HasAdded, Holds
<1>7. CreatorHoldsAll'
  <2>1. ASSUME NEW t \in Permissions PROVE <<p, u>> \in removed \/ Holds(p, u, t)
    <3>1. HasAdded(creating[c], t)
      BY <1>1 DEF HasAdded
    <3> QED
      BY <1>1, <3>1 DEF AddedInv
  <2> SUFFICES ASSUME NEW creation \in answered' \ removed, NEW t \in Permissions
               PROVE  permissions'[<<creation[1], creation[2], t>>].live > 0
    BY <1>2 DEF CreatorHoldsAll
  <2>2. CASE creation = <<p, u>>
    BY <1>2, <2>1, <2>2 DEF Holds
  <2>3. CASE creation \in answered
    BY <1>2, <2>3 DEF CreatorHoldsAll
  <2> QED
    BY <1>2, <2>2, <2>3
<1> QED
  BY <1>4, <1>5, <1>6, <1>7

\* A restart forgets the requests; a pool deleted, its row stays.
LEMMA OthersKeep ==
    ASSUME CatalogInv, FrontendRestarts \/ (\E p \in Pool : DeletePoolEp(p)) \/ UNCHANGED catalogVars
    PROVE  CatalogInv'
<1> USE DEF CatalogInv
<1>1. CASE FrontendRestarts
  <2>1. CatalogTypes'
    BY <1>1 DEF FrontendRestarts, CatalogTypes, Requests
  <2>2. RowsInv' /\ AddedInv' /\ CreatorHoldsAll'
    BY <1>1 DEF FrontendRestarts, RowsInv, AddedInv, HasAdded, CreatorHoldsAll
  <2> QED
    BY <2>1, <2>2
<1>2. ASSUME NEW p \in Pool, DeletePoolEp(p) PROVE CatalogInv'
  <2>1. CatalogTypes'
    BY <1>2 DEF DeletePoolEp, CatalogTypes
  <2>2. RowsInv'
    <3>1. \A q \in Pool : pools[q] # "none" => pools'[q] # "none"
      BY <1>2 DEF DeletePoolEp, CatalogTypes
    <3>2. \A d \in Client : creating[d].at # "idle" => creating[d].pool \in Pool
      BY DEF CatalogTypes, Requests
    <3> QED
      BY <1>2, <3>1, <3>2 DEF DeletePoolEp, RowsInv
  <2>3. AddedInv' /\ CreatorHoldsAll'
    BY <1>2 DEF DeletePoolEp, AddedInv, HasAdded, Holds, CreatorHoldsAll
  <2> QED
    BY <2>1, <2>2, <2>3
<1>3. CASE UNCHANGED catalogVars
  BY <1>3 DEF catalogVars, CatalogTypes, RowsInv, AddedInv, HasAdded, Holds, CreatorHoldsAll
<1> QED
  BY <1>1, <1>2, <1>3

LEMMA CatalogStep == CatalogInv /\ [CatalogNext]_catalogVars => CatalogInv'
<1> SUFFICES ASSUME CatalogInv, [CatalogNext]_catalogVars PROVE CatalogInv'
  OBVIOUS
<1>1. ASSUME NEW c \in Client, CreateStep(c) PROVE CatalogInv'
  <2>1. ASSUME CreateWithoutClaims(c) \/ CreateFails(c) PROVE CatalogInv'
    BY <2>1, RequestStops DEF CreateWithoutClaims, CreateFails, AfterError
  <2> QED
    BY <1>1, <2>1, CreateBeginsKeeps, CreateFindsUserKeeps, CreateAddsOneKeeps, CreateAnswersKeeps DEF CreateStep
<1>2. ASSUME NEW p \in Pool, NEW u \in User, NEW name \in Names,
             DeletePermissionEp(p, u) \/ AddPermissionEp(p, u, name)
      PROVE  CatalogInv'
  BY <1>2, RemovalKeepsPromises, AdditionKeepsPromises
<1> QED
  BY <1>1, <1>2, OthersKeep, RemovalKeepsPromises DEF CatalogNext

LEMMA CatalogInvariant == CatalogSpec => []CatalogInv
  BY CatalogStarts, CatalogStep, PTL DEF CatalogSpec

\* Who is told that the pool is created holds every permission on it until they
\* are removed, whichever requests fail or are cut off by a restart.
THEOREM CreatorHoldsAllHolds == CatalogSpec => []CreatorHoldsAll
<1>1. CatalogInv => CreatorHoldsAll
  BY DEF CatalogInv
<1> QED
  BY <1>1, CatalogInvariant, PTL

----------------------------------------------------------------------------
(* The two listings.                                                       *)

\* No permission is on a pool without a row, so that the join of the raw query
\* with pools leaves none out.
LEMMA JoinKeepsEveryRow ==
    ASSUME CatalogTypes, RowsInv, NEW p \in Pool, NEW u \in User, NEW t \in Types
    PROVE  RowOfPool(p, u, t) <=> Holds(p, u, t)
  BY DEF RowOfPool, Holds, RowsInv

LEMMA ListingsAgreeInState == CatalogTypes /\ RowsInv => ListingsAgree
<1> SUFFICES ASSUME CatalogTypes, RowsInv, NEW u \in User, NEW p \in Pool,
                    GetPermissions(u).ok, GetPoolPermissions(p).ok
             PROVE  /\ {r.permission : r \in {q \in GetPermissions(u).pools : q.pool = p}}
                          = IF u \in DOMAIN GetPoolPermissions(p).users
                            THEN BagToSet(GetPoolPermissions(p).users[u]) ELSE {}
                    /\ \A r \in GetPermissions(u).pools :
                          r.pool = p => r.users = Cardinality(DOMAIN GetPoolPermissions(p).users)
  BY DEF ListingsAgree
<1> DEFINE mine == {r \in Pool \X Types : RowOfPool(r[1], u, r[2])}
           ofPool == {r \in User \X Types : Holds(p, r[1], r[2])}
           types(v) == {t \in Types : Holds(p, v, t)}
<1>1. GetPermissions(u).pools = {[permission |-> r[2], pool |-> r[1], users |-> UserCount(r[1])] : r \in mine}
  BY DEF GetPermissions
<1>2. GetPoolPermissions(p).users =
         [v \in {r[1] : r \in ofPool} |->
             [t \in {r[2] : r \in {q \in ofPool : q[1] = v}} |-> permissions[<<p, v, t>>].live]]
  BY DEF GetPoolPermissions, Holds
<1>3. {r[1] : r \in ofPool} = {v \in User : \E t \in Types : Holds(p, v, t)}
  <2>1. ASSUME NEW v \in User, NEW t \in Types, Holds(p, v, t) PROVE v \in {r[1] : r \in ofPool}
    <3>1. <<v, t>> \in ofPool /\ <<v, t>>[1] = v
      BY <2>1
    <3> QED
      BY <3>1
  <2>2. \A r \in ofPool : r[1] \in {v \in User : \E t \in Types : Holds(p, v, t)}
    OBVIOUS
  <2> QED
    BY <2>1, <2>2
<1>4. {r[2] : r \in {q \in ofPool : q[1] = u}} = types(u)
  <2>1. ASSUME NEW t \in types(u) PROVE t \in {r[2] : r \in {q \in ofPool : q[1] = u}}
    <3>1. <<u, t>> \in {q \in ofPool : q[1] = u} /\ <<u, t>>[2] = t
      BY <2>1
    <3> QED
      BY <3>1
  <2>2. \A r \in {q \in ofPool : q[1] = u} : r[2] \in types(u)
    OBVIOUS
  <2> QED
    BY <2>1, <2>2
<1>5. {r.permission : r \in {q \in GetPermissions(u).pools : q.pool = p}} = types(u)
  <2>1. \A t : t \in types(u) <=> <<p, t>> \in mine
    BY JoinKeepsEveryRow
  <2>2. ASSUME NEW t \in types(u)
        PROVE  t \in {r.permission : r \in {q \in GetPermissions(u).pools : q.pool = p}}
    <3> DEFINE row == [permission |-> t, pool |-> p, users |-> UserCount(p)]
    <3>1. row \in GetPermissions(u).pools
      <4>1. <<p, t>> \in mine /\ <<p, t>>[1] = p /\ <<p, t>>[2] = t
        BY <2>1, <2>2
      <4> HIDE DEF mine
      <4> QED
        BY <1>1, <4>1
    <3> QED
      BY <3>1
  <2>3. ASSUME NEW q \in GetPermissions(u).pools, q.pool = p
        PROVE  q.permission \in types(u)
    <3>1. PICK r \in mine : q = [permission |-> r[2], pool |-> r[1], users |-> UserCount(r[1])]
      BY <1>1
    <3>2. r = <<p, q.permission>>
      BY <2>3, <3>1
    <3> QED
      BY <2>1, <3>2
  <2> QED
    BY <2>2, <2>3
<1>6. \A r \in GetPermissions(u).pools : r.pool = p => r.users = UserCount(p)
  BY <1>1
<1>7. UserCount(p) = Cardinality({v \in User : \E t \in Types : Holds(p, v, t)})
  BY DEF UserCount, Holds
<1>8. DOMAIN GetPoolPermissions(p).users = {v \in User : \E t \in Types : Holds(p, v, t)}
  BY <1>2, <1>3
<1>9. CASE u \in DOMAIN GetPoolPermissions(p).users
  <2>1. BagToSet(GetPoolPermissions(p).users[u]) = types(u)
    BY <1>2, <1>3, <1>4, <1>8, <1>9 DEF BagToSet
  <2> QED
    BY <1>5, <1>6, <1>7, <1>8, <1>9, <2>1
<1>10. CASE u \notin DOMAIN GetPoolPermissions(p).users
  <2>1. types(u) = {}
    BY <1>8, <1>10
  <2> QED
    BY <1>5, <1>6, <1>7, <1>8, <1>10, <2>1
<1> QED
  BY <1>9, <1>10

\* The raw query of GetPermissions and the gorm query of GetPoolPermissions
\* agree in every state the endpoints reach, with pools deleted softly, up to how
\* often the second repeats a permission that was given more than once.
THEOREM ListingsAgreeHolds == CatalogSpec => []ListingsAgree
<1>1. CatalogInv => ListingsAgree
  BY ListingsAgreeInState DEF CatalogInv
<1> QED
  BY <1>1, CatalogInvariant, PTL

=============================================================================
