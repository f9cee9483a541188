---------------------------- MODULE MemdbProofs ----------------------------
(***************************************************************************)
(* Proofs about the in-memory storage driver: its tables, the backend that *)
(* places sessions in them and the agents that report, for any number of   *)
(* each, and the exporter that reads them.                                 *)
(***************************************************************************)
EXTENDS Exporter, GpuMatchingProofs, SequenceTheorems

----------------------------------------------------------------------------
(* The VRAM that sessions take up is a sum over them.                      *)

LEMMA VramOfIsSum == \A S : VramOf(S) = SumOver(VramRequired, S)
  BY DEF VramOf, SumOver

\* A finite set of sessions takes up some natural number, none if it is empty.
LEMMA VramOfType ==
    ASSUME NEW S \in SUBSET Session, IsFiniteSet(S)
    PROVE  VramOf(S) \in Nat
  BY VramOfIsSum, SumOverType, MemdbAssumption

LEMMA VramOfEmpty == VramOf({}) = 0
  BY VramOfIsSum, SumOverEmpty

LEMMA VramOfRemove ==
    ASSUME NEW S \in SUBSET Session, IsFiniteSet(S), NEW x \in S
    PROVE  VramOf(S) = VramRequired[x] + VramOf(S \ {x})
  BY VramOfIsSum, SumOverRemove, MemdbAssumption

\* A part of the sessions and the rest make up the whole.
LEMMA VramOfParts ==
    ASSUME NEW S \in SUBSET Session, IsFiniteSet(S), NEW P \in SUBSET S
    PROVE  VramOf(S) = VramOf(S \ P) + VramOf(P)
  BY VramOfIsSum, SumOverParts, MemdbAssumption

----------------------------------------------------------------------------
(* What the loop of UpdateAgent keeps of a slice of session ids.           *)

\* The equation that defines kept in Remaining, for the first n of the ids q.
KeptTo(q, gone, n, f) ==
    [k \in 0..n |->
        IF k = 0 THEN <<>>
        ELSE IF q[k] \in gone THEN f[k - 1] ELSE Append(f[k - 1], q[k])]

LEMMA KeptAt ==
    ASSUME NEW q, NEW gone, NEW n \in Nat, NEW f, f = KeptTo(q, gone, n, f)
    PROVE  \A k \in 0..n :
              f[k] = IF k = 0 THEN <<>>
                     ELSE IF q[k] \in gone THEN f[k - 1] ELSE Append(f[k - 1], q[k])
<1> SUFFICES ASSUME NEW k \in 0..n
             PROVE  f[k] = IF k = 0 THEN <<>>
                           ELSE IF q[k] \in gone THEN f[k - 1] ELSE Append(f[k - 1], q[k])
  OBVIOUS
<1>1. f[k] = KeptTo(q, gone, n, f)[k]
  OBVIOUS
<1> QED
  BY <1>1 DEF KeptTo

LEMMA KeptExists ==
    ASSUME NEW q, NEW gone, NEW n \in Nat
    PROVE  \E f : f = KeptTo(q, gone, n, f)
<1> DEFINE Failing == {m \in Nat : ~ \E f : f = KeptTo(q, gone, m, f)}
<1> SUFFICES ASSUME Failing # {} PROVE FALSE
  OBVIOUS
<1>1. PICK m \in Failing : \A k \in Failing : m <= k
  <2>1. Failing \in SUBSET Nat
    OBVIOUS
  <2> HIDE DEF Failing
  <2> QED
    BY <2>1, LeastElement
<1>2. m # 0
  <2> DEFINE g == [k \in 0..0 |-> <<>>]
  <2>1. g = KeptTo(q, gone, 0, g)
    BY DEF KeptTo
  <2> HIDE DEF g
  <2> QED
    BY <2>1
<1>3. m - 1 \in Nat /\ m \in Nat /\ m - 1 \notin Failing
  BY <1>1, <1>2
<1>4. PICK g : g = KeptTo(q, gone, m - 1, g)
  BY <1>3
<1> DEFINE h == [k \in 0..m |->
                    IF k = 0 THEN <<>>
                    ELSE IF q[k] \in gone THEN g[k - 1] ELSE Append(g[k - 1], q[k])]
<1>5. ASSUME NEW k \in 0..(m - 1) PROVE h[k] = g[k]
  <2>1. g[k] = IF k = 0 THEN <<>>
               ELSE IF q[k] \in gone THEN g[k - 1] ELSE Append(g[k - 1], q[k])
    <3> DEFINE p == m - 1
    <3>1. p \in Nat /\ g = KeptTo(q, gone, p, g) /\ k \in 0..p
      BY <1>3, <1>4
    <3> HIDE DEF Failing, h, p
    <3>2. g[k] = KeptTo(q, gone, p, g)[k]
      BY <3>1, Zenon
    <3>3. KeptTo(q, gone, p, g)[k] =
             IF k = 0 THEN <<>>
             ELSE IF q[k] \in gone THEN g[k - 1] ELSE Append(g[k - 1], q[k])
      BY <3>1 DEF KeptTo
    <3> QED
      BY <3>2, <3>3, Zenon
  <2>2. k \in 0..m
    BY <1>3
  <2> QED
    BY <2>1, <2>2
<1>6. ASSUME NEW k \in 0..m
      PROVE  h[k] = IF k = 0 THEN <<>>
                    ELSE IF q[k] \in gone THEN h[k - 1] ELSE Append(h[k - 1], q[k])
  <2>1. CASE k = 0
    BY <2>1
  <2>2. CASE k # 0
    <3>1. k - 1 \in 0..(m - 1)
      BY <1>3, <2>2
    <3>2. h[k - 1] = g[k - 1]
      <4> HIDE DEF h
      <4> QED
        BY <1>5, <3>1
    <3>3. h[k] = IF q[k] \in gone THEN g[k - 1] ELSE Append(g[k - 1], q[k])
      BY <2>2
    <3> HIDE DEF h
    <3> QED
      BY <2>2, <3>2, <3>3
  <2> QED
    BY <2>1, <2>2
<1>7. h = [k \in 0..m |-> h[k]]
  OBVIOUS
<1> HIDE DEF h
<1>8. h = KeptTo(q, gone, m, h)
  BY <1>6, <1>7 DEF KeptTo
<1> QED
  BY <1>1, <1>8

\* A session that is appended to a slice of ids joins them.
LEMMA AppendOne ==
    ASSUME NEW old \in Seq(Session), NEW x \in Session
    PROVE  /\ Append(old, x) \in Seq(Session)
           /\ ToSet(Append(old, x)) = ToSet(old) \cup {x}
           /\ IsInjective(old) /\ x \notin ToSet(old) => IsInjective(Append(old, x))
<1> DEFINE new == Append(old, x)
<1>1. /\ new \in Seq(Session) /\ Len(new) = Len(old) + 1
      /\ \A i \in 1..Len(old) : new[i] = old[i]
      /\ new[Len(old) + 1] = x
  BY AppendProperties
<1> HIDE DEF new
<1>2. /\ DOMAIN new = 1..Len(new) /\ DOMAIN old = 1..Len(old)
      /\ Len(old) \in Nat
  BY <1>1, LenProperties
<1>3. \A i : i \in DOMAIN new <=> (i \in DOMAIN old \/ i = Len(old) + 1)
  BY <1>1, <1>2
<1>4. ToSet(new) = ToSet(old) \cup {x}
  BY <1>1, <1>2, <1>3 DEF ToSet
<1>5. ASSUME IsInjective(old), x \notin ToSet(old) PROVE IsInjective(new)
  <2>1. \A i \in DOMAIN old : old[i] \in ToSet(old) /\ new[i] = old[i]
    BY <1>1, <1>2 DEF ToSet
  <2> QED
    BY <1>1, <1>3, <1>5, <2>1 DEF IsInjective
<1> QED
  BY <1>1, <1>4, <1>5 DEF new

\* The ids that are kept are those that are not gone, none of them twice.
LEMMA KeptHolds ==
    ASSUME NEW q \in Seq(Session), NEW gone,
           NEW f, f = KeptTo(q, gone, Len(q), f), NEW n \in 0..Len(q)
    PROVE  /\ f[n] \in Seq(Session)
           /\ \A s : s \in ToSet(f[n]) <=> s \notin gone /\ \E i \in 1..n : q[i] = s
           /\ IsInjective(q) => IsInjective(f[n])
<1> DEFINE Holds(m) == /\ f[m] \in Seq(Session)
                       /\ \A s : s \in ToSet(f[m]) <=> s \notin gone /\ \E i \in 1..m : q[i] = s
                       /\ IsInjective(q) => IsInjective(f[m])
           Failing == {m \in Nat : m <= Len(q) /\ ~Holds(m)}
<1>0. Len(q) \in Nat
  BY LenProperties
<1> SUFFICES ASSUME Failing # {} PROVE FALSE
  <2>1. n \in Nat /\ n <= Len(q)
    BY <1>0
  <2>2. ASSUME Failing = {} PROVE Holds(n)
    <3> HIDE DEF Holds
    <3> QED
      BY <2>1, <2>2
  <2> QED
    BY <2>2
<1>1. PICK m \in Failing : \A k \in Failing : m <= k
  <2>1. Failing \in SUBSET Nat
    OBVIOUS
  <2> HIDE DEF Failing
  <2> QED
    BY <2>1, LeastElement
<1>2. m \in Nat /\ m <= Len(q) /\ ~Holds(m)
  OBVIOUS
<1>3. m # 0
  <2> SUFFICES ASSUME m = 0 PROVE Holds(m)
    BY <1>2
  <2>1. f[0] = <<>>
    <3>1. 0 \in 0..Len(q)
      BY <1>0
    <3> HIDE DEF Failing, Holds
    <3>2. f[0] = KeptTo(q, gone, Len(q), f)[0]
      BY Zenon
    <3>3. KeptTo(q, gone, Len(q), f)[0] = <<>>
      BY <3>1 DEF KeptTo
    <3> QED
      BY <3>2, <3>3, Zenon
  <2>2. <<>> \in Seq(Session) /\ ToSet(<<>>) = {} /\ IsInjective(<<>>)
    BY DEF ToSet, IsInjective
  <2> QED
    BY <2>1, <2>2
<1>4. m - 1 \in Nat /\ m - 1 <= Len(q) /\ m \in 1..Len(q) /\ m \in 0..Len(q)
  BY <1>0, <1>2, <1>3
<1>5. Holds(m - 1)
  <2>1. m - 1 \notin Failing
    <3>1. m \in Nat
      BY <1>2
    <3> HIDE DEF Failing
    <3> QED
      BY <1>1, <3>1
  <2> HIDE DEF Holds
  <2> QED
    BY <1>4, <2>1
<1>6. f[m] = IF q[m] \in gone THEN f[m - 1] ELSE Append(f[m - 1], q[m])
  <2> HIDE DEF Failing, Holds
  <2> QED
    BY <1>0, <1>3, <1>4, KeptAt
<1>7. q[m] \in Session
  BY <1>4, ElementOfSeq
<1>8. \A i : i \in 1..m <=> (i \in 1..(m - 1) \/ i = m)
  BY <1>4
<1> HIDE DEF Failing
<1>9. CASE q[m] \in gone
  BY <1>2, <1>5, <1>6, <1>8, <1>9
<1>10. CASE q[m] \notin gone
  <2> DEFINE old == f[m - 1]
             new == f[m]
  <2>1. new = Append(old, q[m]) /\ old \in Seq(Session)
    BY <1>5, <1>6, <1>10
  <2> HIDE DEF old, new
  <2>2. /\ new \in Seq(Session)
        /\ ToSet(new) = ToSet(old) \cup {q[m]}
        /\ IsInjective(old) /\ q[m] \notin ToSet(old) => IsInjective(new)
    BY <1>7, <2>1, AppendOne
  <2>3. \A s : s \in ToSet(new) <=> s \notin gone /\ \E i \in 1..m : q[i] = s
    BY <1>5, <1>8, <1>10, <2>2 DEF old
  <2>4. ASSUME IsInjective(q) PROVE IsInjective(new)
    <3>1. IsInjective(old)
      BY <1>5, <2>4 DEF old
    <3>2. DOMAIN q = 1..Len(q)
      BY LenProperties
    <3>3. \A i \in 1..(m - 1) : i \in 1..Len(q) /\ i # m
      BY <1>0, <1>4
    <3>4. \A i \in 1..(m - 1) : q[i] # q[m]
      BY <1>4, <2>4, <3>2, <3>3 DEF IsInjective
    <3>5. q[m] \notin ToSet(old)
      BY <1>5, <3>4 DEF old
    <3> QED
      BY <2>2, <3>1, <3>5
  <2> QED
    BY <1>2, <2>2, <2>3, <2>4 DEF new
<1> QED
  BY <1>9, <1>10

\* What UpdateAgent leaves of the ids of an agent.
LEMMA RemainingHolds ==
    ASSUME NEW a, sessionIds[a] \in Seq(Session), NEW report
    PROVE  /\ Remaining(a, report) \in Seq(Session)
           /\ ToSet(Remaining(a, report)) = Ids(a) \ Refunded(a, report)
           /\ IsInjective(sessionIds[a]) => IsInjective(Remaining(a, report))
<1> DEFINE q == sessionIds[a]
           gone == Refunded(a, report)
           Solves(f) == f = KeptTo(q, gone, Len(q), f)
           kept == CHOOSE f : f = KeptTo(q, gone, Len(q), f)
<1>1. Remaining(a, report) = kept[Len(q)]
  BY DEF Remaining, KeptTo
<1>2. Len(q) \in Nat /\ DOMAIN q = 1..Len(q)
  BY LenProperties
<1>3. \E f : Solves(f)
  BY <1>2, KeptExists
<1>4. kept = CHOOSE f : Solves(f)
  OBVIOUS
<1>5. Ids(a) = ToSet(q)
  BY DEF Ids
<1> HIDE DEF kept, Solves, gone, q
<1>6. Solves(kept)
  BY <1>3, <1>4
<1>7. q \in Seq(Session) /\ kept = KeptTo(q, gone, Len(q), kept) /\ Len(q) \in 0..Len(q)
  BY <1>2, <1>6 DEF q, Solves
<1>8. /\ kept[Len(q)] \in Seq(Session)
      /\ \A s : s \in ToSet(kept[Len(q)]) <=> s \notin gone /\ \E i \in 1..Len(q) : q[i] = s
      /\ IsInjective(q) => IsInjective(kept[Len(q)])
  BY <1>7, KeptHolds
<1>9. ToSet(kept[Len(q)]) = ToSet(q) \ gone
  <2>1. \A s : s \in ToSet(q) <=> \E i \in 1..Len(q) : q[i] = s
    BY <1>2 DEF ToSet
  <2> QED
    BY <1>8, <2>1
<1> QED
  BY <1>1, <1>5, <1>8, <1>9 DEF q, gone

----------------------------------------------------------------------------
(* The inductive invariant.                                                *)

OwnTypes == MemdbTypeOK /\ sessionIds \in [Agent -> Seq(Session)]

\* What the backend has listed is not placed, and the agent it has chosen still
\* has the VRAM: only the backend takes VRAM away.
PlacingInv ==
    /\ \A s \in Session : sAgent[s] # NoAgent => sState[s] \notin {"none", "queued"}
    /\ \A s \in pending : sAgent[s] = NoAgent
    /\ placing # Nothing =>
          /\ placing[1] \notin pending
          /\ sAgent[placing[1]] = NoAgent
          /\ aState[placing[2]] # "none"
          /\ VramRequired[placing[1]] <= vram[placing[2]]
    /\ \A a \in Agent : aState[a] = "none" => sessionIds[a] = <<>>

\* An agent runs what was placed on it, and a session that is over has left
\* its row.
RunInv ==
    \A a \in Agent, s \in Session :
        /\ ran[a][s] # "no" => sAgent[s] = a
        /\ ran[a][s] = "over" => s \notin Ids(a)

\* A session is listed by one agent at most, once, and by the one in its row.
ListedOnce ==
    \A a \in Agent :
        /\ IsInjective(sessionIds[a])
        /\ \A s \in Ids(a) : sAgent[s] = a

MemdbInv ==
    /\ OwnTypes
    /\ ListedOnce
    /\ PlacingInv
    /\ RunInv
    /\ VramConserved
    /\ MirrorAgrees
    /\ StuckOverMissingRows

\* What the invariant says of the ids of an agent.
LEMMA IdsHold ==
    ASSUME MemdbInv, NEW a \in Agent
    PROVE  /\ sessionIds[a] \in Seq(Session)
           /\ DOMAIN sessionIds[a] = 1..Len(sessionIds[a])
           /\ Len(sessionIds[a]) \in Nat
           /\ Ids(a) \in SUBSET Session
           /\ IsFiniteSet(Ids(a))
           /\ VramOf(Ids(a)) \in Nat
<1> DEFINE q == sessionIds[a]
<1>1. q \in Seq(Session)
  BY DEF MemdbInv, OwnTypes
<1> HIDE DEF q
<1>2. Len(q) \in Nat /\ DOMAIN q = 1..Len(q) /\ q \in [1..Len(q) -> Session]
  BY <1>1, LenProperties
<1>3. ToSet(q) \in SUBSET Session /\ q \in Surjection(1..Len(q), ToSet(q))
  BY <1>2 DEF ToSet, Surjection
<1>4. IsFiniteSet(ToSet(q))
  <2>1. IsFiniteSet(1..Len(q))
    BY <1>2, FS_Interval
  <2> QED
    BY <1>3, <2>1, FS_Surjection
<1>5. VramOf(ToSet(q)) \in Nat
  BY <1>3, <1>4, VramOfType
<1> QED
  BY <1>1, <1>2, <1>3, <1>4, <1>5 DEF q, Ids

----------------------------------------------------------------------------
(* Every step preserves it.  Agents and clients.                           *)

LEMMA RegisterAgentStep ==
    ASSUME MemdbInv, NEW a \in Agent, RegisterAgent(a)
    PROVE  MemdbInv'
<1>1. /\ aState[a] = "none" /\ aState' = [aState EXCEPT ![a] = "active"]
      /\ vram' = [vram EXCEPT ![a] = AgentVram[a]]
      /\ phase' = [phase EXCEPT ![a] = "idle"]
      /\ UNCHANGED <<sessionIds, mirror, sState, sAgent, writer, pending, placing, up, ran, strangers, wipers, aborted>>
  BY DEF RegisterAgent, sessionTable, backend, history
<1>2. sessionIds[a] = <<>> /\ Ids(a) = {} /\ AgentVram[a] \in Nat
  BY <1>1, MemdbAssumption DEF MemdbInv, PlacingInv, Ids, ToSet
<1>3. OwnTypes'
  BY <1>1, <1>2 DEF MemdbInv, OwnTypes, MemdbTypeOK
<1>4. ListedOnce' /\ RunInv'
  BY <1>1 DEF MemdbInv, ListedOnce, RunInv, Ids
<1>5. PlacingInv'
  BY <1>1, <1>2 DEF MemdbInv, PlacingInv, OwnTypes, MemdbTypeOK
<1>6. VramConserved'
  <2>1. \A b \in Agent : Ids(b)' = Ids(b)
    BY <1>1 DEF Ids
  <2> SUFFICES ASSUME NEW b \in Agent, aState'[b] # "none"
               PROVE  vram'[b] + VramOf(Ids(b)') = AgentVram[b]
    BY DEF VramConserved
  <2>2. CASE b = a
    <3>1. Ids(b)' = {} /\ vram'[b] = AgentVram[b]
      BY <1>1, <1>2, <2>1, <2>2 DEF MemdbInv, OwnTypes, MemdbTypeOK
    <3> QED
      BY <1>2, <2>2, <3>1, VramOfEmpty
  <2>3. CASE b # a
    BY <1>1, <2>1, <2>3 DEF MemdbInv, VramConserved, OwnTypes, MemdbTypeOK
  <2> QED
    BY <2>2, <2>3
<1>7. MirrorAgrees'
  BY <1>1 DEF MemdbInv, MirrorAgrees, Ids, Stored, GetAgentById, GetSessionById
<1>8. StuckOverMissingRows'
  <2>1. \A b \in Agent : Present(b)' => Present(b) \/ Ids(b)' = {}
    BY <1>1, <1>2 DEF Present, Ids, MemdbInv, OwnTypes, MemdbTypeOK
  <2> QED
    BY <1>1, <2>1 DEF MemdbInv, StuckOverMissingRows, Ids, Stored
<1> QED
  BY <1>3, <1>4, <1>5, <1>6, <1>7, <1>8 DEF MemdbInv

LEMMA RequestSessionStep ==
    ASSUME MemdbInv, NEW s \in Session, RequestSession(s)
    PROVE  MemdbInv'
<1>1. /\ sState[s] = "none" /\ sState' = [sState EXCEPT ![s] = "queued"]
      /\ UNCHANGED <<aState, vram, sessionIds, mirror, sAgent, writer, pending, placing, up,
                     phase, ran, strangers, wipers, aborted>>
  BY DEF RequestSession, agentTable, backend, agents, history
<1>2. sAgent[s] = NoAgent
  BY <1>1 DEF MemdbInv, PlacingInv
<1>3. OwnTypes'
  BY <1>1 DEF MemdbInv, OwnTypes, MemdbTypeOK
<1>4. ListedOnce' /\ RunInv' /\ VramConserved'
  BY <1>1 DEF MemdbInv, ListedOnce, RunInv, VramConserved, Ids
<1>5. PlacingInv'
  BY <1>1, <1>2 DEF MemdbInv, PlacingInv, OwnTypes, MemdbTypeOK
<1>6. MirrorAgrees'
  <2>1. \A a \in Agent : s \notin Ids(a)
    BY <1>2, MemdbAssumption DEF MemdbInv, ListedOnce
  <2> SUFFICES ASSUME NEW a \in Agent \ aborted, NEW t \in Ids(a)', Stored(t)'
               PROVE  mirror'[a][t] = sState'[t]
    BY <1>1 DEF MirrorAgrees, GetAgentById, GetSessionById
  <2>2. t \in Ids(a) /\ t # s /\ t \in Session
    BY <1>1, <2>1, IdsHold DEF Ids
  <2>3. sState'[t] = sState[t]
    BY <1>1, <2>2 DEF MemdbInv, OwnTypes, MemdbTypeOK
  <2> QED
    BY <1>1, <2>2, <2>3 DEF MemdbInv, MirrorAgrees, Stored, GetAgentById, GetSessionById
<1>7. StuckOverMissingRows'
  <2>1. \A t \in Session : Stored(t) => Stored(t)'
    BY <1>1 DEF Stored, MemdbInv, OwnTypes, MemdbTypeOK
  <2>2. \A a \in Agent : Ids(a)' = Ids(a) /\ Ids(a) \in SUBSET Session
    BY <1>1, IdsHold DEF Ids
  <2> QED
    BY <1>1, <2>1, <2>2 DEF MemdbInv, StuckOverMissingRows, Present
<1> QED
  BY <1>3, <1>4, <1>5, <1>6, <1>7 DEF MemdbInv

LEMMA CancelSessionStep ==
    ASSUME MemdbInv, NEW s \in Session, CancelSession(s)
    PROVE  MemdbInv'
<1>1. /\ writer' = "stuck" /\ strangers' = strangers \cup {s}
      /\ UNCHANGED <<aState, vram, sessionIds, mirror, sState, sAgent, pending, placing, up,
                     phase, ran, wipers, aborted>>
  BY DEF CancelSession, agentTable, sessionTable, backend, agents
<1>2. OwnTypes' /\ PlacingInv'
  BY <1>1 DEF MemdbInv, OwnTypes, MemdbTypeOK, PlacingInv
<1>3. ListedOnce' /\ RunInv' /\ VramConserved' /\ MirrorAgrees'
  BY <1>1 DEF MemdbInv, ListedOnce, RunInv, VramConserved, MirrorAgrees, Ids, Stored, GetAgentById, GetSessionById
<1>4. StuckOverMissingRows'
  BY <1>1 DEF MemdbInv, StuckOverMissingRows, Ids, Stored, Present, Present
<1> QED
  BY <1>2, <1>3, <1>4 DEF MemdbInv

\* An agent starts only what is in its row, and nothing there is over.
LEMMA AgentPollStep ==
    ASSUME MemdbInv, NEW a \in Agent, AgentPoll(a)
    PROVE  MemdbInv'
<1>1. /\ phase' = [phase EXCEPT ![a] = IF Present(a) THEN "polled" ELSE "down"]
      /\ ran' = [ran EXCEPT ![a] = [s \in Session |->
                    IF Present(a) /\ s \in Ids(a) /\ GetAgentById(a)[s] = "assigned"
                    THEN "running" ELSE ran[a][s]]]
      /\ UNCHANGED <<aState, vram, sessionIds, mirror, sState, sAgent, writer, pending, placing, up,
                     strangers, wipers, aborted>>
  BY DEF AgentPoll, agentTable, sessionTable, backend, history
<1>2. ran \in [Agent -> [Session -> {"no", "running", "reported", "over"}]]
  BY DEF MemdbInv, OwnTypes, MemdbTypeOK
<1>3. \A b \in Agent, s \in Session :
         \/ ran'[b][s] = ran[b][s]
         \/ b = a /\ s \in Ids(a) /\ ran'[b][s] = "running"
  BY <1>1, <1>2
<1>4. ran' \in [Agent -> [Session -> {"no", "running", "reported", "over"}]]
  BY <1>1, <1>2
<1>5. OwnTypes'
  BY <1>1, <1>4 DEF MemdbInv, OwnTypes, MemdbTypeOK
<1>6. PlacingInv'
  BY <1>1 DEF MemdbInv, PlacingInv
<1>7. ListedOnce' /\ VramConserved' /\ MirrorAgrees' /\ StuckOverMissingRows'
  BY <1>1 DEF MemdbInv, ListedOnce, VramConserved, MirrorAgrees, StuckOverMissingRows, Ids, Stored, Present,
              GetAgentById, GetSessionById
<1>8. RunInv'
  BY <1>1, <1>3 DEF MemdbInv, RunInv, ListedOnce, Ids
<1> QED
  BY <1>5, <1>6, <1>7, <1>8 DEF MemdbInv

\* A report that fails nowhere is about rows that are there.
LEMMA ReportedIsStored ==
    ASSUME MemdbInv, NEW a \in Agent, NEW report \in Reports(a), Bad(a, report) = {},
           NEW s \in Reported(a, report)
    PROVE  s \in Ids(a) /\ s \in Session /\ Stored(s) /\ report[s] \in {"active", "closed"}
<1>1. s \in Ids(a) /\ report[s] # "none" /\ s \in Session
  BY IdsHold DEF Reported
<1>2. PICK i \in DOMAIN sessionIds[a] : sessionIds[a][i] = s
  BY <1>1 DEF Ids, ToSet
<1>3. Stored(s) /\ report[s] # ""
  BY <1>1, <1>2 DEF Bad
<1>4. report[s] \in {"none", "active", "", "closed"}
  BY <1>1 DEF Reports
<1> QED
  BY <1>1, <1>3, <1>4

LEMMA UpdateCommitsStep ==
    ASSUME MemdbInv, NEW a \in Agent, NEW report \in Reports(a), UpdateCommits(a, report)
    PROVE  MemdbInv'
<1> DEFINE P == Reported(a, report)
           R == Refunded(a, report)
           rest == Remaining(a, report)
<1>1. /\ Present(a) /\ Bad(a, report) = {} /\ writer = "free"
      /\ aState' = [aState EXCEPT ![a] = "active"]
      /\ mirror' = MirrorUpTo(a, report, Len(sessionIds[a]))
      /\ sState' = [s \in Session |-> IF s \in P THEN report[s] ELSE sState[s]]
      /\ vram' = [vram EXCEPT ![a] = vram[a] + VramOf(R)]
      /\ sessionIds' = [sessionIds EXCEPT ![a] = rest]
      /\ ran' = AgentMadeOf(a, report)
      /\ phase' = [phase EXCEPT ![a] = "idle"]
      /\ UNCHANGED <<sAgent, writer, pending, placing, up, strangers, wipers, aborted>>
  BY DEF UpdateCommits, CanWrite, Refund, backend, history
<1>2. \A s \in P : s \in Ids(a) /\ s \in Session /\ Stored(s) /\ report[s] \in {"active", "closed"}
  BY <1>1, ReportedIsStored
<1>3. /\ rest \in Seq(Session)
      /\ ToSet(rest) = Ids(a) \ R
      /\ IsInjective(sessionIds[a]) => IsInjective(rest)
  BY IdsHold, RemainingHolds
<1>4. /\ R \in SUBSET Ids(a) /\ R \in SUBSET P
      /\ \A s : s \in R <=> s \in Ids(a) /\ report[s] = "closed"
  BY DEF Refunded, Reported
<1>5. VramOf(Ids(a)) = VramOf(Ids(a) \ R) + VramOf(R) /\ VramOf(Ids(a) \ R) \in Nat /\ VramOf(R) \in Nat
  <2>1. Ids(a) \in SUBSET Session /\ IsFiniteSet(Ids(a))
    BY IdsHold
  <2>2. /\ Ids(a) \ R \in SUBSET Session /\ IsFiniteSet(Ids(a) \ R)
        /\ R \in SUBSET Session /\ IsFiniteSet(R)
    BY <1>4, <2>1, FS_Subset
  <2> HIDE DEF R
  <2> QED
    BY <1>4, <2>1, <2>2, VramOfParts, VramOfType
<1>6. \A s \in Session :
         /\ s \in P <=> s \in Ids(a) /\ report[s] # "none"
         /\ report[s] \in {"none", "active", "", "closed"}
         /\ report[s] # "none" => ran[a][s] \in {"running", "reported"}
  BY DEF Reported, Reports
<1>7. \A s \in Session :
         mirror'[a][s] = IF s \in P THEN report[s] ELSE mirror[a][s]
  <2>1. \A s \in Session : s \in P <=>
           \E i \in 1..Len(sessionIds[a]) : sessionIds[a][i] = s /\ report[s] # "none"
    BY IdsHold DEF Reported, Ids, ToSet
  <2>2. mirror \in [Agent -> [Session -> {"", "none", "assigned", "active", "closed"}]]
    BY DEF MemdbInv, OwnTypes, MemdbTypeOK
  <2> HIDE DEF P
  <2> QED
    BY <1>1, <2>1, <2>2 DEF MirrorUpTo
<1>8. /\ mirror' \in [Agent -> [Session -> {"", "none", "assigned", "active", "closed"}]]
      /\ \A b \in Agent : b # a => mirror'[b] = mirror[b]
  <2>1. mirror \in [Agent -> [Session -> {"", "none", "assigned", "active", "closed"}]]
    BY DEF MemdbInv, OwnTypes, MemdbTypeOK
  <2>2. \A s \in Session : report[s] \in {"", "none", "assigned", "active", "closed"}
    BY <1>6
  <2> QED
    BY <1>1, <2>1, <2>2 DEF MirrorUpTo
<1>9. /\ ran' \in [Agent -> [Session -> {"no", "running", "reported", "over"}]]
      /\ \A b \in Agent, s \in Session :
            ran'[b][s] = IF b # a THEN ran[b][s]
                         ELSE IF report[s] = "closed" THEN "over"
                         ELSE IF report[s] = "active" THEN "reported" ELSE ran[b][s]
  <2>1. ran \in [Agent -> [Session -> {"no", "running", "reported", "over"}]]
    BY DEF MemdbInv, OwnTypes, MemdbTypeOK
  <2>2. ran' = [ran EXCEPT ![a] = [s \in Session |->
                   IF report[s] = "closed" THEN "over"
                   ELSE IF report[s] = "active" THEN "reported" ELSE ran[a][s]]]
    BY <1>1, <2>1 DEF AgentMadeOf
  <2> QED
    BY <2>1, <2>2
<1> HIDE DEF P, R, rest
<1>0. /\ vram \in [Agent -> Nat] /\ vram' \in [Agent -> Nat]
      /\ \A b \in Agent : vram'[b] = IF b = a THEN vram[a] + VramOf(R) ELSE vram[b]
  <2>1. vram \in [Agent -> Nat]
    BY DEF MemdbInv, OwnTypes, MemdbTypeOK
  <2>2. \A n \in Nat : n + VramOf(R) \in Nat
    BY <1>5
  <2> QED
    BY <1>1, <2>1, <2>2
<1>10. OwnTypes'
  <2>1. sState' \in [Session -> {"none", "queued", "assigned", "active", "closed", "gone"}]
    BY <1>1, <1>2 DEF MemdbInv, OwnTypes, MemdbTypeOK
  <2>2. sessionIds' \in [Agent -> Seq(Session)]
    BY <1>1, <1>3 DEF MemdbInv, OwnTypes
  <2>3. /\ aState' \in [Agent -> {"none", "active", "missing", "gone"}]
        /\ phase' \in [Agent -> {"down", "idle", "polled"}]
    BY <1>1 DEF MemdbInv, OwnTypes, MemdbTypeOK
  <2> QED
    BY <1>0, <1>1, <1>8, <1>9, <2>1, <2>2, <2>3 DEF MemdbInv, OwnTypes, MemdbTypeOK
<1>11. /\ sessionIds'[a] = rest /\ Ids(a)' = Ids(a) \ R
       /\ \A b \in Agent : b # a => sessionIds'[b] = sessionIds[b] /\ Ids(b)' = Ids(b)
  BY <1>1, <1>3 DEF MemdbInv, OwnTypes, Ids
<1>12. ListedOnce'
  BY <1>1, <1>3, <1>11 DEF MemdbInv, ListedOnce
<1>13. PlacingInv'
  <2>1. \A b \in Agent : vram[b] \in Nat /\ vram'[b] \in Nat /\ vram[b] <= vram'[b]
    BY <1>0, <1>5
  <2>2. \A s \in Session : sState'[s] \in {"none", "queued"} => sState'[s] = sState[s]
    BY <1>1, <1>2
  <2>3. placing # Nothing => placing[1] \in Session /\ placing[2] \in Agent /\ VramRequired[placing[1]] \in Nat
    BY MemdbAssumption DEF MemdbInv, OwnTypes, MemdbTypeOK
  <2>4. \A b \in Agent : aState'[b] = "none" => b # a /\ aState[b] = "none"
    BY <1>1 DEF MemdbInv, OwnTypes, MemdbTypeOK
  <2>5. \A s \in Session : sAgent'[s] # NoAgent => sState'[s] \notin {"none", "queued"}
    BY <1>1, <2>2 DEF MemdbInv, PlacingInv
  <2>6. ASSUME placing # Nothing
        PROVE  /\ placing[1] \notin pending /\ sAgent[placing[1]] = NoAgent
               /\ aState'[placing[2]] # "none"
               /\ VramRequired[placing[1]] <= vram'[placing[2]]
    <3>1. /\ placing[1] \notin pending /\ sAgent[placing[1]] = NoAgent
          /\ aState[placing[2]] # "none"
          /\ VramRequired[placing[1]] <= vram[placing[2]]
      BY <2>6 DEF MemdbInv, PlacingInv
    <3> QED
      BY <2>1, <2>3, <2>4, <2>6, <3>1
  <2>7. \A b \in Agent : aState'[b] = "none" => sessionIds'[b] = <<>>
    BY <1>11, <2>4 DEF MemdbInv, PlacingInv
  <2>8. \A s \in pending : sAgent[s] = NoAgent
    BY DEF MemdbInv, PlacingInv
  <2> QED
    BY <1>1, <2>5, <2>6, <2>7, <2>8 DEF PlacingInv
<1>14. RunInv'
  <2> SUFFICES ASSUME NEW b \in Agent, NEW s \in Session
               PROVE  /\ ran'[b][s] # "no" => sAgent'[s] = b
                      /\ ran'[b][s] = "over" => s \notin Ids(b)'
    BY DEF RunInv
  <2>1. /\ ran[b][s] # "no" => sAgent[s] = b
        /\ ran[b][s] = "over" => s \notin Ids(b)
    BY DEF MemdbInv, RunInv
  <2>2. CASE b # a
    BY <1>1, <1>9, <1>11, <2>1, <2>2
  <2>3. CASE b = a
    BY <1>1, <1>4, <1>6, <1>9, <1>11, <2>1, <2>3, ZenonT(40)
  <2> QED
    BY <2>2, <2>3
<1>15. VramConserved'
  <2> SUFFICES ASSUME NEW b \in Agent, aState'[b] # "none"
               PROVE  vram'[b] + VramOf(Ids(b)') = AgentVram[b]
    BY DEF VramConserved
  <2>1. CASE b = a
    <3>1. aState[a] # "none" /\ vram[a] \in Nat /\ vram'[a] = vram[a] + VramOf(R)
      BY <1>0, <1>1 DEF Present
    <3>2. vram[a] + VramOf(Ids(a)) = AgentVram[a]
      BY <3>1 DEF MemdbInv, VramConserved
    <3>3. VramOf(Ids(b)') = VramOf(Ids(a) \ R)
      BY <1>11, <2>1
    <3> QED
      BY <1>5, <2>1, <3>1, <3>2, <3>3
  <2>2. CASE b # a
    <3>1. aState[b] # "none" /\ vram'[b] = vram[b] /\ Ids(b)' = Ids(b)
      BY <1>0, <1>1, <1>11, <2>2 DEF MemdbInv, OwnTypes, MemdbTypeOK
    <3> QED
      BY <3>1 DEF MemdbInv, VramConserved
  <2> QED
    BY <2>1, <2>2
<1>16. MirrorAgrees'
  <2> SUFFICES ASSUME NEW b \in Agent \ aborted, NEW s \in Ids(b)', Stored(s)'
               PROVE  mirror'[b][s] = sState'[s]
    BY <1>1 DEF MirrorAgrees, GetAgentById, GetSessionById
  <2>1. s \in Ids(b) /\ s \in Session
    BY <1>11, IdsHold
  <2>2. CASE s \in P
    <3>1. b = a
      BY <1>2, <2>1, <2>2 DEF MemdbInv, ListedOnce
    <3> QED
      BY <1>1, <1>7, <2>1, <2>2, <3>1
  <2>3. CASE s \notin P
    <3>1. sState'[s] = sState[s]
      BY <1>1, <2>1, <2>3
    <3>2. mirror'[b][s] = mirror[b][s]
      BY <1>7, <1>8, <2>1, <2>3
    <3>3. mirror[b][s] = sState[s]
      BY <2>1, <3>1 DEF MemdbInv, MirrorAgrees, Stored, GetAgentById, GetSessionById
    <3> QED
      BY <3>1, <3>2, <3>3
  <2> QED
    BY <2>2, <2>3
<1>17. StuckOverMissingRows'
  <2> SUFFICES ASSUME wipers = {}, NEW b \in Agent, Present(b)', NEW s \in Ids(b)'
               PROVE  Stored(s)'
    BY <1>1 DEF StuckOverMissingRows
  <2>1. s \in Ids(b) /\ s \in Session /\ Present(b)
    BY <1>1, <1>11, IdsHold DEF Present, MemdbInv, OwnTypes, MemdbTypeOK
  <2>2. Stored(s)
    BY <2>1 DEF MemdbInv, StuckOverMissingRows
  <2> QED
    BY <1>1, <1>2, <2>1, <2>2 DEF Stored
<1> QED
  BY <1>10, <1>12, <1>13, <1>14, <1>15, <1>16, <1>17 DEF MemdbInv

\* Where the loop of UpdateAgent stops.
LEMMA FirstBad ==
    ASSUME MemdbInv, NEW a \in Agent, NEW report \in Reports(a), Bad(a, report) # {}
    PROVE  /\ Min(Bad(a, report)) \in DOMAIN sessionIds[a]
           /\ sessionIds[a][Min(Bad(a, report))] \in Ids(a)
<1> DEFINE B == Bad(a, report)
<1>1. B \in SUBSET (DOMAIN sessionIds[a]) /\ B # {}
  BY DEF Bad
<1> HIDE DEF B
<1>2. B \in SUBSET Nat
  BY <1>1, IdsHold
<1>3. Min(B) \in B
  BY <1>1, <1>2, LeastElement DEF Min
<1>4. Min(B) \in DOMAIN sessionIds[a]
  BY <1>1, <1>3
<1> QED
  BY <1>4 DEF B, Ids, ToSet

\* The lock stays behind over a row that is not there, which a listed session's
\* is only when an agent without sessions has deleted it.
LEMMA UpdateFailsStep ==
    ASSUME MemdbInv, NEW a \in Agent, NEW report \in Reports(a), UpdateFails(a, report)
    PROVE  MemdbInv'
<1> DEFINE last == Min(Bad(a, report))
           t == sessionIds[a][last]
<1>1. /\ mirror' = MirrorUpTo(a, report, last)
      /\ writer' = LockAfter(t)
      /\ phase' = [phase EXCEPT ![a] = "down"]
      /\ aborted' = aborted \cup {a}
      /\ UNCHANGED <<aState, vram, sessionIds, sState, sAgent, pending, placing, up, ran, strangers, wipers>>
  BY DEF UpdateFails, sessionTable, backend
<1>2. Bad(a, report) # {} /\ t \in Ids(a)
  BY FirstBad DEF UpdateFails
<1> HIDE DEF last, t
<1>3. /\ mirror' \in [Agent -> [Session -> {"", "none", "assigned", "active", "closed"}]]
      /\ \A b \in Agent : b # a => mirror'[b] = mirror[b]
  <2>1. mirror \in [Agent -> [Session -> {"", "none", "assigned", "active", "closed"}]]
    BY DEF MemdbInv, OwnTypes, MemdbTypeOK
  <2>2. \A s \in Session : report[s] \in {"", "none", "assigned", "active", "closed"}
    BY DEF Reports
  <2> QED
    BY <1>1, <2>1, <2>2 DEF MirrorUpTo
<1>4. writer' \in {"free", "stuck"} /\ (writer' = "stuck" => ~Stored(t))
  BY <1>1 DEF LockAfter
<1>5. OwnTypes'
  BY <1>1, <1>3, <1>4 DEF MemdbInv, OwnTypes, MemdbTypeOK
<1>6. ListedOnce' /\ RunInv' /\ VramConserved' /\ PlacingInv'
  BY <1>1 DEF MemdbInv, ListedOnce, RunInv, VramConserved, PlacingInv, Ids
<1>7. MirrorAgrees'
  <2> SUFFICES ASSUME NEW b \in Agent \ aborted', NEW s \in Ids(b)', Stored(s)'
               PROVE  mirror'[b][s] = sState'[s]
    BY DEF MirrorAgrees, GetAgentById, GetSessionById
  <2>1. b \in Agent \ aborted /\ b # a /\ s \in Ids(b) /\ Stored(s)
    BY <1>1 DEF Ids, Stored
  <2> QED
    BY <1>1, <1>3, <2>1 DEF MemdbInv, MirrorAgrees, GetAgentById, GetSessionById
<1>8. StuckOverMissingRows'
  <2>1. writer' = "stuck" => wipers # {}
    BY <1>2, <1>4 DEF MemdbInv, StuckOverMissingRows, UpdateFails
  <2> QED
    BY <1>1, <2>1 DEF MemdbInv, StuckOverMissingRows, Ids, Stored, Present
<1> QED
  BY <1>5, <1>6, <1>7, <1>8 DEF MemdbInv

LEMMA GhostReportsStep ==
    ASSUME MemdbInv, NEW a \in Agent, GhostReports(a)
    PROVE  MemdbInv'
<1>1. /\ writer' = "stuck" /\ strangers' = strangers \cup {a}
      /\ phase' = [phase EXCEPT ![a] = "down"]
      /\ UNCHANGED <<aState, vram, sessionIds, mirror, sState, sAgent, pending, placing, up, ran,
                     wipers, aborted>>
  BY DEF GhostReports, agentTable, sessionTable, backend
<1>2. OwnTypes' /\ PlacingInv'
  BY <1>1 DEF MemdbInv, OwnTypes, MemdbTypeOK, PlacingInv
<1>3. ListedOnce' /\ RunInv' /\ VramConserved' /\ MirrorAgrees'
  BY <1>1 DEF MemdbInv, ListedOnce, RunInv, VramConserved, MirrorAgrees, Ids, Stored, GetAgentById, GetSessionById
<1>4. StuckOverMissingRows'
  BY <1>1 DEF MemdbInv, StuckOverMissingRows, Ids, Stored, Present, Present
<1> QED
  BY <1>2, <1>3, <1>4 DEF MemdbInv

\* The sessions' rows may be deleted, never changed otherwise.
LEMMA AgentClosesStep ==
    ASSUME MemdbInv, NEW a \in Agent, AgentCloses(a)
    PROVE  MemdbInv'
<1>1. /\ phase' = [phase EXCEPT ![a] = "down"]
      /\ UNCHANGED <<vram, sessionIds, mirror, sAgent, writer, pending, placing, up, ran, strangers, aborted>>
  BY DEF AgentCloses, backend
<1>2. /\ sState' \in [Session -> {"none", "queued", "assigned", "active", "closed", "gone"}]
      /\ \A s \in Session : sState'[s] = sState[s] \/ (Stored(s) /\ sState'[s] = "gone")
  <2>1. sState \in [Session -> {"none", "queued", "assigned", "active", "closed", "gone"}]
    BY DEF MemdbInv, OwnTypes, MemdbTypeOK
  <2>2. \/ sState' = sState
        \/ sState' = [s \in Session |->
               IF s \in DeletedWith(a) /\ Stored(s) THEN "gone" ELSE sState[s]]
    BY DEF AgentCloses
  <2> QED
    BY <2>1, <2>2
<1>3. /\ aState' \in [Agent -> {"none", "active", "missing", "gone"}]
      /\ \A b \in Agent : aState'[b] = "none" <=> aState[b] = "none"
  <2>1. aState \in [Agent -> {"none", "active", "missing", "gone"}] /\ aState[a] # "none"
    BY DEF AgentCloses, Present, MemdbInv, OwnTypes, MemdbTypeOK
  <2>2. aState' = aState \/ aState' = [aState EXCEPT ![a] = "gone"]
    BY DEF AgentCloses
  <2> QED
    BY <2>1, <2>2
<1>4. OwnTypes'
  <2>1. wipers' \in SUBSET Agent
    BY DEF AgentCloses, MemdbInv, OwnTypes, MemdbTypeOK
  <2> QED
    BY <1>1, <1>2, <1>3, <2>1 DEF MemdbInv, OwnTypes, MemdbTypeOK
<1>5. ListedOnce' /\ RunInv'
  BY <1>1 DEF MemdbInv, ListedOnce, RunInv, Ids
<1>6. VramConserved'
  BY <1>1, <1>3 DEF MemdbInv, VramConserved, Ids
<1>7. PlacingInv'
  <2>1. placing # Nothing => placing[2] \in Agent
    BY DEF MemdbInv, OwnTypes, MemdbTypeOK
  <2> QED
    BY <1>1, <1>2, <1>3, <2>1 DEF MemdbInv, PlacingInv
<1>8. MirrorAgrees'
  <2>1. \A b \in Agent : Ids(b)' = Ids(b) /\ Ids(b) \in SUBSET Session
    BY <1>1, IdsHold DEF Ids
  <2> QED
    BY <1>1, <1>2, <2>1 DEF MemdbInv, MirrorAgrees, Stored, GetAgentById, GetSessionById
<1>9. StuckOverMissingRows'
  <2>1. wipers' = wipers \/ wipers' = wipers \cup {a}
    BY DEF AgentCloses
  <2> SUFFICES ASSUME wipers' = {}, NEW b \in Agent, Present(b)', NEW s \in Ids(b)'
               PROVE  Stored(s)'
    BY <1>1, <2>1 DEF MemdbInv, StuckOverMissingRows
  <2>2. sessionIds[a] # <<>> /\ wipers = {}
    BY <2>1 DEF AgentCloses
  <2>3. s \in Ids(b) /\ s \in Session
    BY <1>1, IdsHold DEF Ids
  <2>4. CASE UNCHANGED <<aState, sState>>
    BY <2>2, <2>3, <2>4 DEF MemdbInv, StuckOverMissingRows, Present, Stored
  <2>5. CASE /\ sState' = [t \in Session |->
                   IF t \in Ids(a) /\ Stored(t) THEN "gone" ELSE sState[t]]
             /\ aState' = [aState EXCEPT ![a] = "gone"]
    <3>1. b # a /\ Present(b)
      BY <2>5 DEF Present, MemdbInv, OwnTypes, MemdbTypeOK
    <3>2. s \notin Ids(a) /\ Stored(s)
      BY <2>2, <2>3, <3>1 DEF MemdbInv, ListedOnce, StuckOverMissingRows
    <3> QED
      BY <2>3, <2>5, <3>2 DEF Stored
  <2> QED
    BY <2>2, <2>4, <2>5 DEF AgentCloses, DeletedWith
<1> QED
  BY <1>4, <1>5, <1>6, <1>7, <1>8, <1>9 DEF MemdbInv

LEMMA AgentCrashStep ==
    ASSUME MemdbInv, NEW a \in Agent, AgentCrash(a)
    PROVE  MemdbInv'
<1>1. /\ phase' = [phase EXCEPT ![a] = "down"]
      /\ UNCHANGED <<aState, vram, sessionIds, mirror, sState, sAgent, writer, pending, placing, up,
                     ran, strangers, wipers, aborted>>
  BY DEF AgentCrash, agentTable, sessionTable, backend, history
<1>2. OwnTypes' /\ PlacingInv'
  BY <1>1 DEF MemdbInv, OwnTypes, MemdbTypeOK, PlacingInv
<1>3. /\ ListedOnce' /\ RunInv' /\ VramConserved' /\ MirrorAgrees'
      /\ StuckOverMissingRows'
  BY <1>1 DEF MemdbInv, ListedOnce, RunInv, VramConserved, MirrorAgrees, StuckOverMissingRows, Ids, Stored, Present,
              GetAgentById, GetSessionById
<1> QED
  BY <1>2, <1>3 DEF MemdbInv

----------------------------------------------------------------------------
(* The backend.                                                            *)

\* A step of the backend between two transactions only moves the sessions it
\* has listed and its choice.
LEMMA BackendMoves ==
    ASSUME MemdbInv,
           UNCHANGED <<aState, vram, sessionIds, mirror, sState, sAgent, writer, up, phase, ran, strangers, wipers, aborted>>,
           pending' \subseteq Session,
           placing' \in {Nothing} \cup (Session \X Agent),
           \A s \in pending' : sAgent[s] = NoAgent,
           placing' # Nothing =>
               /\ placing'[1] \notin pending'
               /\ sAgent[placing'[1]] = NoAgent
               /\ aState[placing'[2]] # "none"
               /\ VramRequired[placing'[1]] <= vram[placing'[2]]
    PROVE  MemdbInv'
<1>1. OwnTypes' /\ PlacingInv'
  BY DEF MemdbInv, OwnTypes, MemdbTypeOK, PlacingInv
<1>2. /\ ListedOnce' /\ RunInv' /\ VramConserved' /\ MirrorAgrees'
      /\ StuckOverMissingRows'
  BY DEF MemdbInv, ListedOnce, RunInv, VramConserved, MirrorAgrees, StuckOverMissingRows, Ids, Stored, Present,
         GetAgentById, GetSessionById
<1> QED
  BY <1>1, <1>2 DEF MemdbInv

LEMMA BackendListsStep ==
    ASSUME MemdbInv, BackendLists
    PROVE  MemdbInv'
<1>1. /\ placing = Nothing /\ pending' = Queued
      /\ UNCHANGED <<aState, vram, sessionIds, mirror, sState, sAgent, writer, placing, up, phase, ran,
                     strangers, wipers, aborted>>
  BY DEF BackendLists, PassOver, agentTable, sessionTable, agents, history
<1>2. /\ pending' \subseteq Session
      /\ \A s \in pending' : sAgent[s] = NoAgent
  BY <1>1 DEF Queued, MemdbInv, PlacingInv
<1>3. placing' = Nothing /\ placing' \in {Nothing} \cup (Session \X Agent)
  BY <1>1
<1> QED
  BY <1>1, <1>2, <1>3, BackendMoves

LEMMA BackendPassesOverStep ==
    ASSUME MemdbInv, NEW s \in Session, BackendPassesOver(s)
    PROVE  MemdbInv'
<1>1. /\ placing = Nothing /\ pending' = pending \ {s}
      /\ UNCHANGED <<aState, vram, sessionIds, mirror, sState, sAgent, writer, placing, up, phase, ran,
                     strangers, wipers, aborted>>
  BY DEF BackendPassesOver, agentTable, sessionTable, agents, history
<1>2. /\ pending' \subseteq Session
      /\ \A t \in pending' : sAgent[t] = NoAgent
  BY <1>1 DEF MemdbInv, PlacingInv, OwnTypes, MemdbTypeOK
<1>3. placing' = Nothing /\ placing' \in {Nothing} \cup (Session \X Agent)
  BY <1>1
<1> QED
  BY <1>1, <1>2, <1>3, BackendMoves

LEMMA BackendChoosesStep ==
    ASSUME MemdbInv, NEW s \in Session, NEW a \in Agent, BackendChooses(s, a)
    PROVE  MemdbInv'
<1>1. /\ s \in pending /\ pending' = pending \ {s} /\ placing' = <<s, a>>
      /\ a \in Available(VramRequired[s])
      /\ UNCHANGED <<aState, vram, sessionIds, mirror, sState, sAgent, writer, up, phase, ran,
                     strangers, wipers, aborted>>
  BY DEF BackendChooses, agentTable, sessionTable, agents, history
<1>2. aState[a] = "active" /\ VramRequired[s] <= vram[a]
  <2>1. vram[a] >= VramRequired[s] /\ vram[a] \in Nat /\ VramRequired[s] \in Nat
    BY <1>1, MemdbAssumption DEF Available, MemdbInv, OwnTypes, MemdbTypeOK
  <2> QED
    BY <1>1, <2>1 DEF Available
<1>3. /\ pending' \subseteq Session
      /\ \A t \in pending' : sAgent[t] = NoAgent
      /\ sAgent[s] = NoAgent
  BY <1>1 DEF MemdbInv, PlacingInv, OwnTypes, MemdbTypeOK
<1>4. placing'[1] = s /\ placing'[2] = a /\ placing' \in {Nothing} \cup (Session \X Agent)
  BY <1>1
<1> QED
  BY <1>1, <1>2, <1>3, <1>4, BackendMoves

\* The placement: the session joins one row, and leaves it the VRAM that the
\* choice has seen.
LEMMA AssignSessionStep ==
    ASSUME MemdbInv, NEW s \in Session, NEW a \in Agent,
           placing = <<s, a>>, placing # Nothing, Stored(s), AssignSession(s, a),
           placing' = Nothing, UNCHANGED <<writer, pending, phase, ran, strangers, wipers, aborted>>
    PROVE  MemdbInv'
<1>1. /\ sState' = [sState EXCEPT ![s] = "assigned"]
      /\ sAgent' = [sAgent EXCEPT ![s] = a]
      /\ sessionIds' = [sessionIds EXCEPT ![a] = Append(sessionIds[a], s)]
      /\ mirror' = [mirror EXCEPT ![a][s] = "assigned"]
      /\ vram' = [vram EXCEPT ![a] = vram[a] - VramRequired[s]]
      /\ UNCHANGED <<aState, up>>
  BY DEF AssignSession
<1>2. /\ s \notin pending /\ sAgent[s] = NoAgent /\ aState[a] # "none"
      /\ VramRequired[s] <= vram[a] /\ VramRequired[s] \in Nat
  <2>1. placing[1] = s /\ placing[2] = a
    OBVIOUS
  <2> QED
    BY <2>1, MemdbAssumption DEF MemdbInv, PlacingInv
<1>3. \A b \in Agent : s \notin Ids(b)
  BY <1>2, MemdbAssumption DEF MemdbInv, ListedOnce
<1>4. /\ sessionIds' \in [Agent -> Seq(Session)]
      /\ Ids(a)' = Ids(a) \cup {s}
      /\ IsInjective(sessionIds[a])'
      /\ \A b \in Agent : b # a => sessionIds'[b] = sessionIds[b] /\ Ids(b)' = Ids(b)
  <2> DEFINE q == sessionIds[a]
  <2>1. q \in Seq(Session) /\ s \notin ToSet(q) /\ IsInjective(q)
    BY <1>3, IdsHold DEF Ids, MemdbInv, ListedOnce
  <2> HIDE DEF q
  <2>2. /\ Append(q, s) \in Seq(Session)
        /\ ToSet(Append(q, s)) = ToSet(q) \cup {s}
        /\ IsInjective(Append(q, s))
    BY <2>1, AppendOne
  <2>3. sessionIds' = [sessionIds EXCEPT ![a] = Append(q, s)] /\ sessionIds \in [Agent -> Seq(Session)]
    BY <1>1 DEF MemdbInv, OwnTypes, q
  <2>4. sessionIds'[a] = Append(q, s)
    BY <2>3
  <2> QED
    BY <2>2, <2>3, <2>4 DEF Ids, q
<1>5. /\ vram \in [Agent -> Nat] /\ vram' \in [Agent -> Nat]
      /\ \A b \in Agent : vram'[b] = IF b = a THEN vram[a] - VramRequired[s] ELSE vram[b]
  <2>1. vram \in [Agent -> Nat]
    BY DEF MemdbInv, OwnTypes, MemdbTypeOK
  <2>2. vram[a] - VramRequired[s] \in Nat
    BY <1>2, <2>1
  <2> QED
    BY <1>1, <2>1, <2>2
<1>6. /\ mirror' \in [Agent -> [Session -> {"", "none", "assigned", "active", "closed"}]]
      /\ \A b \in Agent, t \in Session :
            mirror'[b][t] = IF b = a /\ t = s THEN "assigned" ELSE mirror[b][t]
  BY <1>1 DEF MemdbInv, OwnTypes, MemdbTypeOK
<1>7. /\ sAgent' \in [Session -> Agent \cup {NoAgent}]
      /\ sState' \in [Session -> {"none", "queued", "assigned", "active", "closed", "gone"}]
      /\ \A t \in Session : t # s => sAgent'[t] = sAgent[t] /\ sState'[t] = sState[t]
      /\ sAgent'[s] = a /\ sState'[s] = "assigned"
  BY <1>1 DEF MemdbInv, OwnTypes, MemdbTypeOK
<1>8. OwnTypes'
  BY <1>1, <1>4, <1>5, <1>6, <1>7 DEF MemdbInv, OwnTypes, MemdbTypeOK
<1>9. ListedOnce'
  <2> SUFFICES ASSUME NEW b \in Agent
               PROVE  /\ IsInjective(sessionIds[b])'
                      /\ \A t \in Ids(b)' : sAgent'[t] = b
    BY DEF ListedOnce
  <2>1. IsInjective(sessionIds[b])'
    BY <1>4 DEF MemdbInv, ListedOnce
  <2>2. ASSUME NEW t \in Ids(b)' PROVE sAgent'[t] = b
    <3>1. t \in Session /\ (t = s => b = a) /\ (t # s => t \in Ids(b))
      BY <1>3, <1>4, <2>2, IdsHold
    <3> QED
      BY <1>7, <3>1 DEF MemdbInv, ListedOnce
  <2> QED
    BY <2>1, <2>2
<1>10. PlacingInv'
  <2>1. \A b \in Agent : aState'[b] = "none" => b # a /\ sessionIds'[b] = <<>>
    BY <1>1, <1>2, <1>4 DEF MemdbInv, PlacingInv
  <2>2. \A t \in pending : t # s /\ sAgent'[t] = NoAgent
    BY <1>2, <1>7 DEF MemdbInv, PlacingInv, OwnTypes, MemdbTypeOK
  <2>3. \A t \in Session : sAgent'[t] # NoAgent => sState'[t] \notin {"none", "queued"}
    BY <1>7 DEF MemdbInv, PlacingInv
  <2> QED
    BY <2>1, <2>2, <2>3 DEF PlacingInv
<1>11. RunInv'
  <2>1. \A b \in Agent : ran[b][s] = "no"
    BY <1>2, MemdbAssumption DEF MemdbInv, RunInv
  <2> QED
    BY <1>4, <1>7, <2>1 DEF MemdbInv, RunInv
<1>12. VramConserved'
  <2> SUFFICES ASSUME NEW b \in Agent, aState'[b] # "none"
               PROVE  vram'[b] + VramOf(Ids(b)') = AgentVram[b]
    BY DEF VramConserved
  <2>1. vram[b] + VramOf(Ids(b)) = AgentVram[b] /\ VramOf(Ids(b)) \in Nat /\ vram[b] \in Nat
    BY <1>1, <1>5, IdsHold DEF MemdbInv, VramConserved
  <2>2. CASE b = a
    <3>1. VramOf(Ids(a) \cup {s}) = VramRequired[s] + VramOf(Ids(a))
      <4> DEFINE S == Ids(a) \cup {s}
      <4>1. S \in SUBSET Session /\ IsFiniteSet(S) /\ s \in S
        BY IdsHold, FS_AddElement
      <4>2. S \ {s} = Ids(a)
        BY <1>3
      <4> HIDE DEF S
      <4>3. VramOf(S) = VramRequired[s] + VramOf(S \ {s})
        BY <4>1, VramOfRemove
      <4> QED
        BY <4>2, <4>3 DEF S
    <3>2. VramOf(Ids(b)') = VramRequired[s] + VramOf(Ids(b)) /\ vram'[b] = vram[b] - VramRequired[s]
      BY <1>4, <1>5, <2>2, <3>1
    <3> QED
      BY <1>2, <2>1, <3>2
  <2>3. CASE b # a
    BY <1>4, <1>5, <2>1, <2>3
  <2> QED
    BY <2>2, <2>3
<1>13. MirrorAgrees'
  <2> SUFFICES ASSUME NEW b \in Agent \ aborted, NEW t \in Ids(b)', Stored(t)'
               PROVE  mirror'[b][t] = sState'[t]
    BY DEF MirrorAgrees, GetAgentById, GetSessionById
  <2>1. t \in Session /\ (t = s => b = a) /\ (t # s => t \in Ids(b))
    BY <1>3, <1>4, IdsHold
  <2>2. CASE t = s
    BY <1>6, <1>7, <2>1, <2>2
  <2>3. CASE t # s
    <3>1. sState'[t] = sState[t] /\ mirror'[b][t] = mirror[b][t]
      BY <1>6, <1>7, <2>1, <2>3
    <3> QED
      BY <2>1, <2>3, <3>1 DEF MemdbInv, MirrorAgrees, Stored, GetAgentById, GetSessionById
  <2> QED
    BY <2>2, <2>3
<1>14. StuckOverMissingRows'
  <2> SUFFICES ASSUME wipers = {}, NEW b \in Agent, Present(b), NEW t \in Ids(b)'
               PROVE  Stored(t)'
    BY <1>1 DEF MemdbInv, StuckOverMissingRows, Present
  <2>1. t \in Session /\ (t # s => t \in Ids(b))
    BY <1>3, <1>4, IdsHold
  <2>2. CASE t = s
    BY <1>7, <2>2 DEF Stored
  <2>3. CASE t # s
    BY <1>7, <2>1, <2>3 DEF MemdbInv, StuckOverMissingRows, Stored
  <2> QED
    BY <2>2, <2>3
<1> QED
  BY <1>8, <1>9, <1>10, <1>11, <1>12, <1>13, <1>14 DEF MemdbInv

LEMMA BackendAssignsStep ==
    ASSUME MemdbInv, BackendAssigns
    PROVE  MemdbInv'
<1>1. placing # Nothing /\ placing' = Nothing /\ UNCHANGED <<writer, pending, phase, ran, strangers, wipers, aborted>>
  BY DEF BackendAssigns, agents, history
<1>2. PICK s \in Session, a \in Agent : placing = <<s, a>>
  <2>1. placing \in Session \X Agent
    BY <1>1 DEF MemdbInv, OwnTypes, MemdbTypeOK
  <2> QED
    BY <2>1
<1>3. placing[1] = s /\ placing[2] = a
  BY <1>2
<1>4. CASE Stored(s) /\ Present(a)
  <2>1. AssignSession(s, a)
    BY <1>3, <1>4 DEF BackendAssigns
  <2> QED
    BY <1>1, <1>2, <1>4, <2>1, AssignSessionStep
<1>5. CASE ~(Stored(s) /\ Present(a))
  <2>1. up' = FALSE /\ UNCHANGED <<aState, vram, sessionIds, mirror, sState, sAgent>>
    BY <1>3, <1>5 DEF BackendAssigns, agentTable, sessionTable
  <2>2. up' \in BOOLEAN
    BY <2>1, Zenon
  <2>3. OwnTypes' /\ PlacingInv'
    BY <1>1, <2>1, <2>2 DEF MemdbInv, OwnTypes, MemdbTypeOK, PlacingInv
  <2>4. /\ ListedOnce' /\ RunInv' /\ VramConserved' /\ MirrorAgrees'
        /\ StuckOverMissingRows'
    BY <1>1, <2>1 DEF MemdbInv, ListedOnce, RunInv, VramConserved, MirrorAgrees, StuckOverMissingRows, Ids,
                      Stored, Present, GetAgentById, GetSessionById
  <2> QED
    BY <2>3, <2>4 DEF MemdbInv
<1> QED
  BY <1>4, <1>5

\* Agents become missing, and missing ones go; their sessions stay.
LEMMA AgentsExpireStep ==
    ASSUME MemdbInv, SetAgentsMissing \/ RemoveMissingAgents
    PROVE  MemdbInv'
<1>1. /\ placing = Nothing
      /\ UNCHANGED <<vram, sessionIds, mirror, sState, sAgent, writer, pending, placing, phase, ran,
                     strangers, wipers, aborted>>
  BY DEF SetAgentsMissing, RemoveMissingAgents, PassOver, sessionTable, backend, agents, history
<1>2. up' \in BOOLEAN
  <2>1. up \in BOOLEAN
    BY Zenon DEF MemdbInv, OwnTypes, MemdbTypeOK
  <2>2. up' = up \/ up' = FALSE
    BY Zenon DEF SetAgentsMissing, RemoveMissingAgents, backend
  <2> QED
    BY <2>1, <2>2, Zenon
<1>3. /\ aState' \in [Agent -> {"none", "active", "missing", "gone"}]
      /\ \A b \in Agent : aState'[b] = "none" <=> aState[b] = "none"
      /\ \A b \in Agent : Present(b)' => Present(b)
  <2>1. aState \in [Agent -> {"none", "active", "missing", "gone"}]
    BY DEF MemdbInv, OwnTypes, MemdbTypeOK
  <2>2. CASE SetAgentsMissing
    <3>1. PICK silent : aState' = [b \in Agent |->
             IF b \in silent /\ aState[b] = "active" THEN "missing" ELSE aState[b]]
      BY <2>2 DEF SetAgentsMissing
    <3> QED
      BY <2>1, <3>1 DEF Present
  <2>3. CASE RemoveMissingAgents
    <3>1. PICK overdue \in SUBSET {b \in Agent : aState[b] = "missing"} :
             aState' = [b \in Agent |-> IF overdue = {b} THEN "gone" ELSE aState[b]]
      BY <2>3, Zenon DEF RemoveMissingAgents
    <3>2. \A b \in Agent : overdue = {b} => aState[b] = "missing"
      BY <3>1
    <3> QED
      BY <2>1, <3>1, <3>2 DEF Present
  <2> QED
    BY <2>2, <2>3
<1>4. OwnTypes'
  BY <1>1, <1>2, <1>3 DEF MemdbInv, OwnTypes, MemdbTypeOK
<1>5. ListedOnce' /\ RunInv' /\ MirrorAgrees'
  BY <1>1 DEF MemdbInv, ListedOnce, RunInv, MirrorAgrees, Ids, Stored, GetAgentById, GetSessionById
<1>6. StuckOverMissingRows'
  BY <1>1, <1>3 DEF MemdbInv, StuckOverMissingRows, Ids, Stored
<1>7. VramConserved'
  BY <1>1, <1>3 DEF MemdbInv, VramConserved, Ids
<1>8. PlacingInv'
  BY <1>1, <1>3 DEF MemdbInv, PlacingInv
<1> QED
  BY <1>4, <1>5, <1>6, <1>7, <1>8 DEF MemdbInv

----------------------------------------------------------------------------

LEMMA MemdbInit == Init => MemdbInv
<1> SUFFICES ASSUME Init PROVE MemdbInv
  OBVIOUS
<1>1. \A a \in Agent : sessionIds[a] = <<>> /\ Ids(a) = {}
  BY DEF Init, Ids, ToSet
<1>2. up \in BOOLEAN
  BY Zenon DEF Init
<1>3. OwnTypes
  BY <1>2 DEF Init, OwnTypes, MemdbTypeOK
<1>4. PlacingInv /\ RunInv /\ MirrorAgrees /\ StuckOverMissingRows
  BY <1>1 DEF Init, PlacingInv, RunInv, MirrorAgrees, StuckOverMissingRows
<1>5. ListedOnce
  BY <1>1 DEF ListedOnce, IsInjective
<1>6. VramConserved
  BY DEF Init, VramConserved
<1> QED
  BY <1>3, <1>4, <1>5, <1>6 DEF MemdbInv

LEMMA MemdbStutter ==
    ASSUME MemdbInv, UNCHANGED vars
    PROVE  MemdbInv'
<1>1. UNCHANGED <<aState, vram, sessionIds, mirror, sState, sAgent, writer, pending, placing, up,
                  phase, ran, strangers, wipers, aborted>>
  BY DEF vars, agentTable, sessionTable, backend, agents, history
<1>2. OwnTypes' /\ PlacingInv'
  BY <1>1 DEF MemdbInv, OwnTypes, MemdbTypeOK, PlacingInv
<1>3. /\ ListedOnce' /\ RunInv' /\ VramConserved' /\ MirrorAgrees'
      /\ StuckOverMissingRows'
  BY <1>1 DEF MemdbInv, ListedOnce, RunInv, VramConserved, MirrorAgrees, StuckOverMissingRows, Ids, Stored, Present,
              GetAgentById, GetSessionById
<1> QED
  BY <1>2, <1>3 DEF MemdbInv

LEMMA MemdbStep ==
    ASSUME MemdbInv, [Next]_vars
    PROVE  MemdbInv'
<1>1. ASSUME NEW s \in Session, RequestSession(s) \/ CancelSession(s) PROVE MemdbInv'
  BY <1>1, RequestSessionStep, CancelSessionStep
<1>2. ASSUME NEW a \in Agent,
             \/ RegisterAgent(a) \/ AgentPoll(a) \/ GhostReports(a) \/ AgentCloses(a) \/ AgentCrash(a)
             \/ \E report \in Reports(a) : UpdateCommits(a, report) \/ UpdateFails(a, report)
      PROVE  MemdbInv'
  BY <1>2, RegisterAgentStep, AgentPollStep, GhostReportsStep, AgentClosesStep, AgentCrashStep,
     UpdateCommitsStep, UpdateFailsStep
<1>3. CASE BackendLists \/ BackendAssigns \/ SetAgentsMissing \/ RemoveMissingAgents
  BY <1>3, BackendListsStep, BackendAssignsStep, AgentsExpireStep
<1>4. ASSUME NEW s \in Session, BackendPassesOver(s) \/ \E a \in Agent : BackendChooses(s, a)
      PROVE  MemdbInv'
  BY <1>4, BackendPassesOverStep, BackendChoosesStep
<1>5. CASE UNCHANGED vars
  BY <1>5, MemdbStutter
<1> QED
  BY <1>1, <1>2, <1>3, <1>4, <1>5 DEF Next

\* What the in-memory driver promises, through every abort and panic and for
\* any number of agents and sessions.
LEMMA MemdbInvariant == Spec => []MemdbInv
  BY MemdbInit, MemdbStep, PTL DEF Spec

\* The tables keep their types; in particular the uint64 VramAvailable of an
\* agent is never drawn below zero (AssignSession does not look).
THEOREM MemdbTypeCorrect == Spec => []MemdbTypeOK
<1>1. MemdbInv => MemdbTypeOK
  BY DEF MemdbInv, OwnTypes
<1> QED
  BY <1>1, MemdbInvariant, PTL

\* No VRAM is lost or made up, whatever aborts: what an agent has left and what
\* its sessions take up is what it registered with.
THEOREM VramConservedHolds == Spec => []VramConserved
<1>1. MemdbInv => VramConserved
  BY DEF MemdbInv
<1> QED
  BY <1>1, MemdbInvariant, PTL

\* The two queries agree on a session unless an update of its agent was aborted.
THEOREM MirrorAgreesHolds == Spec => []MirrorAgrees
<1>1. MemdbInv => MirrorAgrees
  BY DEF MemdbInv
<1> QED
  BY <1>1, MemdbInvariant, PTL

\* The writer lock is left behind only over a row that is not there, which a
\* session of an agent that is can only be after an agent without sessions has
\* closed.
THEOREM StuckOverMissingRowsHolds == Spec => []StuckOverMissingRows
<1>1. MemdbInv => StuckOverMissingRows
  BY DEF MemdbInv
<1> QED
  BY <1>1, MemdbInvariant, PTL

----------------------------------------------------------------------------
(* The refinement of SessionLife.                                          *)

\* What a step does to the row of a session, and to what its agents make of it.
RowMoves(s) ==
    \/ sState'[s] = sState[s]
    \/ sState[s] = "none" /\ sState'[s] = "queued"
    \/ Stored(s) /\ sState'[s] = "gone"
    \/ Stored(s) /\ sAgent[s] # NoAgent /\ sState'[s] \in {"active", "closed"}

RunMoves(a, s) ==
    \/ ran'[a][s] = ran[a][s]
    \/ ran[a][s] # "over" /\ ran'[a][s] = "running"
    \/ ran[a][s] \in {"running", "reported"} /\ ran'[a][s] \in {"reported", "over"}

Placed(s) ==
    /\ sAgent[s] = NoAgent /\ sAgent'[s] \in Agent
    /\ Stored(s) /\ sState'[s] = "assigned"
    /\ UNCHANGED ran

SessionMoves(s) ==
    \/ Placed(s)
    \/ sAgent'[s] = sAgent[s] /\ RowMoves(s) /\ \A a \in Agent : RunMoves(a, s)

LEMMA NothingMoves ==
    ASSUME UNCHANGED <<sState, sAgent, ran>>
    PROVE  \A s \in Session : SessionMoves(s)
  BY DEF SessionMoves, RowMoves, RunMoves

LEMMA RequestMoves ==
    ASSUME MemdbInv, NEW t \in Session, RequestSession(t)
    PROVE  \A s \in Session : SessionMoves(s)
<1>1. sState[t] = "none" /\ sState' = [sState EXCEPT ![t] = "queued"] /\ UNCHANGED <<sAgent, ran>>
  BY DEF RequestSession, agents
<1> QED
  BY <1>1 DEF SessionMoves, RowMoves, RunMoves, MemdbInv, OwnTypes, MemdbTypeOK

LEMMA PollMoves ==
    ASSUME MemdbInv, NEW a \in Agent, AgentPoll(a)
    PROVE  \A s \in Session : SessionMoves(s)
<1>1. /\ ran' = [ran EXCEPT ![a] = [s \in Session |->
                    IF Present(a) /\ s \in Ids(a) /\ GetAgentById(a)[s] = "assigned"
                    THEN "running" ELSE ran[a][s]]]
      /\ UNCHANGED <<sState, sAgent>>
  BY DEF AgentPoll, sessionTable
<1>2. ran \in [Agent -> [Session -> {"no", "running", "reported", "over"}]]
  BY DEF MemdbInv, OwnTypes, MemdbTypeOK
<1>3. \A b \in Agent, s \in Session :
         \/ ran'[b][s] = ran[b][s]
         \/ b = a /\ s \in Ids(a) /\ ran'[b][s] = "running"
  BY <1>1, <1>2
<1>4. \A b \in Agent, s \in Session : RunMoves(b, s)
  BY <1>3 DEF RunMoves, MemdbInv, RunInv
<1> QED
  BY <1>1, <1>4 DEF SessionMoves, RowMoves

LEMMA CommitMoves ==
    ASSUME MemdbInv, NEW a \in Agent, NEW report \in Reports(a), UpdateCommits(a, report)
    PROVE  \A s \in Session : SessionMoves(s)
<1>1. /\ Bad(a, report) = {}
      /\ sState' = [s \in Session |-> IF s \in Reported(a, report) THEN report[s] ELSE sState[s]]
      /\ ran' = AgentMadeOf(a, report)
      /\ UNCHANGED sAgent
  BY DEF UpdateCommits
<1>2. \A s \in Reported(a, report) :
         s \in Ids(a) /\ Stored(s) /\ report[s] \in {"active", "closed"}
  BY <1>1, ReportedIsStored
<1>3. \A s \in Session : RowMoves(s)
  BY <1>1, <1>2, MemdbAssumption DEF RowMoves, MemdbInv, ListedOnce
<1>4. \A s \in Session : report[s] # "none" => ran[a][s] \in {"running", "reported"}
  BY DEF Reports
<1>5. ran \in [Agent -> [Session -> {"no", "running", "reported", "over"}]]
  BY DEF MemdbInv, OwnTypes, MemdbTypeOK
<1>6. ran' = [ran EXCEPT ![a] = [s \in Session |->
                 IF report[s] = "closed" THEN "over"
                 ELSE IF report[s] = "active" THEN "reported" ELSE ran[a][s]]]
  BY <1>1, <1>5 DEF AgentMadeOf
<1>7. \A b \in Agent, s \in Session : RunMoves(b, s)
  BY <1>4, <1>5, <1>6 DEF RunMoves
<1> QED
  BY <1>1, <1>3, <1>7 DEF SessionMoves

LEMMA CloseMoves ==
    ASSUME MemdbInv, NEW a \in Agent, AgentCloses(a)
    PROVE  \A s \in Session : SessionMoves(s)
<1>1. UNCHANGED <<sAgent, ran>>
  BY DEF AgentCloses
<1>2. \A s \in Session : sState'[s] = sState[s] \/ (Stored(s) /\ sState'[s] = "gone")
  <2>1. \/ sState' = sState
        \/ sState' = [s \in Session |->
               IF s \in DeletedWith(a) /\ Stored(s) THEN "gone" ELSE sState[s]]
    BY DEF AgentCloses
  <2> QED
    BY <2>1
<1> QED
  BY <1>1, <1>2 DEF SessionMoves, RowMoves, RunMoves

LEMMA AssignMoves ==
    ASSUME MemdbInv, BackendAssigns
    PROVE  \A s \in Session : SessionMoves(s)
<1>1. placing # Nothing /\ UNCHANGED ran
  BY DEF BackendAssigns, agents
<1>2. placing \in Session \X Agent
  BY <1>1 DEF MemdbInv, OwnTypes, MemdbTypeOK
<1> DEFINE t == placing[1]
           a == placing[2]
<1>3. t \in Session /\ a \in Agent /\ sAgent[t] = NoAgent
  BY <1>1, <1>2 DEF MemdbInv, PlacingInv
<1> HIDE DEF t, a
<1>4. CASE Stored(t) /\ Present(a)
  <2>1. sState' = [sState EXCEPT ![t] = "assigned"] /\ sAgent' = [sAgent EXCEPT ![t] = a]
    BY <1>4 DEF BackendAssigns, AssignSession, t, a
  <2>2. /\ sState'[t] = "assigned" /\ sAgent'[t] = a
        /\ \A s \in Session : s # t => sState'[s] = sState[s] /\ sAgent'[s] = sAgent[s]
    BY <1>3, <2>1 DEF MemdbInv, OwnTypes, MemdbTypeOK
  <2> QED
    BY <1>1, <1>3, <1>4, <2>2 DEF SessionMoves, Placed, RowMoves, RunMoves
<1>5. CASE ~(Stored(t) /\ Present(a))
  <2>1. UNCHANGED <<sState, sAgent>>
    BY <1>5 DEF BackendAssigns, sessionTable, t, a
  <2> QED
    BY <1>1, <2>1, NothingMoves
<1> QED
  BY <1>4, <1>5

LEMMA StepMoves ==
    ASSUME MemdbInv, [Next]_vars
    PROVE  \A s \in Session : SessionMoves(s)
<1>1. ASSUME NEW s \in Session, RequestSession(s) \/ CancelSession(s)
      PROVE  \A t \in Session : SessionMoves(t)
  <2>1. CASE RequestSession(s)
    BY <2>1, RequestMoves
  <2>2. CASE CancelSession(s)
    BY <2>2, NothingMoves DEF CancelSession, sessionTable, agents
  <2> QED
    BY <1>1, <2>1, <2>2
<1>2. ASSUME NEW a \in Agent, RegisterAgent(a) \/ GhostReports(a) \/ AgentCrash(a)
      PROVE  \A t \in Session : SessionMoves(t)
  <2>1. UNCHANGED <<sState, sAgent, ran>>
    BY <1>2 DEF RegisterAgent, GhostReports, AgentCrash, sessionTable
  <2> QED
    BY <2>1, NothingMoves
<1>3. ASSUME NEW a \in Agent, NEW report \in Reports(a), UpdateFails(a, report)
      PROVE  \A t \in Session : SessionMoves(t)
  BY <1>3, NothingMoves DEF UpdateFails, sessionTable
<1>4. ASSUME NEW a \in Agent,
             \/ RegisterAgent(a) \/ AgentPoll(a) \/ GhostReports(a) \/ AgentCloses(a) \/ AgentCrash(a)
             \/ \E report \in Reports(a) : UpdateCommits(a, report) \/ UpdateFails(a, report)
      PROVE  \A t \in Session : SessionMoves(t)
  BY <1>2, <1>3, <1>4, PollMoves, CloseMoves, CommitMoves
<1>5. CASE BackendLists \/ SetAgentsMissing \/ RemoveMissingAgents
  <2>1. UNCHANGED <<sState, sAgent, ran>>
    BY <1>5 DEF BackendLists, SetAgentsMissing, RemoveMissingAgents, sessionTable, agents
  <2> QED
    BY <2>1, NothingMoves
<1>6. ASSUME NEW s \in Session, BackendPassesOver(s) \/ \E a \in Agent : BackendChooses(s, a)
      PROVE  \A t \in Session : SessionMoves(t)
  <2>1. UNCHANGED <<sState, sAgent, ran>>
    BY <1>6 DEF BackendPassesOver, BackendChooses, sessionTable, agents
  <2> QED
    BY <2>1, NothingMoves
<1>7. CASE UNCHANGED vars
  <2>1. UNCHANGED <<sState, sAgent, ran>>
    BY <1>7 DEF vars, sessionTable, agents
  <2> QED
    BY <2>1, NothingMoves
<1> QED
  BY <1>1, <1>4, <1>5, <1>6, <1>7, AssignMoves DEF Next

LEMMA LifeMoves ==
    ASSUME MemdbInv, MemdbInv', NEW s \in Session, SessionMoves(s)
    PROVE  \/ LifeOf(s)' = LifeOf(s) /\ sAgent'[s] = sAgent[s]
           \/ LifeOf(s) = "unknown" /\ LifeOf(s)' = "waiting" /\ sAgent'[s] = sAgent[s]
           \/ LifeOf(s) = "waiting" /\ LifeOf(s)' = "placed" /\ sAgent'[s] \in Agent
           \/ LifeOf(s) = "waiting" /\ LifeOf(s)' = "dropped" /\ sAgent'[s] = sAgent[s]
           \/ LifeOf(s) = "placed" /\ LifeOf(s)' \in {"running", "over"} /\ sAgent'[s] = sAgent[s]
           \/ LifeOf(s) = "running" /\ LifeOf(s)' = "over" /\ sAgent'[s] = sAgent[s]
<1> USE MemdbAssumption
<1>1. /\ sAgent[s] \in Agent \cup {NoAgent} /\ sAgent'[s] \in Agent \cup {NoAgent}
      /\ \A a \in Agent : ran[a][s] \in {"no", "running", "reported", "over"}
      /\ sAgent[s] # NoAgent => sState[s] # "none"
      /\ sAgent'[s] # NoAgent => sState'[s] # "none"
      /\ \A a \in Agent : ran[a][s] # "no" => sAgent[s] = a
  <2>1. /\ sAgent \in [Session -> Agent \cup {NoAgent}]
        /\ sAgent' \in [Session -> Agent \cup {NoAgent}]
        /\ ran \in [Agent -> [Session -> {"no", "running", "reported", "over"}]]
    BY DEF MemdbInv, OwnTypes, MemdbTypeOK
  <2>2. /\ sAgent[s] # NoAgent => sState[s] # "none"
        /\ sAgent'[s] # NoAgent => sState'[s] # "none"
    BY DEF MemdbInv, PlacingInv
  <2>3. \A a \in Agent : ran[a][s] # "no" => sAgent[s] = a
    BY DEF MemdbInv, RunInv
  <2> QED
    BY <2>1, <2>2, <2>3
<1>2. CASE Placed(s)
  BY <1>1, <1>2 DEF Placed, LifeOf, Progress, Stored
<1>3. CASE sAgent'[s] = sAgent[s] /\ RowMoves(s) /\ \A a \in Agent : RunMoves(a, s)
  <2>1. CASE sAgent[s] = NoAgent
    BY <1>3, <2>1 DEF RowMoves, LifeOf, Stored
  <2>2. CASE sAgent[s] # NoAgent
    <3> DEFINE a == sAgent[s]
    <3>1. LifeOf(s) = Progress(ran[a][s]) /\ LifeOf(s)' = Progress(ran'[a][s])
      BY <1>1, <1>3, <2>2 DEF LifeOf, Progress
    <3>2. RunMoves(a, s) /\ ran[a][s] \in {"no", "running", "reported", "over"}
      BY <1>1, <1>3, <2>2
    <3> HIDE DEF a
    <3> QED
      BY <1>3, <3>1, <3>2 DEF RunMoves, Progress
  <2> QED
    BY <2>1, <2>2
<1> QED
  BY <1>2, <1>3 DEF SessionMoves

LEMMA LifeStep ==
    ASSUME MemdbInv, [Next]_vars
    PROVE  [Life!Next]_(Life!lifeVars)
<1> SUFFICES ASSUME NEW s \in Session
             PROVE  \/ Life!Request(s) \/ Life!Place(s) \/ Life!Drop(s)
                    \/ Life!Start(s) \/ Life!End(s) \/ Life!Sleep(s)
  BY DEF Life!Next
<1>1. MemdbInv' /\ SessionMoves(s)
  BY MemdbStep, StepMoves
<1>2. \/ LifeOf(s)' = LifeOf(s) /\ sAgent'[s] = sAgent[s]
      \/ LifeOf(s) = "unknown" /\ LifeOf(s)' = "waiting" /\ sAgent'[s] = sAgent[s]
      \/ LifeOf(s) = "waiting" /\ LifeOf(s)' = "placed" /\ sAgent'[s] \in Agent
      \/ LifeOf(s) = "waiting" /\ LifeOf(s)' = "dropped" /\ sAgent'[s] = sAgent[s]
      \/ LifeOf(s) = "placed" /\ LifeOf(s)' \in {"running", "over"} /\ sAgent'[s] = sAgent[s]
      \/ LifeOf(s) = "running" /\ LifeOf(s)' = "over" /\ sAgent'[s] = sAgent[s]
  BY <1>1, LifeMoves
<1> QED
  BY <1>2 DEF Life!Request, Life!Place, Life!Drop, Life!Start, Life!End, Life!Sleep, Life!Goes, Life!Stays

LEMMA LifeStarts ==
    ASSUME Init
    PROVE  Life!Init
  BY DEF Init, Life!Init, LifeOf

\* Sessions live in the in-memory driver as SessionLife promises: placed once
\* and for good, run once, or dropped for good.
THEOREM ImplementsSessionLifeHolds == Spec => ImplementsSessionLife
<1>1. MemdbInv /\ [Next]_vars => MemdbInv' /\ [Life!Next]_(Life!lifeVars)
  BY MemdbStep, LifeStep
<1> QED
  BY <1>1, MemdbInit, LifeStarts, PTL DEF Spec, ImplementsSessionLife, Life!Spec

----------------------------------------------------------------------------
(* The exporter.                                                           *)

\* The exporter reads: with it the driver takes the steps it takes without, so
\* that all of the above is true beside it too.
THEOREM ExporterOnlyReads == ExporterSpec => Spec
<1>1. ExporterInit => Init
  BY DEF ExporterInit
<1>2. [ExporterNext]_exporterVars => [Next]_vars
  BY DEF ExporterNext, Update, exporterVars
<1> QED
  BY <1>1, <1>2, PTL DEF ExporterSpec, Spec

\* Counting by label loses none of the items and counts none twice.
LEMMA CountAddsUp ==
    ASSUME NEW D, IsFiniteSet(D), NEW label, DOMAIN label = D, label = [i \in D |-> label[i]]
    PROVE  Sum(Count(label)) = Cardinality(D)
<1> DEFINE c == Count(label)
           M == {label[i] : i \in D}
           With(U) == {i \in D : label[i] \in U}
<1>1. /\ DOMAIN c = M
      /\ \A l \in M : c[l] = Cardinality({i \in D : label[i] = l})
  BY DEF Count
<1> HIDE DEF c
<1>2. IsFiniteSet(M)
  <2>1. label \in Surjection(D, M)
    BY DEF Surjection
  <2> HIDE DEF M
  <2> QED
    BY <2>1, FS_Surjection
<1>3. \A U : IsFiniteSet(With(U)) /\ Cardinality(With(U)) \in Nat
  <2> TAKE U
  <2>1. With(U) \in SUBSET D
    OBVIOUS
  <2> HIDE DEF With
  <2>2. IsFiniteSet(With(U))
    BY <2>1, FS_Subset
  <2> QED
    BY <2>2, FS_CardinalityType
<1>4. \A l \in M : c[l] = Cardinality(With({l})) /\ c[l] \in Nat
  <2> TAKE l \in M
  <2>1. {i \in D : label[i] = l} = With({l})
    OBVIOUS
  <2> HIDE DEF With, M
  <2> QED
    BY <1>1, <1>3, <2>1
<1>5. \A U, l : l \in U => Cardinality(With(U)) = Cardinality(With({l})) + Cardinality(With(U \ {l}))
  <2> TAKE U, l
  <2>1. HAVE l \in U
  <2>2. /\ With({l}) \cup With(U \ {l}) = With(U)
        /\ With({l}) \cap With(U \ {l}) = {}
    BY <2>1
  <2> HIDE DEF With
  <2>3. Cardinality(With({l}) \cup With(U \ {l})) =
           Cardinality(With({l})) + Cardinality(With(U \ {l})) - Cardinality(With({l}) \cap With(U \ {l}))
    BY <1>3, FS_Union
  <2>4. Cardinality(With({l}) \cap With(U \ {l})) = 0
    BY <2>2, FS_EmptySet
  <2>5. /\ Cardinality(With({l})) \in Nat /\ Cardinality(With(U \ {l})) \in Nat
        /\ Cardinality(With({l}) \cup With(U \ {l})) = Cardinality(With(U))
    BY <1>3, <2>2
  <2> QED
    BY <2>3, <2>4, <2>5
<1>6. With({}) = {} /\ With(M) = D
  OBVIOUS
<1> DEFINE Failing == {U \in SUBSET M : SumOver(c, U) # Cardinality(With(U))}
<1>7. Failing = {}
  <2> SUFFICES ASSUME Failing # {} PROVE FALSE
    OBVIOUS
  <2> HIDE DEF With, M
  <2>1. PICK U \in Failing : \A V \in Failing : ~(V \subseteq U /\ V # U)
    <3>1. Failing \in SUBSET (SUBSET M)
      OBVIOUS
    <3> HIDE DEF Failing
    <3> QED
      BY <1>2, <3>1, MinimalSubset
  <2>2. U \in SUBSET M /\ SumOver(c, U) # Cardinality(With(U))
    OBVIOUS
  <2>3. U # {}
    BY <1>6, <2>2, SumOverEmpty, FS_EmptySet
  <2>4. PICK l : l \in U
    BY <2>3
  <2>5. SumOver(c, U \ {l}) = Cardinality(With(U \ {l}))
    <3>1. U \ {l} \in SUBSET M /\ U \ {l} \subseteq U /\ U \ {l} # U
      BY <2>2, <2>4
    <3> QED
      BY <2>1, <3>1
  <2> HIDE DEF Failing
  <2>6. SumOver(c, U) = c[l] + SumOver(c, U \ {l})
    <3>1. IsFiniteSet(U)
      BY <1>2, <2>2, FS_Subset
    <3>2. \A z \in U : c[z] \in Nat
      BY <1>4, <2>2
    <3> QED
      BY <2>4, <3>1, <3>2, SumOverRemove
  <2> QED
    BY <1>4, <1>5, <2>2, <2>4, <2>5, <2>6
<1>8. SumOver(c, M) = Cardinality(With(M))
  BY <1>7
<1>9. Sum(c) = SumOver(c, M)
  <2> HIDE DEF M
  <2> QED
    BY <1>1 DEF Sum, SumOver
<1> QED
  BY <1>6, <1>8, <1>9 DEF c

\* The agents that have registered so far.
Known == {a \in Agent : aState[a] # "none"}

LEMMA KnownStep ==
    ASSUME MemdbInv, [Next]_vars, IsFiniteSet(Known)
    PROVE  IsFiniteSet(Known')
<1>1. ASSUME NEW b, \A a \in Agent \ {b} : aState'[a] # "none" => aState[a] # "none"
      PROVE  IsFiniteSet(Known')
  <2>1. IsFiniteSet(Known \cup {b})
    BY FS_AddElement
  <2>2. Known' \in SUBSET (Known \cup {b})
    BY <1>1 DEF Known
  <2> QED
    BY <2>1, <2>2, FS_Subset
<1>2. aState \in [Agent -> {"none", "active", "missing", "gone"}]
  BY DEF MemdbInv, OwnTypes, MemdbTypeOK
<1>3. ASSUME UNCHANGED aState PROVE IsFiniteSet(Known')
  BY <1>1, <1>3
<1>4. ASSUME NEW a \in Agent, RegisterAgent(a) PROVE IsFiniteSet(Known')
  <2>1. \A b \in Agent \ {a} : aState'[b] = aState[b]
    BY <1>2, <1>4 DEF RegisterAgent
  <2> QED
    BY <1>1, <2>1
<1>5. ASSUME NEW a \in Agent, NEW report, UpdateCommits(a, report) PROVE IsFiniteSet(Known')
  <2>1. \A b \in Agent \ {a} : aState'[b] = aState[b]
    BY <1>2, <1>5 DEF UpdateCommits
  <2> QED
    BY <1>1, <2>1
<1>6. ASSUME NEW a \in Agent, AgentCloses(a) PROVE IsFiniteSet(Known')
  <2>1. \A b \in Agent \ {a} : aState'[b] = aState[b]
    BY <1>2, <1>6 DEF AgentCloses
  <2> QED
    BY <1>1, <2>1
<1>7. CASE SetAgentsMissing
  <2>1. PICK silent : aState' = [b \in Agent |->
           IF b \in silent /\ aState[b] = "active" THEN "missing" ELSE aState[b]]
    BY <1>7 DEF SetAgentsMissing
  <2>2. \A b \in Agent : aState'[b] # "none" => aState[b] # "none"
    BY <2>1
  <2> QED
    BY <1>1, <2>2
<1>8. CASE RemoveMissingAgents
  <2>1. PICK overdue \in SUBSET {b \in Agent : aState[b] = "missing"} :
           aState' = [b \in Agent |-> IF overdue = {b} THEN "gone" ELSE aState[b]]
    BY <1>8, Zenon DEF RemoveMissingAgents
  <2>2. \A b \in Agent : overdue = {b} => aState[b] = "missing"
    BY <2>1
  <2>3. \A b \in Agent : aState'[b] # "none" => aState[b] # "none"
    BY <2>1, <2>2
  <2> QED
    BY <1>1, <2>3
<1>9. CASE BackendAssigns
  BY <1>3, <1>9 DEF BackendAssigns, AssignSession, agentTable
<1>10. ASSUME NEW s \in Session, RequestSession(s) \/ CancelSession(s) PROVE IsFiniteSet(Known')
  BY <1>3, <1>10 DEF RequestSession, CancelSession, agentTable
<1>11. ASSUME NEW a \in Agent, AgentPoll(a) \/ GhostReports(a) \/ AgentCrash(a)
       PROVE  IsFiniteSet(Known')
  BY <1>3, <1>11 DEF AgentPoll, GhostReports, AgentCrash, agentTable
<1>12. ASSUME NEW a \in Agent, NEW report, UpdateFails(a, report) PROVE IsFiniteSet(Known')
  BY <1>3, <1>12 DEF UpdateFails
<1>13. ASSUME \/ BackendLists
              \/ \E s \in Session : BackendPassesOver(s) \/ \E a \in Agent : BackendChooses(s, a)
       PROVE  IsFiniteSet(Known')
  BY <1>3, <1>13 DEF BackendLists, BackendPassesOver, BackendChooses, agentTable
<1>14. CASE UNCHANGED vars
  BY <1>3, <1>14 DEF vars, agentTable
<1> QED
  BY <1>4, <1>5, <1>6, <1>7, <1>8, <1>9, <1>10, <1>11, <1>12, <1>13, <1>14 DEF Next

\* A snapshot is finite: the agents with a row, and what their rows list.
LEMMA SnapshotIsFinite ==
    ASSUME MemdbInv, IsFiniteSet(Known)
    PROVE  IsFiniteSet(Rows) /\ IsFiniteSet(Listings)
<1>1. IsFiniteSet(Rows)
  <2>1. Rows \in SUBSET Known
    BY DEF Rows, Known, Present
  <2> QED
    BY <2>1, FS_Subset
<1> DEFINE Of(T) == {l \in Agent \X Session : l[1] \in T /\ l[2] \in Ids(l[1])}
           Failing == {T \in SUBSET Rows : ~IsFiniteSet(Of(T))}
<1>2. ASSUME NEW a \in Agent PROVE IsFiniteSet(Of({a}))
  <2> DEFINE q == sessionIds[a]
             entry == [i \in 1..Len(q) |-> <<a, q[i]>>]
  <2>1. /\ Len(q) \in Nat /\ DOMAIN q = 1..Len(q)
        /\ \A i \in 1..Len(q) : q[i] \in Session
    <3>1. q \in Seq(Session) /\ Len(q) \in Nat /\ DOMAIN q = 1..Len(q)
      BY IdsHold
    <3> HIDE DEF q
    <3> QED
      BY <3>1, LenProperties
  <2>2. Ids(a) = {q[i] : i \in 1..Len(q)}
    BY <2>1 DEF Ids, ToSet
  <2> HIDE DEF q
  <2>3. entry \in Surjection(1..Len(q), Of({a}))
    <3>1. ASSUME NEW i \in 1..Len(q) PROVE entry[i] \in Of({a})
      BY <2>1, <2>2
    <3>2. ASSUME NEW l \in Of({a}) PROVE \E i \in 1..Len(q) : entry[i] = l
      <4>1. PICK i \in 1..Len(q) : l[2] = q[i]
        BY <2>2
      <4>2. l = <<a, q[i]>>
        BY <4>1
      <4> QED
        BY <4>2
    <3> HIDE DEF Of
    <3> QED
      BY <3>1, <3>2 DEF Surjection
  <2>4. IsFiniteSet(1..Len(q))
    BY <2>1, FS_Interval
  <2> HIDE DEF Of, entry
  <2> QED
    BY <2>3, <2>4, FS_Surjection
<1>3. \A T, a : a \in T => Of(T) = Of({a}) \cup Of(T \ {a})
  OBVIOUS
<1>4. Of({}) = {} /\ Of(Rows) = Listings
  BY DEF Listings, Rows
<1> HIDE DEF Of
<1>5. Failing = {}
  <2> SUFFICES ASSUME Failing # {} PROVE FALSE
    OBVIOUS
  <2>1. PICK T \in Failing : \A V \in Failing : ~(V \subseteq T /\ V # T)
    <3>1. Failing \in SUBSET (SUBSET Rows)
      OBVIOUS
    <3> HIDE DEF Failing
    <3> QED
      BY <1>1, <3>1, MinimalSubset
  <2>2. T \in SUBSET Rows /\ ~IsFiniteSet(Of(T))
    OBVIOUS
  <2>3. PICK a : a \in T
    BY <1>4, <2>2, FS_EmptySet
  <2>4. a \in Agent
    BY <2>2, <2>3 DEF Rows
  <2>5. IsFiniteSet(Of(T \ {a}))
    <3>1. T \ {a} \in SUBSET Rows /\ T \ {a} \subseteq T /\ T \ {a} # T
      BY <2>2, <2>3
    <3> QED
      BY <2>1, <3>1
  <2> HIDE DEF Failing
  <2>6. IsFiniteSet(Of({a}) \cup Of(T \ {a}))
    BY <1>2, <2>4, <2>5, FS_Union
  <2> QED
    BY <1>3, <2>2, <2>3, <2>6
<1>6. IsFiniteSet(Of(Rows))
  BY <1>5
<1> QED
  BY <1>1, <1>4, <1>6

\* Whatever was exported before, an update makes the series add up.
LEMMA UpdateAddsUp ==
    ASSUME MemdbInv, IsFiniteSet(Known), Update
    PROVE  SeriesAddUp'
<1> DEFINE byStatus == [a \in Rows |-> aState[a]]
           byGpu == [a \in Rows |-> GpuName[a]]
           byState == [l \in Listings |-> mirror[l[1]][l[2]]]
           data == AggregateData
           total(n) == [l \in {NoLabel} |-> n]
<1>1. /\ DOMAIN data = {"agents", "agentsByStatus", "sessions", "sessionsByStatus", "gpusByGpuName",
                        "vramGBAvailableByGpuName"}
      /\ data["agentsByStatus"] = Count(byStatus)
      /\ data["sessionsByStatus"] = Count(byState)
      /\ data["gpusByGpuName"] = Count(byGpu)
      /\ data["agents"] = total(Cardinality(Rows))
      /\ data["sessions"] = total(Cardinality(Listings))
      /\ data["vramGBAvailableByGpuName"] = [n \in {GpuName[a] : a \in Rows} |-> "percentiles"]
  BY DEF AggregateData
<1>2. IsFiniteSet(Rows) /\ IsFiniteSet(Listings)
  BY SnapshotIsFinite
<1>3. /\ Sum(Count(byStatus)) = Cardinality(Rows)
      /\ Sum(Count(byGpu)) = Cardinality(Rows)
      /\ Sum(Count(byState)) = Cardinality(Listings)
  <2>1. /\ DOMAIN byStatus = Rows /\ byStatus = [a \in Rows |-> byStatus[a]]
        /\ DOMAIN byGpu = Rows /\ byGpu = [a \in Rows |-> byGpu[a]]
        /\ DOMAIN byState = Listings /\ byState = [l \in Listings |-> byState[l]]
    OBVIOUS
  <2> HIDE DEF byStatus, byGpu, byState
  <2> QED
    BY <1>2, <2>1, CountAddsUp
<1>4. DOMAIN Count(byGpu) \subseteq {GpuName[a] : a \in Rows}
  BY DEF Count
<1>5. gauges' = [g \in DOMAIN data |->
                    IF g \in Reset THEN data[g] ELSE WithSet(gauges[g], data[g])]
  BY DEF Update, Series
<1> HIDE DEF data, byStatus, byGpu, byState
<1>6. /\ gauges'["agentsByStatus"] = Count(byStatus)
      /\ gauges'["sessionsByStatus"] = Count(byState)
      /\ gauges'["gpusByGpuName"] = Count(byGpu)
  BY <1>1, <1>5 DEF Reset
<1>7. /\ gauges'["agents"][NoLabel] = Cardinality(Rows)
      /\ gauges'["sessions"][NoLabel] = Cardinality(Listings)
  <2>1. /\ gauges'["agents"] = WithSet(gauges["agents"], total(Cardinality(Rows)))
        /\ gauges'["sessions"] = WithSet(gauges["sessions"], total(Cardinality(Listings)))
    BY <1>1, <1>5 DEF Reset
  <2>2. \A series, n : WithSet(series, total(n))[NoLabel] = n
    BY DEF WithSet
  <2> HIDE DEF total
  <2> QED
    BY <2>1, <2>2
<1>8. {GpuName[a] : a \in Rows} \subseteq DOMAIN gauges'["vramGBAvailableByGpuName"]
  <2>1. gauges'["vramGBAvailableByGpuName"] =
           WithSet(gauges["vramGBAvailableByGpuName"], data["vramGBAvailableByGpuName"])
    BY <1>1, <1>5 DEF Reset
  <2>2. DOMAIN data["vramGBAvailableByGpuName"] = {GpuName[a] : a \in Rows}
    BY <1>1
  <2> QED
    BY <2>1, <2>2 DEF WithSet
<1>9. DOMAIN gauges'["gpusByGpuName"] \subseteq DOMAIN gauges'["vramGBAvailableByGpuName"]
  BY <1>4, <1>6, <1>8, Zenon
<1>10. /\ Sum(gauges'["agentsByStatus"]) = gauges'["agents"][NoLabel]
       /\ Sum(gauges'["sessionsByStatus"]) = gauges'["sessions"][NoLabel]
       /\ Sum(gauges'["gpusByGpuName"]) = gauges'["agents"][NoLabel]
  BY <1>3, <1>6, <1>7, Zenon
<1> QED
  BY <1>9, <1>10, Zenon DEF SeriesAddUp

\* What a scrape sees adds up (update): for any number of agents and sessions,
\* the series by status and by GPU are those of the one snapshot of the totals.
THEOREM SeriesAddUpHolds == ExporterSpec => []SeriesAddUp
<1> DEFINE ExporterInv == MemdbInv /\ IsFiniteSet(Known) /\ SeriesAddUp
<1>1. ExporterInit => ExporterInv
  <2> SUFFICES ASSUME ExporterInit PROVE ExporterInv
    OBVIOUS
  <2>1. Init /\ MemdbInv
    BY MemdbInit DEF ExporterInit
  <2>2. Known = {}
    BY <2>1 DEF Init, Known
  <2>3. /\ gauges["agentsByStatus"] = <<>> /\ gauges["sessionsByStatus"] = <<>>
        /\ gauges["gpusByGpuName"] = <<>>
        /\ gauges["agents"] = [l \in {NoLabel} |-> 0] /\ gauges["sessions"] = [l \in {NoLabel} |-> 0]
    BY DEF ExporterInit, Series, AggregateData
  <2>4. Sum(<<>>) = 0 /\ DOMAIN <<>> = {}
    <3>1. SumOver(<<>>, {}) = 0
      BY SumOverEmpty
    <3>2. DOMAIN <<>> = {}
      OBVIOUS
    <3> QED
      BY <3>1, <3>2 DEF Sum, SumOver
  <2>5. SeriesAddUp
    BY <2>3, <2>4 DEF SeriesAddUp
  <2> QED
    BY <2>1, <2>2, <2>5, FS_EmptySet
<1>2. ExporterInv /\ [ExporterNext]_exporterVars => ExporterInv'
  <2> SUFFICES ASSUME ExporterInv, [ExporterNext]_exporterVars PROVE ExporterInv'
    OBVIOUS
  <2>1. [Next]_vars
    BY DEF ExporterNext, Update, exporterVars
  <2>2. MemdbInv' /\ IsFiniteSet(Known')
    BY <2>1, MemdbStep, KnownStep
  <2>3. SeriesAddUp'
    <3>1. CASE Update
      BY <3>1, UpdateAddsUp
    <3>2. CASE UNCHANGED gauges
      <4>1. gauges' = gauges
        BY <3>2
      <4> QED
        BY <4>1, Zenon DEF ExporterInv, SeriesAddUp
    <3> QED
      BY <3>1, <3>2 DEF ExporterNext, exporterVars
  <2> QED
    BY <2>2, <2>3
<1> QED
  BY <1>1, <1>2, PTL DEF ExporterSpec

============================================================================
