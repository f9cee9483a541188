----------------------------- MODULE SessionLife -----------------------------
(***************************************************************************)
(* What the system promises about sessions, whoever crashes, cancels or    *)
(* reports in between: each waits, is placed on one agent for good, runs   *)
(* there once and is over; or it is dropped before it is placed, which is  *)
(* final.  No part of the source says this in one place: Controller shows  *)
(* that the storage, the backend and the agents together implement it.     *)
(***************************************************************************)
CONSTANTS Agent, Session, NoAgent

VARIABLES life,   \* how far each session is
          home    \* the agent it was placed on

lifeVars == <<life, home>>

Init ==
    /\ life = [s \in Session |-> "unknown"]
    /\ home = [s \in Session |-> NoAgent]

Stays(s) == home'[s] = home[s]

Goes(s, from, to) == life[s] \in from /\ life'[s] = to /\ Stays(s)

Request(s) == Goes(s, {"unknown"}, "waiting")

Place(s) ==
    /\ life[s] = "waiting"
    /\ life'[s] = "placed"
    /\ home'[s] \in Agent

\* Cancelled before it is placed.
Drop(s) == Goes(s, {"waiting"}, "dropped")

Start(s) == Goes(s, {"placed"}, "running")

\* A session may be over before anybody has seen it run.
End(s) == Goes(s, {"placed", "running"}, "over")

Sleep(s) == Goes(s, {life[s]}, life[s])

\* One poll of an agent may start several sessions.
Next ==
    \A s \in Session : Request(s) \/ Place(s) \/ Drop(s) \/ Start(s) \/ End(s) \/ Sleep(s)

Spec == Init /\ [][Next]_lifeVars

==============================================================================
