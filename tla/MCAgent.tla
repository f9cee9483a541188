------------------------------ MODULE MCAgent ------------------------------
(***************************************************************************)
(* Instances of Agent for TLC.                                             *)
(***************************************************************************)
EXTENDS Agent

CONSTANTS s1, s2, c1, c2

\* Two clients of one session.
BothOfOne == (c1 :> s1) @@ (c2 :> s1)

============================================================================
