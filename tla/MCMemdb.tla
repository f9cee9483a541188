------------------------------- MODULE MCMemdb -------------------------------
(* Two agents with different GPUs and two sessions: one fits either agent,  *)
(* both fit the first.  The two algorithms of the drivers, which share no   *)
(* state with the tables, have initial states of their own, with a driver   *)
(* that has not been used.                                                  *)
EXTENDS Exporter, MCGpuFind, TLC

CONSTANTS a1, a2, s1, s2

Vram == a1 :> 3 @@ a2 :> 1
Required == s1 :> 2 @@ s2 :> 1
GpuNames == a1 :> "A" @@ a2 :> "B"

NoAlgorithm == NoFind /\ NoSample

MemdbInit == ExporterInit /\ (NoAlgorithm \/ AlgorithmsInit)

MemdbNext ==
    \/ NoAlgorithm /\ ExporterNext /\ UNCHANGED <<findVars, percentileVars>>
    \/ AlgorithmsNext /\ UNCHANGED exporterVars

MemdbSpec == MemdbInit /\ [][MemdbNext]_<<exporterVars, findVars, percentileVars>>

==============================================================================
