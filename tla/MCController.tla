---------------------------- MODULE MCController ----------------------------
(* Agents and requests for the runs over Controller.                       *)
EXTENDS Controller

MCPCIAddressOf == [b \in {"b1", "b2"} |-> IF b = "b1" THEN 1 ELSE 2]

Gpu(vram, bus) == [vram |-> vram, pciBus |-> bus]

Info(pool, labels, taints, gpus) ==
    [pool |-> pool, labels |-> labels, taints |-> taints, gpus |-> gpus]

Request(pool, matchLabels, tolerates, gpus) ==
    [pool |-> pool, matchLabels |-> matchLabels, tolerates |-> tolerates, gpus |-> gpus]

CONSTANTS a1, a2, s1, s2, s3

\* One agent with one GPU of 3.
OneAgent == a1 :> Info("p", {}, {}, <<Gpu(3, "b1")>>)

\* Two tainted agents.
TwoTainted ==
    a1 :> Info("p", {<<"os", "win">>}, {<<"gpu", "only">>}, <<Gpu(2, "b1"), Gpu(2, "b2")>>) @@
    a2 :> Info("q", {<<"os", "win">>}, {<<"x", "y">>}, <<Gpu(1, "b2"), Gpu(2, "b1")>>)

\* Two sessions that together ask for more than the first agent has.  The
\* second agent is compatible with one of them but its GPU is too small; it
\* has the GPUs for the other one, which does not tolerate it.
MixedRequests ==
    s1 :> Request("", {<<"os", "win">>}, {<<"gpu", "only">>, <<"x", "y">>}, <<Gpu(2, "b2")>>) @@
    s2 :> Request("", {}, {<<"gpu", "only">>}, <<Gpu(2, "b1"), Gpu(1, "b2")>>)

\* One agent with two GPUs, of 2 and 1.
TwoGpus == a1 :> Info("p", {}, {}, <<Gpu(2, "b1"), Gpu(1, "b2")>>)

\* A request for all there is, which can be placed; one for a single GPU of the
\* same amount, which the agent is offered for and cannot hold; and one for no
\* GPU at all.
GoodAndBad == s1 :> Request("", {}, {}, <<Gpu(2, AnyBus), Gpu(1, AnyBus)>>) @@
              s2 :> Request("", {}, {}, <<Gpu(3, AnyBus)>>) @@
              s3 :> Request("", {}, {}, <<>>)

\* Two requests for the whole of the one GPU.
FullRequests == s1 :> Request("", {}, {}, <<Gpu(3, AnyBus)>>) @@
                s2 :> Request("", {}, {}, <<Gpu(3, AnyBus)>>)

============================================================================
