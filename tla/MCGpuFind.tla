----------------------------- MODULE MCGpuFind -----------------------------
(* Up to three GPUs and up to two requirements, with a PCI identifier that *)
(* parses ("b1", "b2"), two that do not ("x", "y"), and zero, exact, short *)
(* and ample VRAM.  An initial state is the input of Find, or else one of  *)
(* calculatePercentiles: up to twelve GPUs with 0, 1 or 3 GB free.         *)
EXTENDS GpuFind, Percentiles

MCPCIAddressOf == [b \in {"b1", "b2", "x", "y"} |->
                      CASE b = "b1" -> 1 [] b = "b2" -> 2 [] OTHER -> -1]

MCGpu == [vram : {2}, pciBus : {"b1", "b2", "x"}]

MCRequirement == [vram : 0..2, pciBus : {AnyBus, "b1", "y"}]

MCGpuLists == UNION {[1..n -> MCGpu] : n \in 0..3}

MCRequirementLists == UNION {[1..n -> MCRequirement] : n \in 1..2}

MCAvailability(gpuList) == [DOMAIN gpuList -> {0, 2}]

MCSamples ==
    {sample \in UNION {[keys -> 1..12] : keys \in SUBSET {0, 1, 3} \ {{}}} :
        MapThenSumSet(LAMBDA k : sample[k], DOMAIN sample) <= 12}

NoFind ==
    /\ gpus = <<>> /\ requirements = <<>> /\ vramAvailable = <<>> /\ before = <<>>
    /\ availableGpus = {} /\ unvisited = {} /\ owner = <<>>
    /\ current = 1 /\ result = "none"

NoSample ==
    /\ driver = "none" /\ counts = <<>> /\ percentile = <<>>
    /\ loop = 0 /\ keysIndex = 0 /\ index = 0 /\ key = 0

AlgorithmsInit == (FindInit /\ NoSample) \/ (PercentilesInit /\ NoFind)

AlgorithmsNext ==
    \/ FindNext /\ UNCHANGED percentileVars
    \/ PercentilesNext /\ UNCHANGED findVars

AlgorithmsSpec == AlgorithmsInit /\ [][AlgorithmsNext]_<<findVars, percentileVars>>

============================================================================
