---------------------------- MODULE GpuMatching ----------------------------
(***************************************************************************)
(* The GPU matching of pkg/gpu: what GpuSet.Find selects for a list of     *)
(* requirements, given the VRAM each GPU has available.  A GPU is a record *)
(* [vram, pciBus], a requirement a record [vram, pciBus], and a selection  *)
(* a function from the selected indices to the VRAM charged to each (the   *)
(* list of SelectedGpu of the code, whose order is Go's map order).        *)
(***************************************************************************)
EXTENDS Integers, Sequences, FiniteSets, FiniteSetsExt, TLC

CONSTANT PCIAddressOf   \* what NewPCIAddressFromString returns for each
                        \* identifier; all that do not parse share one value

\* An unspecified PciBus in a requirement.
AnyBus == ""

\* storage.TotalVram and storage.TotalVramRequired: the sum over a sequence
\* of GPUs, or of requirements, of their vram fields.
TotalVram(seq) == MapThenSumSet(LAMBDA i : seq[i].vram, DOMAIN seq)

\* The two tests of the inner loop of Find: zero VRAM is no constraint, and
\* PCI identifiers are compared after parsing.
Satisfies(gpu, available, requirement) ==
    /\ requirement.vram # 0 => available >= requirement.vram
    /\ requirement.pciBus # AnyBus =>
          PCIAddressOf[gpu.pciBus] = PCIAddressOf[requirement.pciBus]

\* The inner loop of Find for requirement k, which has no break: it takes every
\* GPU that is still available and satisfies the requirement, in whatever order
\* the map is iterated.
TakeFor(k, taken, gpus, available, requirements) ==
    LET takes == {i \in DOMAIN gpus \ DOMAIN taken :
                     Satisfies(gpus[i], available[i], requirements[k])}
    IN  [i \in DOMAIN taken \cup takes |-> IF i \in takes THEN k ELSE taken[i]]

\* The nested loops.  The result maps each selected GPU to its requirement.
FindLoop(gpus, available, requirements) ==
    LET taken[k \in 0..Len(requirements)] ==
            IF k = 0 THEN <<>>
            ELSE TakeFor(k, taken[k - 1], gpus, available, requirements)
    IN  taken[Len(requirements)]

\* Find's selection, before the VRAM is subtracted.
Selection(gpus, available, requirements) ==
    LET loop == FindLoop(gpus, available, requirements)
    IN  [i \in DOMAIN loop |-> requirements[loop[i]].vram]

\* Find succeeds when it has selected at least as many GPUs as there are
\* requirements.
FindSucceeds(gpus, available, requirements) ==
    Cardinality(DOMAIN FindLoop(gpus, available, requirements)) >= Len(requirements)

\* A new GpuSet (NewGpuSet): every GPU has all its VRAM available.
Unused(gpus) == [i \in DOMAIN gpus |-> gpus[i].vram]

============================================================================
