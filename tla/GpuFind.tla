------------------------------ MODULE GpuFind ------------------------------
(***************************************************************************)
(* GpuSet.Find (pkg/gpu/gpu.go) one iteration at a time.  The inner loop   *)
(* ranges over a Go map while it deletes from it, so the order in which    *)
(* GPUs are visited is arbitrary; the machine takes any order and compares *)
(* the outcome with that of the operators the other modules use.           *)
(***************************************************************************)
EXTENDS GpuMatching

CONSTANTS GpuLists,          \* the GPU lists to try
          RequirementLists,  \* the requirement lists to try
          Availability(_)    \* per GPU list, the VRAM vectors to try

\* VRAM is a uint64.
ASSUME FindAssumption ==
    /\ \A list \in RequirementLists : list \in Seq([vram : Nat, pciBus : STRING])
    /\ \A list \in GpuLists : Availability(list) \subseteq [DOMAIN list -> Nat]

VARIABLES gpus, requirements,
          vramAvailable,     \* the vramAvailable field of each Gpu
          before,            \* its value when Find was called (history)
          availableGpus,     \* the indices still in the map availableGpus
          unvisited,         \* of those, the ones the inner range has to visit
          current,           \* the requirement of the outer loop
          owner,             \* selectedGpus: index -> requirement
          result             \* "running", "found" or "error"

findVars == <<gpus, requirements, vramAvailable, before, availableGpus, unvisited,
          current, owner, result>>

inputs == <<gpus, requirements, before>>

FindInit ==
    /\ gpus \in GpuLists
    /\ requirements \in RequirementLists
    /\ vramAvailable \in Availability(gpus)
    /\ before = vramAvailable
    /\ availableGpus = DOMAIN gpus
    /\ unvisited = DOMAIN gpus
    /\ current = 1
    /\ owner = <<>>
    /\ result = "running"

\* The inner loop has no break: selecting or skipping GPU i leaves the others.
\* Mutant of ToVisit: it has one.
ToVisitAfterBreak(i) == {}
ToVisit(i) == unvisited \ {i}

Trying(i) ==
    /\ result = "running"
    /\ current <= Len(requirements)
    /\ i \in unvisited

\* One iteration of the inner loop that selects GPU i: append to selectedGpus
\* and delete from availableGpus.
SelectGpu(i) ==
    /\ Trying(i)
    /\ Satisfies(gpus[i], vramAvailable[i], requirements[current])
    /\ owner' = [j \in DOMAIN owner \cup {i} |-> IF j = i THEN current ELSE owner[j]]
    /\ availableGpus' = availableGpus \ {i}
    /\ unvisited' = ToVisit(i)
    /\ UNCHANGED <<inputs, vramAvailable, current, result>>

\* One iteration that skips GPU i (either continue).
SkipGpu(i) ==
    /\ Trying(i)
    /\ ~Satisfies(gpus[i], vramAvailable[i], requirements[current])
    /\ unvisited' = unvisited \ {i}
    /\ UNCHANGED <<inputs, vramAvailable, availableGpus, current, owner, result>>

\* The next requirement of the outer loop: a new range over what is left.
NextRequirement ==
    /\ result = "running"
    /\ current <= Len(requirements)
    /\ unvisited = {}
    /\ current' = current + 1
    /\ unvisited' = availableGpus
    /\ UNCHANGED <<inputs, vramAvailable, availableGpus, owner, result>>

\* The VRAM of GPU i after the loops: charged if enough GPUs were selected.
\* Mutant of Charged: it is charged before the count is checked.
ChargedAnyway(i) ==
    vramAvailable[i] - (IF i \in DOMAIN owner THEN requirements[owner[i]].vram ELSE 0)
Enough == Cardinality(DOMAIN owner) >= Len(requirements)
Charged(i) ==
    vramAvailable[i] - (IF Enough /\ i \in DOMAIN owner THEN requirements[owner[i]].vram ELSE 0)

\* After the loops: an error without touching the set, or the selection.
Finish ==
    /\ result = "running"
    /\ current > Len(requirements)
    /\ result' = IF Enough THEN "found" ELSE "error"
    /\ vramAvailable' = [i \in DOMAIN gpus |-> Charged(i)]
    /\ UNCHANGED <<inputs, availableGpus, unvisited, current, owner>>

Done == result # "running" /\ UNCHANGED findVars

FindNext ==
    \/ \E i \in DOMAIN gpus : SelectGpu(i) \/ SkipGpu(i)
    \/ NextRequirement
    \/ Finish
    \/ Done

FindSpec == FindInit /\ [][FindNext]_findVars

----------------------------------------------------------------------------

\* In whatever order Go ranges over the map from which Find (gpu.go) deletes, and
\* whichever GPUs it therefore tries first, the outcome depends only on the
\* input: whether there is one, and which GPU is charged for which requirement.
\* It is the outcome of the operators the backend's model places sessions with.
OrderDoesNotMatter ==
    result \in {"found", "error"} =>
        /\ owner = FindLoop(gpus, before, requirements)
        /\ result = "found" <=> FindSucceeds(gpus, before, requirements)

\* What the comment in Find says: it chooses the first GPU that matches, one
\* for each requirement.
ChoosesTheFirstGpu ==
    \A i, j \in DOMAIN owner : owner[i] = owner[j] => i = j

\* Find never drives a GPU's vramAvailable below zero (it is a uint64 and would
\* wrap), and a Find that returns an error leaves the whole set as it was.
ChargesOnlyWhatIsThere ==
    /\ \A i \in DOMAIN gpus : vramAvailable[i] >= 0
    /\ result = "error" => vramAvailable = before

============================================================================
