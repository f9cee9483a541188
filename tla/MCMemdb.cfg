CONSTANTS
    a1 = a1
    a2 = a2
    s1 = s1
    s2 = s2
    NoAgent = NoAgent
    Agent = {a1, a2}
    Session = {s1, s2}
    AgentVram <- Vram
    VramRequired <- Required
    GpuName <- GpuNames
    NoLabel = NoLabel
    PCIAddressOf <- MCPCIAddressOf
    GpuLists <- MCGpuLists
    RequirementLists <- MCRequirementLists
    Availability <- MCAvailability
    Samples <- MCSamples
SPECIFICATION MemdbSpec
INVARIANTS
    MemdbTypeOK
    VramConserved
    MirrorAgrees
    StuckOverMissingRows
    SeriesAddUp
    OrderDoesNotMatter
    ChargesOnlyWhatIsThere
    ExactWhereRanksAreWhole
PROPERTY ImplementsSessionLife
CHECK_DEADLOCK FALSE
