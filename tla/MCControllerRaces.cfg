CONSTANTS
    a1 = a1
    a2 = a2
    s1 = s1
    s2 = s2
    s3 = s3
    NoAgent = NoAgent
    NoSession = NoSession
    PCIAddressOf <- MCPCIAddressOf
    Agent = {a1, a2}
    Session = {s1, s2}
    AgentInfo <- TwoTainted
    Requirements <- MixedRequests
    MissingAfter = 1
    RemoveAfter = 1
    QueryLimit = 2
    Word = 16
    MaxTime = 0
    MaxFaults = 1
    FaultKinds = {"kill"}
SPECIFICATION Spec
INVARIANTS TypeOK StartedOnce VramWithinTotal PlacementHonoursRequest
PROPERTIES CancelledBeforePlacementIsFinal CancelAfterActiveSticks
