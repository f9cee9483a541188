CONSTANTS
    a1 = a1
    a2 = a2
    s1 = s1
    s2 = s2
    s3 = s3
    NoAgent = NoAgent
    NoSession = NoSession
    PCIAddressOf <- MCPCIAddressOf
    Agent = {a1}
    Session = {s1, s2}
    AgentInfo <- OneAgent
    Requirements <- FullRequests
    MissingAfter = 1
    RemoveAfter = 1
    QueryLimit = 2
    Word = 16
    MaxTime = 0
    MaxFaults = 0
    FaultKinds = {"kill", "call"}
SPECIFICATION Spec
INVARIANT MaximumVramAdheredTo
