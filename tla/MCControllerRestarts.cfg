CONSTANTS
    a1 = a1
    a2 = a2
    s1 = s1
    s2 = s2
    s3 = s3
    NoAgent = NoAgent
    NoSession = NoSession
    PCIAddressOf <- MCPCIAddressOf
    Agent = {a1}
    Session = {s1, s2, s3}
    AgentInfo <- TwoGpus
    Requirements <- GoodAndBad
    MissingAfter = 2
    RemoveAfter = 1
    QueryLimit = 3
    Word = 16
    MaxTime = 0
    MaxFaults = 2
    FaultKinds = {"kill", "call"}
SPECIFICATION FairSpec
INVARIANT StopsForACause
PROPERTY NoStarvation
