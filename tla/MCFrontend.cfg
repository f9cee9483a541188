CONSTANTS
    a1 = a1
    s1 = s1
    s2 = s2
    Agent = {a1}
    Session = {s1, s2}
    AgentOf <- MCAgentOf
    Task = {"Frontend", "Copying", "Calling"}
    Depth = 1
    MaxReports = 2
    Pool = {p1}
    User = {u1, u2}
    Client = {c1}
    MaxRows = 4
SPECIFICATION FrontendSpec
INVARIANTS NothingLostOrReordered CreatorHoldsAll ListingsAgree
PROPERTIES ReportsArePosted StopEnds
CHECK_DEADLOCK FALSE
