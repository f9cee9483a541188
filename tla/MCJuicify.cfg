CONSTANTS
    Task = {"AppMain", "QueueTimeout", "CheckSession"}
    QueueTimeout = TRUE
SPECIFICATION JuicifyFairSpec
INVARIANTS
    LeavesNothingBehind
PROPERTIES
    WaitingEnds
    StopEnds
    EndIsNoticed
CHECK_DEADLOCK FALSE
