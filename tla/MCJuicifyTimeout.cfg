CONSTANTS
    Task = {"AppMain", "QueueTimeout", "CheckSession"}
    QueueTimeout = TRUE
SPECIFICATION JuicifySpec
PROPERTY TimeoutOnlyWhileWaiting
CHECK_DEADLOCK FALSE
