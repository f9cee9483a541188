CONSTANTS
    s1 = s1
    s2 = s2
    c1 = c1
    c2 = c2
    Session = {s1}
    Conn = {c1, c2}
    SessionOf <- BothOfOne
    NoConn = NoConn
    QueueDepth = 1
SPECIFICATION FairSpec
INVARIANTS
    GpusReleasedLast
    NothingAfterClosed
PROPERTIES
    RegisteredOnce
    CanceledSessionEnds
    CancelIsAnswered
    StoppingEnds
    LoopComesRound
CHECK_DEADLOCK FALSE
