CONSTANT Task = {t1, t2, t3}
SPECIFICATION FairSpec
INVARIANTS NeverPanics NothingLost
PROPERTY FailureEndsGroup
CHECK_DEADLOCK FALSE
