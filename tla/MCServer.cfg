CONSTANT MaxSessions = 3
SPECIFICATION FairSpec
INVARIANT StopReaches
PROPERTY StopEnds
CHECK_DEADLOCK FALSE
