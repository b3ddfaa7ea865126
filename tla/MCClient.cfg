SPECIFICATION FairSpec
INVARIANTS Announced KeepsTrying
PROPERTIES HaltIsFinal HaltEnds Reconnects
CHECK_DEADLOCK FALSE
