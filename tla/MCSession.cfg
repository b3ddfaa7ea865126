CONSTANT MaxParameters = 2
SPECIFICATION FairSpec
INVARIANT Owned
PROPERTIES CloseUnblocks Ends
CHECK_DEADLOCK FALSE
