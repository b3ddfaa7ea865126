CONSTANT StartTimeout = FALSE
SPECIFICATION FairSpec
INVARIANT CloseSafe
PROPERTIES NoHangOnRead StopEndsBoth CancelEndsBoth
CHECK_DEADLOCK FALSE
