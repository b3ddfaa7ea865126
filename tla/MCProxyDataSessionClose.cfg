CONSTANT StartTimeout = FALSE
SPECIFICATION Spec
INVARIANT SocketsClosedLater
CHECK_DEADLOCK FALSE
