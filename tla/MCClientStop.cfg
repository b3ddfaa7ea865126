SPECIFICATION Spec
INVARIANTS KeepsTryingUntilStopped
CHECK_DEADLOCK FALSE
