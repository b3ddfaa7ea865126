CONSTANT MaxAwaits = 3
SPECIFICATION TimedFairSpec
INVARIANT Quiet
PROPERTIES PromiseSpec
CHECK_DEADLOCK FALSE
