CONSTANTS
  Parents = {p1, p2}
  Children = {c1}
  None = None
  Size = 2
  MaxQueues = 3
  MaxSent = 3
SPECIFICATION QueueSpec
INVARIANTS Fresh
PROPERTIES StartsAgain
CHECK_DEADLOCK FALSE
