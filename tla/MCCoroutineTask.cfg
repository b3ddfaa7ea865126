CONSTANTS
  outer = outer
  inner = inner
  leaf = leaf
  NoTask = NoTask
  Tasks <- MCTasks
  Awaits <- MCAwaits
  Registers <- MCRegisters
  MaxStarts <- MCMaxStarts
  MaxStops <- MCMaxStops
SPECIFICATION FairSpec
INVARIANTS StopCancels CancelFollowsAwait OneResumption
PROPERTIES LifecycleSpec StopEnds RegisteredStop
CHECK_DEADLOCK FALSE
