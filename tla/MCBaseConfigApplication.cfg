CONSTANTS
  Entries <- MCEntries
  MaxEntries = 2
  MaxLogs = 3
  MaxRequests = 2
SPECIFICATION FairSpec
INVARIANTS OnceInOrder NothingLost ExitInOrder
PROPERTIES ExitEnds ConfigComplete
CHECK_DEADLOCK FALSE
