CONSTANTS
  Setters = {s1, s2}
  Waiters = {w1, w2, w3}
  NoOne = NoOne
SPECIFICATION FairSpec
INVARIANTS NoLostWakeup DestructorAssert
PROPERTIES Wakeup NoLeak PromiseSpec
CHECK_DEADLOCK FALSE
