SPECIFICATION FairSpec
CONSTANTS
  a = a
  b = b
  None = None
  Requests = {r1, r2}
  Responses = {s1, s2, s3}
  OfB = {s3}
  Classes = {a, b}
  Class <- MCClass
INVARIANTS Linked InOrder Accounted
PROPERTIES EventPromise AnswerEnds CancelEnds
CHECK_DEADLOCK FALSE
