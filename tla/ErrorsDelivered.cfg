SPECIFICATION Spec
CONSTANTS
  r1 = r1
  r2 = r2
  w1 = w1
  Request <- TwoRequests
  Worker <- OneWorker
  NoWorker = NoWorker
  Limit = 1
  Styles <- AnyAndWhole
  KiroSays = {}
  MaxEvent <- TwoAndNone
INVARIANTS
  ErrorsDelivered
\* All requests are answered in the end, and nothing is left to do.
CHECK_DEADLOCK FALSE
