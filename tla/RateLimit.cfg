SPECIFICATION Spec
CONSTANTS
  c1 = c1
  c2 = c2
  Client <- TwoClients
  Limit = 2
  Window = 2
  PerSecond = 2
  TableLimit = 1
  MaxTime = 9
SYMMETRY Symmetry
INVARIANTS
  RateTypeOK
  SlidingWindow
  RetryAfterSound
