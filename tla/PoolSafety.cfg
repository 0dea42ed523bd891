SPECIFICATION Spec
CONSTANTS
  l1 = l1
  l2 = l2
  l3 = l3
  w1 = w1
  w2 = w2
  w3 = w3
  w4 = w4
  w5 = w5
  Lease <- ThreeLeases
  Worker <- FiveWorkers
  NoWorker = NoWorker
  MinWorkers = 1
  MaxWorkers = 2
  MaxQueue = 2
  Faults = {"spawn", "cancel", "timeout", "death", "expiry"}
SYMMETRY Symmetry3L5W
INVARIANTS
  TypeOK
  PermitsNeverMinted
  PermitsConserved
  QueueBounded
  NoLostWakeup
  FifoGrants
  ExclusiveWorkers
  NoneStranded
  NoOrphans
  StopForgets
  StopKills
PROPERTIES
  ImplementsLeasing
  SweepKeepsMinimum
