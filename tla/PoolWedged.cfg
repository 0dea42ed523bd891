SPECIFICATION Spec
CONSTANTS
  l1 = l1
  l2 = l2
  l3 = l3
  w1 = w1
  w2 = w2
  w3 = w3
  w4 = w4
  w5 = w5
  Lease <- TwoLeases
  Worker <- ThreeWorkers
  NoWorker = NoWorker
  MinWorkers = 0
  MaxWorkers = 1
  MaxQueue = 1
  Faults = {"spawn", "cancel"}
INVARIANT
  NeverWedged
