\* All failures: what survives them.
SPECIFICATION Spec
CONSTANTS
  t1 = t1  t2 = t2  w1 = w1  w2 = w2
  Poison = Poison
  Traces <- OneTrace
  Workers <- TwoWorkers
  ChanCap = 2
  MaxRetries = 1
  MaxLog = 2
  Faults <- AllFaults
INVARIANTS TypeOK
PROPERTIES ImplementsLedger
SYMMETRY Symmetry
