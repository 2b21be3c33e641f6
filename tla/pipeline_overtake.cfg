\* Two workers and no failure at all.
SPECIFICATION Spec
CONSTANTS
  t1 = t1  t2 = t2  w1 = w1  w2 = w2
  Poison = Poison
  Traces <- TwoTraces
  Workers <- TwoWorkers
  ChanCap = 2
  MaxRetries = 1
  MaxLog = 2
  Faults <- NoFaults
INVARIANTS CommittedIsSettled
