\* Progress, with stores that fail now and then.
SPECIFICATION FairSpec
CONSTANTS
  t1 = t1  t2 = t2  w1 = w1  w2 = w2
  Poison = Poison
  Traces <- OneTrace
  Workers <- TwoWorkers
  ChanCap = 1
  MaxRetries = 1
  MaxLog = 2
  Faults <- PoolFaults
INVARIANTS NothingVanishes MarkerBacked HandlerExclusive
PROPERTIES EveryMessageSettles DebtsArePaid
