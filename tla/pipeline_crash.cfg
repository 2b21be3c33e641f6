\* One worker that may crash anywhere.
SPECIFICATION Spec
CONSTANTS
  t1 = t1  t2 = t2  w1 = w1  w2 = w2
  Poison = Poison
  Traces <- OneTrace
  Workers <- OneWorker
  ChanCap = 2
  MaxRetries = 1
  MaxLog = 2
  Faults <- CrashOnly
INVARIANTS CommittedIsSettled
