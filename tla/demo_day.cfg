\* Two guardians; seeds and runs of every scenario, two at a time, and a reset.
SPECIFICATION Spec
CONSTANTS
  r1 = r1  r2 = r2
  Nobody = Nobody  Absent = Absent
  N = 2
  ProbeN = 2
  Half = 1
  RidesEach = 1
  Requests <- MCRequests
  MaxRequests = 2
  Played <- Scenarios
  MaxCopies = 2
  MaxTxs = 3
  MaxResets = 1
  Faults <- AllFaults
INVARIANTS TypeOK SeedIsTrue RunIsTrue LandsWithGuardian WalletShowsMints MintedOnce
CHECK_DEADLOCK FALSE
SYMMETRY Symmetry
