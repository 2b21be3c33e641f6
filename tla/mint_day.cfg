\* Two calls that may overlap, everything that may fail but an aborted transaction.
SPECIFICATION Spec
CONSTANTS
  u1 = u1  q1 = q1  q2 = q2  c1 = c1  c2 = c2
  None = None
  N = 2
  HasAccount <- TheAccount
  Users <- MCUsers
  Owner <- OneFamily
  Rides <- MCRides
  Scans <- MCScans
  Runs <- TwoCalls
  MaxRuns = 2
  Kinds <- AllKinds
  Faults <- SomeFaults
INVARIANTS TypeOK AnswerIsTrue RowsNameRiders
PROPERTIES ImplementsMintLedger
CHECK_DEADLOCK FALSE
SYMMETRY Symmetry
