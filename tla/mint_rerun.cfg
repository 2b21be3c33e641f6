\* run-day is called twice, one call after the other; nothing fails.
SPECIFICATION Spec
CONSTANTS
  u1 = u1  q1 = q1  q2 = q2  c1 = c1  c2 = c2
  None = None
  N = 2
  HasAccount <- TheAccount
  Users <- MCUsers
  Owner <- OneFamily
  Rides <- MCRides
  Scans <- MCScans
  Runs <- OneCall
  MaxRuns = 2
  Kinds <- RunDays
  Faults <- NoFaults
INVARIANTS MintedOnce
CHECK_DEADLOCK FALSE
