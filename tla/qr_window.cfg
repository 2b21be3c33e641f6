\* Rotation and TTL scaled down, with exactly the slack they need.
SPECIFICATION Spec
CONSTANTS
  k1 = k1  k2 = k2  r1 = r1  r2 = r2  g1 = g1  g2 = g2
  None = None
  Tokens <- MCTokens
  Requests <- MCRequests
  Gates <- MCGates
  Ahead <- MCAhead
  Spread = 1
  Second = 2
  Rotation = 2
  MarkerTTL = 4
  MaxDelay = 1
  Horizon = 14
INVARIANTS TypeOK OneTimeUse
\* Time ends at the horizon.
CHECK_DEADLOCK FALSE
SYMMETRY Symmetry
