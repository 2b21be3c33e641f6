\* Two calls, one permit, two attempts.
SPECIFICATION FairSpec
CONSTANTS
  c1 = c1  c2 = c2  m1 = m1  m2 = m2  d1 = d1  d2 = d2  o1 = o1  o2 = o2
  p1 = p1  w1 = w1  Signer = Signer  None = None
  Calls <- MCCalls
  Rides <- MCRides
  Dates <- MCDates
  Objects <- MCObjects
  People <- MCPeople
  Wallets <- MCWallets
  Mints <- MCMints
  Bodies <- MCBodies
  Held <- MCObjects
  Dependents <- MCPeople
  RPCMaxConcurrency = 0
  MaxAttempts = 2
  Faults <- SomeFaults
INVARIANTS TypeOK OneAssetPerRide GivenIsPinned PermitsAreInFlight OneTransaction WalletFollowsNFTs SomeoneMoves
PROPERTIES HandlersAdvance EveryCallReturns
