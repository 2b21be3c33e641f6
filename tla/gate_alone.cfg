\* Resets that overlap no other request on their wristband.
SPECIFICATION Spec
CONSTANTS
  w1 = w1  w2 = w2  t1 = t1  t2 = t2  r1 = r1  r2 = r2
  None = None
  Wristbands <- MCWristbands
  Tickets <- MCTickets
  Requests <- MCRequests
  Faults <- MostFaults
  AdminAlone = TRUE
INVARIANTS TypeOK KeysAgree OnlyCheckedTicketsRide GraceIsCurrent RedeemedAfterRide LinksExpire
PROPERTIES ImplementsRegister
SYMMETRY Symmetry
