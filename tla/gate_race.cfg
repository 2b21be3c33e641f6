\* A reset may overlap a check of its wristband.
SPECIFICATION Spec
CONSTANTS
  w1 = w1  w2 = w2  t1 = t1  t2 = t2  r1 = r1  r2 = r2
  None = None
  Wristbands <- MCWristbands
  Tickets <- MCTickets
  Requests <- MCRequests
  Faults <- NoFaults
  AdminAlone = FALSE
INVARIANTS OneWristbandPerTicket
SYMMETRY Symmetry
