\* One buyer who buys twice, two accounts, any request cut short anywhere.
SPECIFICATION Spec
CONSTANTS
  e1 = e1  e2 = e2  x1 = x1  r1 = r1  r2 = r2
  None = None
  Emails <- MCEmails
  Buyers <- OneBuyer
  Wallets <- MCWallets
  Requests <- MCRequests
  MaxQuantity = 2
  MaxOrders = 2
  MaxPeople = 2
INVARIANTS TypeOK AnswerIsTrue OneParticipantPerAccount DependentsResolve
PROPERTIES ImplementsVoucherBook
SYMMETRY Symmetry
