CONSTANTS
  r1 = r1
  r2 = r2
  r3 = r3
  u1 = u1
  u2 = u2
  Users <- TwoUsers
  Requests <- TrioRequests
  NoRequest = NoRequest
  Amounts <- SmallAmounts
  Opening = {0}
  Allowed <- BooksAllowed
SYMMETRY Swap
SPECIFICATION Spec
INVARIANT BalanceMatchesLedger
INVARIANT ShownIsNotRolledBack
INVARIANT BooksInv
PROPERTY ImplementsLedger
CHECK_DEADLOCK FALSE
