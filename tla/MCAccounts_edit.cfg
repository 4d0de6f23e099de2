CONSTANTS
  r1 = r1
  r2 = r2
  r3 = r3
  u1 = u1
  u2 = u2
  Users <- TwoUsers
  Requests <- PairRequests
  NoRequest = NoRequest
  Amounts <- SmallAmounts
  Opening <- SmallOpening
  Allowed <- EditAllowed
SPECIFICATION Spec
INVARIANT BalanceMatchesLedger
CHECK_DEADLOCK FALSE
