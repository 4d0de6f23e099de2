CONSTANTS
  r1 = r1
  r2 = r2
  r3 = r3
  u1 = u1
  u2 = u2
  Users <- TwoUsers
  Requests <- TrioRequests
  NoRequest = NoRequest
  Amounts <- UnitAmount
  Opening <- UnitAmount
  Allowed <- TransferAllowed
SPECIFICATION FairSpec
PROPERTY EveryRequestEnds
PROPERTY NoOverdraftByTransfer
PROPERTY NoTransferToDisabled
CHECK_DEADLOCK FALSE
