SPECIFICATION Spec
CONSTANTS
  a = a
  b = b
  c = c
  Users = {"ann", "bea"}
  Codes <- Codes4
  NoCode = NoCode
  NoJob = NoJob
  Cups = {"cup"}
  Kegs = {"keg"}
  Emptied = "empty"
  BulkOf <- MCBulkOf
  DayLength = 4
  Days <- MCDays
  WallDebt <- MCWallDebt
  BigDebt <- MCBigDebt
  Requests = {a, b, c}
  Procs = {"card", "web"}
  ShorterOf <- MCShorterOf
  Listed = {"snack", "cup", "keg", "empty"}
  Prices = {100, 150}
  TokenLife = 2
  Opening <- MCOpening
  Menu <- MCMenu
  Reports = {}
  WarnLevel = 2
  Plans <- MCPlans
  People0 <- MCPeople0
  Xacts0 <- MCXacts0
  Start = 8
  Tokens0 <- MCTokens0
INVARIANTS ToldOfCharge
CHECK_DEADLOCK FALSE
