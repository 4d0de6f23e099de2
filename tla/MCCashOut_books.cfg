SPECIFICATION CashSpec
CONSTANTS
  Transactions = {1, 2, 3, 4, 5, 6, 7}
  CashOuts = {20, 21, 22, 23}
  Editors = {e1, e2}
  Users = {"ann", "bea"}
  Texts <- MCTexts
  DayLength = 4
  PageSize = 3
  e1 = e1
  e2 = e2
  Shifts <- MCShifts
  MaxLog = 4
  Log0 <- MCLog0
  Head0 <- MCHead0
  Rows0 <- MCRows0
  Arrivals <- MCArrivals
  Heads <- MCHeads
  Forms <- MCForms
INVARIANTS RowsAsMeant SyncedBooks ReportsAgree CashReports
SYMMETRY Alike
CHECK_DEADLOCK FALSE
