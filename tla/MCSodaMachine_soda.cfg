SPECIFICATION MachineSpec
CONSTANTS
  Users = {"ann", "bea", "cyd"}
  Price <- MCPrice
  CanCode <- MCCanCode
  NoCode = "none"
  Threshold = 500
  Plans <- MCPlans
  UserOf <- MCUserOf
  HasPassword = {"ann", "cyd"}
  AutoLogout = {"ann"}
  Opening <- MCOpening
INVARIANTS CansPaid CashKept ScreenAgrees
CHECK_DEADLOCK FALSE
