SPECIFICATION Spec
CONSTANTS
  Items = {1, 2}
  DayLength = 2
  Scale = 10000
  Window = 2
  Pages = {p1, p2}
  Desks = {r1, r2}
  p1 = p1
  p2 = p2
  r1 = r1
  r2 = r2
  Boxes <- MCBoxes
  Typed <- MCTyped
  Shifts <- MCShifts
  OrderIds = {1, 2, 3}
  LineIds = {1, 2, 3, 4}
  Edits <- MCEdits
  Bulk0 <- MCBulk0
  Orders0 <- MCOrders0
  Lines0 <- MCLines0
  Sales0 <- MCSales0
  SaleIds = {1, 2, 3, 4, 5, 6}
  Start = 6
  NotScanned = NotScanned
INVARIANTS CountsSound PublishedStands ScansKept EstimatesAgree ReportSound OrdersCover
SYMMETRY Alike
CHECK_DEADLOCK FALSE
