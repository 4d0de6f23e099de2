CONSTANTS
  e1 = e1
  e2 = e2
  e3 = e3
  e4 = e4
  u1 = u1
  u2 = u2
  Users <- TwoUsers
  Nobody = Nobody
  Events <- FourEvents
  NoEvent = NoEvent
  Plans <- RacePlans
SPECIFICATION Spec
PROPERTY LogoutSparesVend
CHECK_DEADLOCK FALSE
