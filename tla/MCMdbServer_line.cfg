CONSTANTS
  s1 = s1
  s2 = s2
  c1 = c1
  c2 = c2
  v1 = v1
  v2 = v2
  Nothing = Nothing
  Script <- TwoSteps
  Requests <- TwoCalls
  Events <- TwoEvents
  MaxChunk = 2
SPECIFICATION FairSpec
INVARIANT WrongAnswersAreLate
INVARIANT EventsReachSodad
PROPERTY CallbackOnce
PROPERTY EveryCommandEnds
CHECK_DEADLOCK FALSE
