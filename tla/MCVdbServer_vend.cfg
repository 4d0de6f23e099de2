CONSTANTS
  s1 = s1
  s2 = s2
  c1 = c1
  p1 = p1
  p2 = p2
  p3 = p3
  cola = cola
  root = root
  Nothing = Nothing
  Script <- TwoSteps
  Requests <- OneCall
  Presses <- ThreePresses
  Sodas <- TwoSodas
  MaxChunk = 2
SPECIFICATION Spec
INVARIANT VendsAreGranted
INVARIANT ResultsReachSodad
INVARIANT ReportNamesDispensed
SYMMETRY SodaSymmetry
CHECK_DEADLOCK FALSE
