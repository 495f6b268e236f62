CONSTANTS
  Items = {i1}
  MinRating = 1
  MaxRating = 2
  DefaultRating = 1
  MaxRunHistory = 2
  Workers = {w1}
  Operators = {o1, o2}
  Reasons = {}
  Unresolvable = {}
  Wanted = {None}
  None = None
  MaxPending = 1
  MaxTries = 1
  ReadsMayFail = TRUE
  ClockNeverSteps = TRUE
  MaxRuns = 2
SPECIFICATION Spec
PROPERTIES SaveKeepsRows
