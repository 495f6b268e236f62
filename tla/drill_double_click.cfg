CONSTANTS
  Items = {i1}
  MinRating = 1
  MaxRating = 2
  DefaultRating = 1
  MaxRunHistory = 2
  Workers = {w1, w2}
  Operators = {o1}
  Reasons = {}
  Unresolvable = {}
  Wanted = {None}
  None = None
  MaxPending = 1
  MaxTries = 1
  ReadsMayFail = FALSE
  ClockNeverSteps = TRUE
  MaxRuns = 2
SPECIFICATION Spec
INVARIANTS ScoredOnce
