CONSTANTS
  Items = {i1, i2, i3}
  MinRating = 1
  MaxRating = 1
  DefaultRating = 1
  MaxRunHistory = 2
  Workers = {w1}
  Operators = {o1}
  Reasons = {"params"}
  Unresolvable = {i3}
  Wanted = {None, i3}
  None = None
  MaxPending = 1
  MaxTries = 2
  ReadsMayFail = FALSE
  ClockNeverSteps = FALSE
  MaxRuns = 3
SPECIFICATION FairSpec
INVARIANTS ScoredOnce ConfirmedIsStored
PROPERTIES SaveKeepsRows RequestEnds
