CONSTANTS
  Items = {i1}
  MinRating = 1
  MaxRating = 2
  DefaultRating = 1
  MaxRunHistory = 2
  Workers = {w1, w2}
  Operators = {o1}
  Reasons = {"params"}
  Unresolvable = {}
  Wanted = {None}
  None = None
  MaxPending = 1
  MaxTries = 1
  ReadsMayFail = TRUE
  ClockNeverSteps = FALSE
  MaxRuns = 2
SYMMETRY Symmetry
SPECIFICATION Spec
INVARIANTS PendingIsBounded DebriefRedraws HistoryAddsUp StreaksAgree
