SPECIFICATION FairSpec
CONSTANTS
  Callers = {ask, look}
  Readiness = {ask}
  Slots = 3
  MaxHangups = 1
  None = None
INVARIANTS
  OwnedIsInflight
PROPERTIES
  PublishedInOrder
  EveryCallerReturns
  FailureIsNoticed
