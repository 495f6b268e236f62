CONSTANTS
  Ids = {a, b, c}
  Fields = {"title"}
  Values <- MCValues
  Absent = Absent
  MaxSessions = 2
  Workers = {w1, w2}
  Requests <- StoreRequests
  Revisions = {1}
  None = None
  Retention = 1
  LockHolds = TRUE
  ClockNeverSteps = TRUE
  MaxRev = 3
  MaxBackups = 1
SPECIFICATION FairSpec
INVARIANTS TypeOK CopyIsCurrent RowsAreUnique
PROPERTIES GuardedReplace OverwriteIsBackedUp UnreadableIsKept RowsAreKept LedgerSpec CallIsAnswered
