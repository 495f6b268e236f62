SPECIFICATION FairSpec
CONSTANTS
  None = None
  Garbled = Garbled
  MaxDrills = 3
  Calibrated <- MCCalibrated
  MaxLoads = 2
  MaxOthers = 2
INVARIANTS
  AnswersWhatWasRead
  AlwaysAWayOn
PROPERTIES
  SubmitComesBack
