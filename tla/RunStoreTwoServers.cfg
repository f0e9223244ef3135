SPECIFICATION FairSpec
CONSTANTS
  Servers = {s1, s2}
  RunCompany = "business_validation"
  RecordedByHand <- TestingTask
  MaxCrashes = 1
INVARIANTS
  SavedRunClosed
  RecordedFilesRestored
PROPERTIES
  RunCompletes
CHECK_DEADLOCK FALSE
