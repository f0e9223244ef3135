SPECIFICATION Spec
CONSTANTS
  Servers = {s1}
  RunCompany = "business_validation"
  RecordedByHand <- TestingTask
  MaxCrashes = 3
INVARIANTS
  TypeOK
  AckedIsSaved
  RecordedFilesWhole
  StatusTellsVerdict
PROPERTIES
  ImplementsEvidenceChain
CHECK_DEADLOCK FALSE
