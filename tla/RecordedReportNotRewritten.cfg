SPECIFICATION Spec
CONSTANTS
  Servers = {s1, s2}
  RunCompany = "business_validation"
  RecordedByHand <- NoTasks
  MaxCrashes = 0
PROPERTIES
  RecordedReportNotRewritten
CHECK_DEADLOCK FALSE
