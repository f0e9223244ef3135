SPECIFICATION Spec
CONSTANTS
  Servers = {s1, s2}
  Requests <- TwoRequests
  NTasks = 2
  Intakes <- OtherCompany
  MaxCrashes = 0
PROPERTIES
  StartedRunKept
