SPECIFICATION FairSpec
CONSTANTS
  Servers = {s1, s2}
  Requests <- TwoRequests
  NTasks = 2
  Intakes <- BothKinds
  MaxCrashes = 1
INVARIANTS
  TypeOK
  RunCommitted
  RunItemsRestored
  CommittedOncePerAttempt
PROPERTIES
  GoalGetsRun
