SPECIFICATION FairSpec
CONSTANTS
  Executors = {e1}
  Plans <- ThreePlans
  MaxCrashes = 2
  MaxEdits = 1
INVARIANTS
  TypeOK
  EvidenceTellsTruth
  CompletedRunHasEvidence
  CommitsOnlyPlannedPaths
PROPERTIES
  EvidencedPlanNotCommittedAgain
  DeployCompletesOrSticks
