SPECIFICATION FairSpec
CONSTANTS
  RunCompanies <- AllCompanies
  Pages <- WithBadEdit
  PassingPages <- GoodPages
  GeneratedPage = "generated"
INVARIANTS
  TypeOK
  DeploymentReviewed
  RecommendedToolRuns
  SilenceMeansDone
  WalkAgreesWithBranches
  PhaseFitsAdvice
  TurnStopsAtGates
PROPERTIES
  ImplementsEvidenceChain
  SupervisorDrains
CHECK_DEADLOCK FALSE
