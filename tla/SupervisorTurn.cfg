SPECIFICATION FairTurnSpec
CONSTANTS
  RunCompanies <- GateAndDocuments
  Pages <- WithBrokenPage
  PassingPages <- OnlyGenerated
  GeneratedPage = "generated"
  RecordedByHand <- QaTask
  MaxCrashes = 1
INVARIANTS
  TurnTypeOK
  TurnKeepsEvidence
  HandoffFollowsTurn
  CrashCostsOneTurn
  AuditPasses
  EvaluationAgreesWithTurn
PROPERTIES
  ImplementsCompanyRun
  EvaluationShowsStop
