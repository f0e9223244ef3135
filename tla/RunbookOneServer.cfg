SPECIFICATION Spec
CONSTANTS
  Servers = {s1}
  Runs = {"run_design", "run_plan"}
  Stages <- TwoStages
  StageOf <- StageOfRun
  RunIdLists <- WholeAndPart
  MaxCrashes = 1
INVARIANTS
  ReadyRunsReviewed
  ReadyCoversStages
