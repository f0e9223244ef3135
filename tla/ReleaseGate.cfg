SPECIFICATION FairGateSpec
CONSTANTS
  Gate = gate
  Servers = {gate}
  Runs = {"run_design", "run_plan", "run_quality", "run_verify"}
  Stages <- AllStages
  StageOf <- StageOfRun
  RunIdLists <- OneList
  MaxCrashes = 2
INVARIANTS
  TestsOwnInstall
PROPERTIES
  AttemptEnds
