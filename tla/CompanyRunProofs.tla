-------------------------- MODULE CompanyRunProofs --------------------------
(***************************************************************************)
(* Theorems about a run of any company, with any pages.                    *)
(*                                                                         *)
(* It keeps its type and implements the evidence chain; so what it records *)
(* is closed under "rests on" and never taken back, and no deployment is   *)
(* proposed or executed without a review that passed.                      *)
(*                                                                         *)
(* Its advisor is sound (what it recommends is due: Due, Sound) and, along *)
(* the line of results of each company, says something while any is due;   *)
(* so its tool runs, its silence means that the run is done, the walk      *)
(* along the routes agrees with the branches of the companies, and the     *)
(* phase that the supervisor sees is that of the recommended tool.         *)
(* Each local step records a result that the run did not have.             *)
(***************************************************************************)
EXTENDS CompanyRun, CompanyToolsProofs, TLAPS

EC == INSTANCE EvidenceChainProofs WITH
  Kinds      <- Kinds \cup {Evidence},
  Review     <- "landing_qa_report",
  Proposal   <- "github_pages_deploy_proposal",
  Deployment <- Evidence,
  recorded   <- RecordedKinds,
  verdict    <- report

-----------------------------------------------------------------------------
(* The five facts about the table that the landing tools rest on. *)
LEMMA LandingRoutes ==
  /\ LOCAL_ROUTES["landing_qa_report"].category = "testing"
  /\ LOCAL_ROUTES["github_pages_deploy_proposal"].category = "github_pages"
  /\ "landing_qa_report" \in
       LOCAL_ROUTES["github_pages_deploy_proposal"].requires
  /\ {"landing_qa_report", "github_pages_deploy_proposal"} \subseteq Kinds
  /\ Evidence \notin Kinds
BY DEF LOCAL_ROUTES, LocalRoute, Kinds, Evidence

(* The table of this program is a table of the evidence chain. *)
LEMMA RunChainAssumption == EC!ChainAssumption
BY LandingRoutes DEF EC!ChainAssumption, Requires, Evidence

-----------------------------------------------------------------------------
(* The inductive invariant.  The evidence chain says when a kind may be    *)
(* recorded; that the code's test "the task has no such ref yet" is the    *)
(* chain's test "the kind is not recorded" needs AtHome; that a plan is    *)
(* executed only after a proposal needs the fourth conjunct.               *)
IInv ==
  /\ TypeOK
  /\ AtHome(tasks)
  /\ EC!ChainInv
  /\ planned => Recorded(tasks, "github_pages_deploy_proposal")
  /\ Recorded(tasks, Evidence) => planned

LEMMA InitInv == Init => IInv
<1> SUFFICES ASSUME Init PROVE IInv
  OBVIOUS
<1> USE DEF Init
<1>1. \A k : ~ Recorded(tasks, k)
  BY DEF Recorded, Planned
<1>2. TypeOK
  BY DEF TypeOK, TaskStates, Planned, Statuses, NoPage
<1>3. AtHome(tasks)
  BY DEF AtHome, Planned
<1>4. EC!ChainInit
  BY <1>1 DEF EC!ChainInit, RecordedKinds
<1>5. EC!ChainInv
  BY <1>4, RunChainAssumption, EC!ChainInitInv
<1> QED
  BY <1>1, <1>2, <1>3, <1>5 DEF IInv, Init

(* Calling a tool records its kind: the run keeps its type, and the chain  *)
(* takes the step Record(tool.kind).                                       *)
LEMMA ToolStep ==
  ASSUME IInv, NEW tool \in Tools, NEW status \in Statuses,
         Callable(tasks, tool), Fresh(tasks, tool),
         tool.kind = "github_pages_deploy_proposal" => qaPassed,
         tool.kind = "landing_qa_report" =>
           report' \in {"passed", "failed"},
         tool.kind # "landing_qa_report" => UNCHANGED report,
         tasks' = AfterTool(tasks, tool, status), UNCHANGED company
  PROVE  /\ tasks' \in [TasksOf(company) -> TaskStates]
         /\ AtHome(tasks')
         /\ EC!Record(tool.kind)
         /\ \A k : Recorded(tasks', k) <=> Recorded(tasks, k) \/ k = tool.kind
         /\ tool.kind # Evidence
<1>0. PICK c, kind : c = tool.category /\ kind = tool.kind
  OBVIOUS
<1>1. /\ kind \in Kinds /\ kind \in RefKinds
      /\ kind # Evidence
      /\ LOCAL_ROUTES[kind].category = c
      /\ LOCAL_ROUTES[kind].requires = tool.needs
  BY <1>0, HandlersHonorRoutes, LandingRoutes DEF HonorsRoute, RefKinds
<1>2. /\ tasks \in [TasksOf(company) -> TaskStates]
      /\ DOMAIN tasks = TasksOf(company)
      /\ c \in TasksOf(company)
  BY <1>0 DEF IInv, TypeOK, Callable
<1>3. /\ tasks' \in [TasksOf(company) -> TaskStates]
      /\ \A k : Recorded(tasks', k) <=> Recorded(tasks, k) \/ k = kind
      /\ AtHome(tasks')
  <2>1. tasks' = [tasks EXCEPT ![c] = task_with_result(@, kind, status)]
    BY <1>0 DEF AfterTool
  <2>2. tasks' \in [TasksOf(company) -> TaskStates]
    BY <1>1, <1>2, <2>1, RecordOnTask
  <2>3. \A d \in TasksOf(company) :
          tasks'[d].refs = IF d = c THEN tasks[d].refs \cup {kind}
                                    ELSE tasks[d].refs
    BY <1>2, <2>1 DEF task_with_result
  <2>4. \A k : Recorded(tasks', k) <=> Recorded(tasks, k) \/ k = kind
    BY <1>2, <2>2, <2>3 DEF Recorded
  <2>5. AtHome(tasks')
    BY <1>1, <1>2, <2>1, RecordOnTask DEF AtHome, IInv
  <2> QED
    BY <2>2, <2>4, <2>5
<1>4. RecordedKinds' = RecordedKinds \cup {kind}
  BY <1>1, <1>3 DEF RecordedKinds
<1>5. ~ Recorded(tasks, kind)
  BY <1>0, <1>1, <1>2 DEF IInv, AtHome, Recorded, Fresh
<1>6. EC!Ready(kind)
  <2>1. Requires[kind] = tool.needs
    BY <1>1 DEF Requires
  <2>2. tool.needs \subseteq RecordedKinds
    BY <1>2, NoToolNeedsText
       DEF Callable, RecordedKinds, Recorded, TaskStates, RefKinds
  <2> QED
    BY <1>5, <2>1, <2>2 DEF EC!Ready, RecordedKinds
<1>7. EC!Record(tool.kind)
  BY <1>0, <1>4, <1>6 DEF EC!Record, qaPassed
<1> QED
  BY <1>0, <1>1, <1>3, <1>7

(* Recording a kind that no route has: the text of a hand-made result      *)
(* leaves the chain alone, the evidence of a deployment extends it.        *)
LEMMA UnroutedStep ==
  ASSUME IInv, NEW c \in TasksOf(company), NEW kind \in {WorkResult, Evidence},
         tasks' = [tasks EXCEPT ![c] = task_with_result(@, kind, "completed")],
         UNCHANGED company
  PROVE  /\ tasks' \in [TasksOf(company) -> TaskStates]
         /\ AtHome(tasks')
         /\ \A k : Recorded(tasks', k) <=> Recorded(tasks, k) \/ k = kind
<1>1. /\ tasks \in [TasksOf(company) -> TaskStates]
      /\ DOMAIN tasks = TasksOf(company)
  BY DEF IInv, TypeOK
<1>2. kind \in RefKinds /\ kind \notin Kinds /\ "completed" \in Statuses
  BY DEF RefKinds, Statuses, WorkResult, Evidence, Kinds, LOCAL_ROUTES
<1>3. tasks' \in [TasksOf(company) -> TaskStates]
  BY <1>1, <1>2 DEF task_with_result, TaskStates
<1>5. \A d \in TasksOf(company) :
        tasks'[d].refs = IF d = c THEN tasks[d].refs \cup {kind}
                                  ELSE tasks[d].refs
  BY <1>1 DEF task_with_result
<1>4. AtHome(tasks')
  <2>1. SUFFICES ASSUME NEW d \in TasksOf(company),
                        NEW k \in tasks'[d].refs \cap Kinds
                 PROVE  LOCAL_ROUTES[k].category = d
    BY <1>1, <1>3 DEF AtHome
  <2>2. k \in tasks[d].refs
    <3>1. k \in tasks'[d].refs /\ k # kind
      BY <1>2
    <3>2. d = c => tasks'[d].refs = tasks[d].refs \cup {kind}
      BY <1>5
    <3>3. d # c => tasks'[d].refs = tasks[d].refs
      BY <1>5
    <3> QED
      BY <3>1, <3>2, <3>3
  <2> QED
    BY <1>1, <2>1, <2>2 DEF AtHome, IInv
<1>6. \A k : Recorded(tasks', k) <=> Recorded(tasks, k) \/ k = kind
  BY <1>1, <1>3, <1>5 DEF Recorded
<1> QED
  BY <1>3, <1>4, <1>6

(* What every action is shown to do. *)
GoodStep ==
  /\ TypeOK'
  /\ AtHome(tasks')
  /\ [EC!ChainNext]_(EC!chain)
  /\ planned' => Recorded(tasks', "github_pages_deploy_proposal")
  /\ Recorded(tasks', Evidence) => planned'

LEMMA DocumentToolStep ==
  ASSUME IInv, NEW tool \in DocumentTools, CallDocumentTool(tool)
  PROVE  GoodStep
<1> USE DEF CallDocumentTool, files
<1>1. tool \in Tools /\ tool.kind \in Kinds
  BY HandlersHonorRoutes DEF Tools, HonorsRoute
<1>2. tool.kind \notin {"landing_qa_report", "github_pages_deploy_proposal"}
  BY DEF Handler, DocumentTools,
     create_release_checklist_artifact, create_release_quality_gate_report,
     create_release_notes_artifact, prepare_release_readiness_decision,
     create_design_critique_artifact, create_design_risk_report_artifact,
     prepare_design_review_decision,
     create_growth_brief_artifact, create_growth_experiment_plan_artifact,
     prepare_growth_review_decision,
     create_delivery_scope_brief_artifact,
     create_delivery_execution_plan_artifact, prepare_delivery_review_decision,
     create_architecture_brief_artifact, create_implementation_plan_artifact,
     prepare_implementation_plan_review_decision,
     create_implementation_plan_quality_report,
     create_implementation_plan_risk_register,
     prepare_implementation_plan_quality_decision,
     create_verification_matrix_artifact, create_verification_plan_artifact,
     prepare_verification_review_decision
<1>3. /\ tasks' \in [TasksOf(company) -> TaskStates]
      /\ AtHome(tasks')
      /\ EC!Record(tool.kind)
      /\ \A k : Recorded(tasks', k) <=> Recorded(tasks, k) \/ k = tool.kind
      /\ tool.kind # Evidence
  <2>1. "completed" \in Statuses
    BY DEF Statuses
  <2> QED
    BY <1>1, <1>2, <2>1, ToolStep
<1>4. TypeOK'
  BY <1>3 DEF IInv, TypeOK
<1> QED
  BY <1>1, <1>3, <1>4 DEF GoodStep, EC!ChainNext, IInv

LEMMA LandingArtifactStep ==
  ASSUME IInv, CreateLandingArtifact
  PROVE  GoodStep
<1> USE DEF CreateLandingArtifact
<1> DEFINE tool == create_landing_artifact
<1>1. /\ tool \in Tools /\ tool.kind \in Kinds
      /\ tool.kind \notin {"landing_qa_report", "github_pages_deploy_proposal"}
  BY HandlersHonorRoutes
     DEF Tools, LandingTools, HonorsRoute, create_landing_artifact, Handler
<1>2. "completed" \in Statuses
  BY DEF Statuses
<1> HIDE DEF tool
<1>3. /\ tasks' \in [TasksOf(company) -> TaskStates]
      /\ AtHome(tasks')
      /\ EC!Record(tool.kind)
      /\ \A k : Recorded(tasks', k) <=> Recorded(tasks, k) \/ k = tool.kind
      /\ tool.kind # Evidence
  BY <1>1, <1>2, ToolStep DEF tool
<1>4. TypeOK'
  BY <1>3, PagesAssumption DEF IInv, TypeOK
<1> QED
  BY <1>1, <1>3, <1>4 DEF GoodStep, EC!ChainNext, IInv

LEMMA QaReportStep ==
  ASSUME IInv, CreateLandingQaReport
  PROVE  GoodStep
<1> USE DEF CreateLandingQaReport
<1> DEFINE tool == create_landing_qa_report
           status == IF page \in PassingPages THEN "completed" ELSE "blocked"
<1>1. /\ tool \in Tools /\ tool.kind = "landing_qa_report"
      /\ tool.kind \in Kinds
  BY HandlersHonorRoutes
     DEF Tools, LandingTools, HonorsRoute, create_landing_qa_report, Handler
<1>2. status \in Statuses /\ report' \in {"passed", "failed"}
  BY DEF Statuses
<1>3. /\ Callable(tasks, tool) /\ Fresh(tasks, tool)
      /\ tasks' = AfterTool(tasks, tool, status)
      /\ UNCHANGED company
  OBVIOUS
<1> HIDE DEF tool, status
<1>4. /\ tasks' \in [TasksOf(company) -> TaskStates]
      /\ AtHome(tasks')
      /\ EC!Record(tool.kind)
      /\ \A k : Recorded(tasks', k) <=> Recorded(tasks, k) \/ k = tool.kind
      /\ tool.kind # Evidence
  BY <1>1, <1>2, <1>3, ToolStep
<1>5. TypeOK'
  BY <1>2, <1>4 DEF IInv, TypeOK
<1> QED
  BY <1>1, <1>4, <1>5 DEF GoodStep, EC!ChainNext, IInv

LEMMA DeployProposalStep ==
  ASSUME IInv, PrepareDeployProposal
  PROVE  GoodStep
<1> USE DEF PrepareDeployProposal
<1> DEFINE tool == prepare_github_pages_deploy_proposal
<1>1. /\ tool \in Tools /\ tool.kind = "github_pages_deploy_proposal"
      /\ tool.kind \in Kinds
  BY HandlersHonorRoutes
     DEF Tools, LandingTools, HonorsRoute, Handler,
         prepare_github_pages_deploy_proposal
<1>2. "blocked" \in Statuses
  BY DEF Statuses
<1>3. /\ Callable(tasks, tool) /\ Fresh(tasks, tool) /\ qaPassed
      /\ tasks' = AfterTool(tasks, tool, "blocked")
      /\ UNCHANGED << company, report >>
  OBVIOUS
<1> HIDE DEF tool
<1>4. /\ tasks' \in [TasksOf(company) -> TaskStates]
      /\ AtHome(tasks')
      /\ EC!Record(tool.kind)
      /\ \A k : Recorded(tasks', k) <=> Recorded(tasks, k) \/ k = tool.kind
      /\ tool.kind # Evidence
  BY <1>1, <1>2, <1>3, ToolStep
<1>5. TypeOK'
  BY <1>4 DEF IInv, TypeOK
<1> QED
  BY <1>1, <1>4, <1>5 DEF GoodStep, EC!ChainNext, IInv

(* A plan can only be prepared for a proposal that the run has recorded.   *)
LEMMA ExecutionPlanStep ==
  ASSUME IInv, PrepareExecutionPlan
  PROVE  GoodStep
<1>1. TypeOK' /\ AtHome(tasks')
  BY DEF IInv, TypeOK, AtHome, PrepareExecutionPlan
<1>2. UNCHANGED EC!chain
  BY DEF EC!chain, RecordedKinds, Recorded, PrepareExecutionPlan
<1>3. Recorded(tasks', "github_pages_deploy_proposal")
  BY DEF PrepareExecutionPlan, result_ref_recorded_on_category, Recorded
<1> QED
  BY <1>1, <1>2, <1>3 DEF GoodStep, PrepareExecutionPlan

(* The proposal is recorded on the github_pages task, so there is one.     *)
LEMMA ExecuteDeployStep ==
  ASSUME IInv, ExecuteDeploy
  PROVE  GoodStep
<1> USE DEF ExecuteDeploy, files
<1>1. /\ Recorded(tasks, "github_pages_deploy_proposal")
      /\ "github_pages" \in TasksOf(company)
  BY LandingRoutes DEF IInv, TypeOK, AtHome, Recorded
<1>2. /\ tasks' \in [TasksOf(company) -> TaskStates]
      /\ AtHome(tasks')
      /\ \A k : Recorded(tasks', k) <=> Recorded(tasks, k) \/ k = Evidence
  BY <1>1, UnroutedStep
<1>3. TypeOK'
  BY <1>2 DEF IInv, TypeOK
<1>4. [EC!ChainNext]_(EC!chain)
  <2>1. RecordedKinds' = RecordedKinds \cup {Evidence}
    BY <1>2 DEF RecordedKinds
  <2>2. CASE Evidence \in RecordedKinds
    BY <2>1, <2>2 DEF EC!chain
  <2>3. CASE Evidence \notin RecordedKinds
    <3>1. EC!Ready(Evidence)
      BY <1>1, <2>3, LandingRoutes DEF EC!Ready, Requires, RecordedKinds
    <3>2. EC!Record(Evidence)
      BY <2>1, <3>1 DEF EC!Record, Evidence
    <3> QED
      BY <3>2 DEF EC!ChainNext
  <2> QED
    BY <2>2, <2>3
<1> QED
  BY <1>1, <1>2, <1>3, <1>4 DEF GoodStep

LEMMA WorkResultStep ==
  ASSUME IInv, NEW c \in TasksOf(company), RecordWorkResult(c)
  PROVE  GoodStep
<1> USE DEF RecordWorkResult, files
<1>1. /\ tasks' \in [TasksOf(company) -> TaskStates]
      /\ AtHome(tasks')
      /\ \A k : Recorded(tasks', k) <=> Recorded(tasks, k) \/ k = WorkResult
  BY UnroutedStep DEF record_work_result
<1>2. TypeOK'
  BY <1>1 DEF IInv, TypeOK
<1>3. WorkResult \notin Kinds \cup {Evidence}
  BY DEF WorkResult, Evidence, Kinds, LOCAL_ROUTES
<1>4. UNCHANGED EC!chain
  BY <1>1, <1>3 DEF EC!chain, RecordedKinds
<1> QED
  BY <1>1, <1>2, <1>3, <1>4 DEF GoodStep, IInv

LEMMA EditPageStep ==
  ASSUME IInv, EditPage
  PROVE  GoodStep
<1>1. TypeOK' /\ AtHome(tasks')
  BY DEF IInv, TypeOK, AtHome, EditPage
<1>2. UNCHANGED EC!chain
  BY DEF EC!chain, RecordedKinds, Recorded, EditPage
<1> QED
  BY <1>1, <1>2 DEF GoodStep, IInv, EditPage, Recorded

(* Whatever the advisor recommends, a supervisor turn is a call of a tool. *)
LEMMA AdvanceStep ==
  ASSUME IInv, Advance
  PROVE  GoodStep
<1>1. PICK tool \in Tools : CallTool(tool)
  BY DEF Advance
<1> QED
  BY <1>1, LandingArtifactStep, QaReportStep, DeployProposalStep,
     DocumentToolStep DEF CallTool

LEMMA NextStep == IInv /\ [Next]_vars => IInv' /\ [EC!ChainNext]_(EC!chain)
<1> SUFFICES ASSUME IInv, [Next]_vars
             PROVE  IInv' /\ [EC!ChainNext]_(EC!chain)
  OBVIOUS
<1>1. ASSUME UNCHANGED vars PROVE GoodStep
  <2>1. TypeOK' /\ AtHome(tasks') /\ UNCHANGED EC!chain
    BY <1>1 DEF IInv, TypeOK, AtHome, vars, EC!chain, RecordedKinds, Recorded
  <2> QED
    BY <1>1, <2>1 DEF GoodStep, IInv, vars, Recorded
<1>2. ASSUME Next PROVE GoodStep
  BY <1>2, DocumentToolStep, LandingArtifactStep, QaReportStep,
     DeployProposalStep, ExecutionPlanStep, ExecuteDeployStep, WorkResultStep,
     AdvanceStep, EditPageStep DEF Next
<1>3. GoodStep
  BY <1>1, <1>2
<1>4. EC!ChainInv'
  BY <1>3, RunChainAssumption, EC!ChainStepInv DEF GoodStep, IInv
<1> QED
  BY <1>3, <1>4 DEF GoodStep, IInv, AtHome, Recorded

-----------------------------------------------------------------------------
(* IInv holds in every state of every run. *)
LEMMA Invariance == Spec => []IInv
<1>1. IInv /\ [Next]_vars => IInv'
  BY NextStep
<1> QED
  BY InitInv, <1>1, PTL DEF Spec

(* Whatever calls a client makes, the run and its files keep their type.   *)
THEOREM TypeCorrect == Spec => []TypeOK
<1>1. IInv => TypeOK
  BY DEF IInv
<1> QED
  BY Invariance, <1>1, PTL

(* Whatever calls a client makes, in any company, every recorded result    *)
(* rests only on results that are recorded in the same run.                *)
THEOREM ChainAlwaysClosed == Spec => []ChainClosed
<1>1. IInv => ChainClosed
  BY DEF IInv, EC!ChainInv, EC!ChainClosed, ChainClosed, Chain!ChainClosed
<1> QED
  BY Invariance, <1>1, PTL

(* No deployment is proposed or executed without a QA report that passed,  *)
(* and none is executed without an operation plan.                         *)
THEOREM DeploymentAlwaysReviewed == Spec => []DeploymentReviewed
<1>1. IInv => DeploymentReviewed
  BY DEF IInv, EC!ChainInv, EC!DeploymentReviewed, DeploymentReviewed,
         Chain!DeploymentReviewed
<1> QED
  BY Invariance, <1>1, PTL

(* A run of the tools implements the evidence chain: every call records    *)
(* the next kind of a chain or leaves the chain alone.                     *)
THEOREM RunImplementsChain == Spec => ImplementsEvidenceChain
<1>1. Init => Chain!ChainInit
  <2> SUFFICES ASSUME Init PROVE Chain!ChainInit
    OBVIOUS
  <2>1. \A k : ~ Recorded(tasks, k)
    BY DEF Init, Recorded, Planned
  <2> QED
    BY <2>1 DEF Init, Chain!ChainInit, RecordedKinds
<1>2. IInv /\ [Next]_vars => [Chain!ChainNext]_(Chain!chain)
  BY NextStep DEF EC!ChainNext, EC!chain, EC!Record, EC!Ready,
         Chain!ChainNext, Chain!chain, Chain!Record, Chain!Ready
<1> QED
  BY Invariance, <1>1, <1>2, PTL
  DEF Spec, ImplementsEvidenceChain, Chain!ChainSpec

(* So a run never takes a result back, and a verdict, once given, is never *)
(* changed: what the chain keeps, the run keeps.                           *)
THEOREM RunKeepsResults == Spec => Chain!NothingRetracted
<1>1. EC!ChainAssumption => (EC!ChainSpec => EC!NothingRetracted)
  BY EC!ChainKeepsResults
<1>2. EC!ChainSpec <=> Chain!ChainSpec
  BY PTL DEF EC!ChainSpec, Chain!ChainSpec, EC!ChainInit, Chain!ChainInit,
             EC!ChainNext, Chain!ChainNext, EC!Record, Chain!Record,
             EC!Ready, Chain!Ready, EC!chain, Chain!chain
<1>3. EC!NothingRetracted <=> Chain!NothingRetracted
  BY PTL DEF EC!NothingRetracted, Chain!NothingRetracted, EC!chain, Chain!chain
<1> QED
  BY <1>1, <1>2, <1>3, RunChainAssumption, RunImplementsChain, PTL
  DEF ImplementsEvidenceChain

-----------------------------------------------------------------------------
(* What the advisor says.  An advice is sound if the tool that it names    *)
(* has a planned task in the run, no result there and all that the result  *)
(* rests on, and if it speaks of a blocker only when a task is blocked.    *)

Due(t, kind) ==
  /\ LOCAL_ROUTES[kind].category \in DOMAIN t
  /\ t[LOCAL_ROUTES[kind].category].status = "planned"
  /\ ~ Recorded(t, kind)
  /\ \A needed \in LOCAL_ROUTES[kind].requires : Recorded(t, needed)

Sound(said, t) ==
  /\ said.tool # "" =>
       \E kind \in Kinds :
         said = ToolAdvice(LOCAL_ROUTES[kind].tool) /\ Due(t, kind)
  /\ said.blocked => Blocked(t)

LEMMA NoToolSound ==
  ASSUME NEW t, NEW kind
  PROVE  /\ Sound(NoAdvice, t) /\ Sound(MissingAdvice(kind), t)
         /\ Blocked(t) => Sound(BlockedAdvice, t)
BY DEF Sound, NoAdvice, MissingAdvice, BlockedAdvice, Recommendation

LEMMA ToolSound ==
  ASSUME NEW t, NEW kind \in Kinds, Due(t, kind)
  PROVE  Sound(ToolAdvice(LOCAL_ROUTES[kind].tool), t)
BY DEF Sound, ToolAdvice, Recommendation

LEMMA OrElseSound ==
  ASSUME NEW t, NEW said, NEW other, Sound(said, t), Sound(other, t)
  PROVE  Sound(OrElse(said, other), t)
BY DEF OrElse

(* The tool that a sound advice names is due. *)
LEMMA SoundToolIsDue ==
  ASSUME NEW t, NEW said, Sound(said, t), NEW tool \in Tools, tool.name = said.tool
  PROVE  Due(t, tool.kind)
<1>1. tool.kind \in Kinds /\ tool.name = LOCAL_ROUTES[tool.kind].tool
  BY HandlersHonorRoutes DEF HonorsRoute
<1>2. said.tool # ""
  BY <1>1, NameTellsKind
<1>3. PICK kind \in Kinds :
        said = ToolAdvice(LOCAL_ROUTES[kind].tool) /\ Due(t, kind)
  BY <1>2 DEF Sound
<1>4. kind = tool.kind
  <2>1. said.tool = LOCAL_ROUTES[kind].tool
    BY <1>3 DEF ToolAdvice, Recommendation
  <2> QED
    BY <1>1, <2>1, NameTellsKind
<1> QED
  BY <1>3, <1>4

(* The stages of the branches. *)
LEMMA StageSound ==
  ASSUME NEW T, NEW t \in [T -> TaskStates], NEW tool \in Tools,
         tool.category \in T, NEW inputs, inputs = tool.needs
  PROVE  /\ Sound(StageAdvice(t, tool, inputs), t)
         /\ Sound(ReleaseStageAdvice(t, tool, inputs), t)
<1>1. /\ tool.kind \in Kinds /\ tool.name = LOCAL_ROUTES[tool.kind].tool
      /\ tool.category = LOCAL_ROUTES[tool.kind].category
      /\ tool.needs = LOCAL_ROUTES[tool.kind].requires
      /\ DOMAIN t = T
  BY HandlersHonorRoutes DEF HonorsRoute
<1>2. CASE t[tool.category].status = "blocked"
  <2>1. Blocked(t)
    BY <1>1, <1>2 DEF Blocked
  <2>2. Sound(BlockedAdvice, t)
    BY <2>1, NoToolSound
  <2> QED
    BY <1>2, <2>2 DEF StageAdvice, ReleaseStageAdvice
<1>3. CASE StageReady(t, tool, inputs)
  <2>1. Due(t, tool.kind)
    BY <1>1, <1>3 DEF StageReady, Due
  <2>2. Sound(ToolAdvice(tool.name), t)
    BY <1>1, <2>1, ToolSound
  <2> QED
    BY <1>2, <1>3, <2>2, NoToolSound DEF StageAdvice, ReleaseStageAdvice
<1>4. CASE t[tool.category].status # "blocked" /\ ~ StageReady(t, tool, inputs)
  BY <1>4, NoToolSound DEF StageAdvice, ReleaseStageAdvice
<1> QED
  BY <1>2, <1>3, <1>4

(* The walk.  The order of a company is a sequence; so there is a first    *)
(* task with an advice, if there is one at all.                            *)
LEMMA TaskOrder ==
  ASSUME NEW co \in Companies
  PROVE  \E n \in 0 .. 8 : DOMAIN CompanyTasks[co] = 1 .. n
<1> DEFINE Ordered(c) == \E n \in 0 .. 8 : DOMAIN CompanyTasks[c] = 1 .. n
<1>1. Ordered("business_validation") /\ Ordered("release_hardening")
  BY DEF CompanyTasks, business_validation_company_spec,
         release_hardening_company_spec
<1>2. /\ Ordered("growth_brief") /\ Ordered("delivery_planning")
      /\ Ordered("design_review")
  BY DEF CompanyTasks, growth_brief_company_spec,
         delivery_planning_company_spec, design_review_company_spec
<1>3. /\ Ordered("implementation_planning")
      /\ Ordered("implementation_plan_quality")
      /\ Ordered("verification_orchestration")
  BY DEF CompanyTasks, implementation_planning_company_spec,
         implementation_plan_quality_company_spec,
         verification_orchestration_company_spec
<1> HIDE DEF Ordered
<1>4. Ordered(co)
  BY <1>1, <1>2, <1>3 DEF Companies, CompanyTasks
<1> QED
  BY <1>4 DEF Ordered

LEMMA FirstOf ==
  ASSUME NEW n \in 0 .. 9, NEW S, \E i \in 1 .. n : i \in S
  PROVE  \E i \in 1 .. n : i \in S /\ \A j \in 1 .. i - 1 : j \notin S
<1> DEFINE Without(k) == \A j \in 1 .. k : j <= n => j \notin S
<1> SUFFICES ASSUME \A i \in 1 .. n : Without(i - 1) => i \notin S
             PROVE  FALSE
  OBVIOUS
<1>1. Without(1)
  OBVIOUS
<1>2. Without(2)
  BY <1>1
<1>3. Without(3)
  BY <1>2
<1>4. Without(4)
  BY <1>3
<1>5. Without(5)
  BY <1>4
<1>6. Without(6)
  BY <1>5
<1>7. Without(7)
  BY <1>6
<1>8. Without(8)
  BY <1>7
<1>9. Without(9)
  BY <1>8
<1> QED
  BY <1>9

LEMMA TaskAdviceSound ==
  ASSUME NEW co, NEW T, NEW t \in [T -> TaskStates], NEW c \in T, ~ Blocked(t)
  PROVE  Sound(local_route_recommendation_for_task(co, t, c), t)
<1> DEFINE kinds == local_routes_for_task(co, c)
           kind  == CHOOSE k \in kinds : TRUE
           said  == local_route_recommendation_for_task(co, t, c)
<1>1. \/ said = NoAdvice
      \/ said = MissingAdvice(kind)
      \/ /\ said = ToolAdvice(LOCAL_ROUTES[kind].tool)
         /\ kinds # {} /\ ~ Recorded(t, kind)
         /\ \A needed \in LOCAL_ROUTES[kind].requires : Recorded(t, needed)
         /\ t[c].status # "completed"
  BY DEF local_route_recommendation_for_task
<1>2. kinds # {} => kind \in Kinds /\ LOCAL_ROUTES[kind].category = c
  BY DEF local_routes_for_task
<1>3. t[c].status # "completed" => t[c].status = "planned"
  BY DEF Blocked, TaskStates, Statuses
<1> HIDE DEF kinds, kind, said
<1>4. Sound(said, t)
  <2>1. CASE said = NoAdvice \/ said = MissingAdvice(kind)
    BY <2>1, NoToolSound
  <2>2. CASE /\ said = ToolAdvice(LOCAL_ROUTES[kind].tool)
             /\ kinds # {} /\ ~ Recorded(t, kind)
             /\ \A needed \in LOCAL_ROUTES[kind].requires : Recorded(t, needed)
             /\ t[c].status # "completed"
    <3>1. kind \in Kinds /\ Due(t, kind)
      BY <1>2, <1>3, <2>2 DEF Due
    <3> QED
      BY <2>2, <3>1, ToolSound
  <2> QED
    BY <1>1, <2>1, <2>2
<1> QED
  BY <1>4 DEF said

(* What the walk says is what it says of one task, and it has nothing to   *)
(* say of the tasks before that one.                                       *)
LEMMA WalkSaysFirst ==
  ASSUME NEW co \in Companies, NEW t, NEW order, order = CompanyTasks[co],
         NEW said, said = FirstTaskAdvice(co, t)
  PROVE  \/ /\ said = NoAdvice
            /\ \A i \in DOMAIN order :
                 local_route_recommendation_for_task(co, t, order[i]) = NoAdvice
         \/ \E i \in DOMAIN order :
              /\ said = local_route_recommendation_for_task(co, t, order[i])
              /\ said # NoAdvice
              /\ \A j \in 1 .. i - 1 :
                   local_route_recommendation_for_task(co, t, order[j]) = NoAdvice
<1> DEFINE advice_of == [i \in DOMAIN order |->
                           local_route_recommendation_for_task(co, t, order[i])]
           IsFirst(i) == /\ advice_of[i] # NoAdvice
                         /\ \A j \in 1 .. i - 1 : advice_of[j] = NoAdvice
<1>1. PICK n \in 0 .. 8 : DOMAIN order = 1 .. n
  BY TaskOrder
<1>2. said = IF \A i \in DOMAIN order : advice_of[i] = NoAdvice
             THEN NoAdvice
             ELSE advice_of[CHOOSE i \in DOMAIN order : IsFirst(i)]
  BY DEF FirstTaskAdvice
<1>3. \A i \in 1 .. n :
        advice_of[i] = local_route_recommendation_for_task(co, t, order[i])
  BY <1>1
<1> HIDE DEF advice_of
<1>4. CASE \A i \in DOMAIN order : advice_of[i] = NoAdvice
  BY <1>1, <1>2, <1>3, <1>4
<1>5. CASE \E i \in DOMAIN order : advice_of[i] # NoAdvice
  <2>1. \E i \in DOMAIN order : IsFirst(i)
    <3> DEFINE S == {i \in 1 .. n : advice_of[i] # NoAdvice}
    <3>1. PICK i \in 1 .. n : i \in S /\ \A j \in 1 .. i - 1 : j \notin S
      BY <1>1, <1>5, FirstOf
    <3> QED
      BY <1>1, <3>1
  <2>2. PICK i \in DOMAIN order : IsFirst(i) /\ said = advice_of[i]
    BY <1>2, <1>5, <2>1
  <2>3. \A j \in 1 .. i - 1 : j \in 1 .. n
    BY <1>1, <2>2
  <2> QED
    BY <1>1, <1>3, <2>2, <2>3
<1> QED
  BY <1>4, <1>5

LEMMA WalkSound ==
  ASSUME NEW co \in Companies, NEW t \in [TasksOf(co) -> TaskStates]
  PROVE  Sound(route_recommendation_for_company_goal(co, t), t)
<1>1. CASE Blocked(t)
  BY <1>1, NoToolSound DEF route_recommendation_for_company_goal
<1>2. CASE ~ Blocked(t)
  <2> DEFINE said == FirstTaskAdvice(co, t)
  <2>1. ASSUME NEW i \in DOMAIN CompanyTasks[co]
        PROVE  Sound(local_route_recommendation_for_task
                       (co, t, CompanyTasks[co][i]), t)
    <3>1. CompanyTasks[co][i] \in TasksOf(co)
      BY DEF TasksOf
    <3> QED
      BY <1>2, <3>1, TaskAdviceSound
  <2>2. \/ said = NoAdvice
        \/ \E i \in DOMAIN CompanyTasks[co] :
             said = local_route_recommendation_for_task
                      (co, t, CompanyTasks[co][i])
    BY WalkSaysFirst
  <2> HIDE DEF said
  <2>3. Sound(said, t)
    BY <2>1, <2>2, NoToolSound
  <2> QED
    BY <1>2, <2>3 DEF said, route_recommendation_for_company_goal
<1> QED
  BY <1>1, <1>2

-----------------------------------------------------------------------------
(* The companies: the tasks of each, and the results that belong to them.  *)

LEMMA TaskSets ==
  /\ TasksOf("business_validation") =
        {"hypothesis_validation", "strategy", "landing_page", "github_pages",
         "testing", "threads", "promotion", "team_management"}
  /\ TasksOf("release_hardening") =
        {"release_plan", "quality_gates", "release_notes", "coordination"}
  /\ TasksOf("design_review") =
        {"design_critique", "risk_assessment", "review_decision"}
  /\ TasksOf("delivery_planning") =
        {"scope_brief", "execution_plan", "review_decision"}
  /\ TasksOf("implementation_planning") =
        {"architecture_brief", "implementation_plan", "review_decision"}
  /\ TasksOf("implementation_plan_quality") =
        {"plan_quality_report", "plan_risk_register", "review_decision"}
  /\ TasksOf("verification_orchestration") =
        {"verification_matrix", "verification_plan", "review_decision"}
  /\ TasksOf("growth_brief") =
        {"market_brief", "experiment_plan", "review_decision"}
<1>1. TasksOf("business_validation") =
        {"hypothesis_validation", "strategy", "landing_page", "github_pages",
         "testing", "threads", "promotion", "team_management"}
  BY DEF TasksOf, CompanyTasks, business_validation_company_spec
<1>2. TasksOf("release_hardening") =
        {"release_plan", "quality_gates", "release_notes", "coordination"}
  BY DEF TasksOf, CompanyTasks, release_hardening_company_spec
<1>3. TasksOf("design_review") =
        {"design_critique", "risk_assessment", "review_decision"}
  BY DEF TasksOf, CompanyTasks, design_review_company_spec
<1>4. TasksOf("delivery_planning") =
        {"scope_brief", "execution_plan", "review_decision"}
  BY DEF TasksOf, CompanyTasks, delivery_planning_company_spec
<1>5. TasksOf("implementation_planning") =
        {"architecture_brief", "implementation_plan", "review_decision"}
  BY DEF TasksOf, CompanyTasks, implementation_planning_company_spec
<1>6. TasksOf("implementation_plan_quality") =
        {"plan_quality_report", "plan_risk_register", "review_decision"}
  BY DEF TasksOf, CompanyTasks, implementation_plan_quality_company_spec
<1>7. TasksOf("verification_orchestration") =
        {"verification_matrix", "verification_plan", "review_decision"}
  BY DEF TasksOf, CompanyTasks, verification_orchestration_company_spec
<1>8. TasksOf("growth_brief") =
        {"market_brief", "experiment_plan", "review_decision"}
  BY DEF TasksOf, CompanyTasks, growth_brief_company_spec
<1> QED
  BY <1>1, <1>2, <1>3, <1>4, <1>5, <1>6, <1>7, <1>8

KindsOf ==
  [ business_validation |->
      {"landing_artifact", "landing_qa_report", "github_pages_deploy_proposal"},
    release_hardening |->
      {"release_checklist", "release_quality_gate_report",
       "release_notes_artifact", "release_readiness_decision"},
    growth_brief |->
      {"growth_brief_artifact", "growth_experiment_plan_artifact",
       "growth_review_decision"},
    delivery_planning |->
      {"delivery_scope_brief_artifact", "delivery_execution_plan_artifact",
       "delivery_review_decision"},
    design_review |->
      {"design_critique_artifact", "design_risk_report_artifact",
       "design_review_decision"},
    implementation_planning |->
      {"architecture_brief_artifact", "implementation_plan_artifact",
       "implementation_plan_review_decision"},
    implementation_plan_quality |->
      {"implementation_plan_quality_report",
       "implementation_plan_risk_register",
       "implementation_plan_quality_decision"},
    verification_orchestration |->
      {"verification_matrix_artifact", "verification_plan_artifact",
       "verification_review_decision"} ]

LEMMA TheCompanies ==
  Companies =
    {"business_validation", "release_hardening", "growth_brief",
     "delivery_planning", "design_review", "implementation_planning",
     "implementation_plan_quality", "verification_orchestration"}
BY DEF Companies, CompanyTasks

(* A kind whose task, and the tasks of what it rests on, are in a company  *)
(* belongs to it.  (That its own task is there is not enough: seven        *)
(* companies have a "review_decision".)                                    *)
Fits(T, kind) ==
  /\ LOCAL_ROUTES[kind].category \in T
  /\ \A needed \in LOCAL_ROUTES[kind].requires :
       LOCAL_ROUTES[needed].category \in T

LEMMA FittingKinds ==
  ASSUME NEW co \in Companies, NEW kind \in Kinds, Fits(TasksOf(co), kind)
  PROVE  kind \in KindsOf[co]
<1> USE TheKinds, BusinessRoutes, ReleaseRoutes, GrowthRoutes, DeliveryRoutes,
        DesignRoutes, ImplementationRoutes, PlanQualityRoutes,
        VerificationRoutes DEF RouteIs, Fits
<1>1. CASE co = "business_validation"
  BY <1>1, TaskSets DEF KindsOf
<1>2. CASE co = "release_hardening"
  BY <1>2, TaskSets DEF KindsOf
<1>3. CASE co = "growth_brief"
  BY <1>3, TaskSets DEF KindsOf
<1>4. CASE co = "delivery_planning"
  BY <1>4, TaskSets DEF KindsOf
<1>5. CASE co = "design_review"
  BY <1>5, TaskSets DEF KindsOf
<1>6. CASE co = "implementation_planning"
  BY <1>6, TaskSets DEF KindsOf
<1>7. CASE co = "implementation_plan_quality"
  BY <1>7, TaskSets DEF KindsOf
<1>8. CASE co = "verification_orchestration"
  BY <1>8, TaskSets DEF KindsOf
<1> QED
  BY <1>1, <1>2, <1>3, <1>4, <1>5, <1>6, <1>7, <1>8, TheCompanies

(* So at most one kind is due at a time: of two results of a company, one  *)
(* rests on the other.                                                     *)
LEMMA KindsInLine ==
  ASSUME NEW co \in Companies, NEW k \in KindsOf[co], NEW l \in KindsOf[co]
  PROVE  \/ k = l
         \/ k \in LOCAL_ROUTES[l].requires
         \/ l \in LOCAL_ROUTES[k].requires
BY TheCompanies, BusinessRoutes, ReleaseRoutes, GrowthRoutes, DeliveryRoutes,
   DesignRoutes, ImplementationRoutes, PlanQualityRoutes, VerificationRoutes
   DEF RouteIs, KindsOf

LEMMA DueBelongs ==
  ASSUME NEW co \in Companies, NEW t \in [TasksOf(co) -> TaskStates], AtHome(t),
         NEW kind \in Kinds, Due(t, kind)
  PROVE  kind \in KindsOf[co]
<1>1. ASSUME NEW needed \in LOCAL_ROUTES[kind].requires
      PROVE  LOCAL_ROUTES[needed].category \in TasksOf(co)
  BY RoutesRestOnKinds DEF Due, Recorded, AtHome
<1> QED
  BY <1>1, FittingKinds DEF Fits, Due

LEMMA OneDue ==
  ASSUME NEW co \in Companies, NEW t \in [TasksOf(co) -> TaskStates], AtHome(t),
         NEW k \in Kinds, NEW l \in Kinds, Due(t, k), Due(t, l)
  PROVE  k = l
<1>1. k \in KindsOf[co] /\ l \in KindsOf[co]
  BY DueBelongs
<1> QED
  BY <1>1, KindsInLine DEF Due

(* Six companies are alike: three tasks, three tools, the second result    *)
(* resting on the first and the decision on both.                          *)
IsTrio(co, first, second, decision) ==
  /\ {first, second, decision} \subseteq Tools
  /\ TasksOf(co) = {first.category, second.category, decision.category}
  /\ KindsOf[co] = {first.kind, second.kind, decision.kind}
  /\ first.needs = {}
  /\ second.needs = {first.kind}
  /\ decision.needs = {first.kind, second.kind}

LEMMA TrioCompany ==
  ASSUME NEW co \in Companies \ {"business_validation", "release_hardening"},
         NEW t, NEW passed
  PROVE  \E first, second, decision \in Tools :
           /\ IsTrio(co, first, second, decision)
           /\ CompanyBranch(co, t, passed) =
                TrioBranch(t, first, second, decision)
<1> USE TaskSets DEF IsTrio, KindsOf, Tools, DocumentTools, Handler, CompanyBranch
<1>1. CASE co = "design_review"
  <2>1. /\ IsTrio(co, create_design_critique_artifact,
                  create_design_risk_report_artifact,
                  prepare_design_review_decision)
        /\ CompanyBranch(co, t, passed) = DesignBranch(t)
    BY <1>1 DEF create_design_critique_artifact,
         create_design_risk_report_artifact,
         prepare_design_review_decision
  <2> QED
    BY <2>1 DEF DesignBranch
<1>2. CASE co = "delivery_planning"
  <2>1. /\ IsTrio(co, create_delivery_scope_brief_artifact,
                  create_delivery_execution_plan_artifact,
                  prepare_delivery_review_decision)
        /\ CompanyBranch(co, t, passed) = DeliveryBranch(t)
    BY <1>2 DEF create_delivery_scope_brief_artifact,
         create_delivery_execution_plan_artifact,
         prepare_delivery_review_decision
  <2> QED
    BY <2>1 DEF DeliveryBranch
<1>3. CASE co = "implementation_planning"
  <2>1. /\ IsTrio(co, create_architecture_brief_artifact,
                  create_implementation_plan_artifact,
                  prepare_implementation_plan_review_decision)
        /\ CompanyBranch(co, t, passed) = ImplementationBranch(t)
    BY <1>3 DEF create_architecture_brief_artifact,
         create_implementation_plan_artifact,
         prepare_implementation_plan_review_decision
  <2> QED
    BY <2>1 DEF ImplementationBranch
<1>4. CASE co = "implementation_plan_quality"
  <2>1. /\ IsTrio(co, create_implementation_plan_quality_report,
                  create_implementation_plan_risk_register,
                  prepare_implementation_plan_quality_decision)
        /\ CompanyBranch(co, t, passed) = PlanQualityBranch(t)
    BY <1>4 DEF create_implementation_plan_quality_report,
         create_implementation_plan_risk_register,
         prepare_implementation_plan_quality_decision
  <2> QED
    BY <2>1 DEF PlanQualityBranch
<1>5. CASE co = "verification_orchestration"
  <2>1. /\ IsTrio(co, create_verification_matrix_artifact,
                  create_verification_plan_artifact,
                  prepare_verification_review_decision)
        /\ CompanyBranch(co, t, passed) = VerificationBranch(t)
    BY <1>5 DEF create_verification_matrix_artifact,
         create_verification_plan_artifact,
         prepare_verification_review_decision
  <2> QED
    BY <2>1 DEF VerificationBranch
<1>6. CASE co = "growth_brief"
  <2>1. /\ IsTrio(co, create_growth_brief_artifact,
                  create_growth_experiment_plan_artifact,
                  prepare_growth_review_decision)
        /\ CompanyBranch(co, t, passed) = GrowthBranch(t)
    BY <1>6 DEF create_growth_brief_artifact,
         create_growth_experiment_plan_artifact,
         prepare_growth_review_decision
  <2> QED
    BY <2>1 DEF GrowthBranch
<1> QED
  BY <1>1, <1>2, <1>3, <1>4, <1>5, <1>6, TheCompanies

(* What a branch says is sound. *)
LEMMA TrioSound ==
  ASSUME NEW co \in Companies, NEW t \in [TasksOf(co) -> TaskStates],
         NEW first \in Tools, NEW second \in Tools, NEW decision \in Tools,
         IsTrio(co, first, second, decision)
  PROVE  Sound(TrioBranch(t, first, second, decision), t)
<1>1. /\ Sound(StageAdvice(t, first, {}), t)
      /\ Sound(StageAdvice(t, second, {first.kind}), t)
      /\ Sound(StageAdvice(t, decision, {first.kind, second.kind}), t)
  BY StageSound DEF IsTrio
<1> QED
  BY <1>1, OrElseSound DEF TrioBranch

LEMMA ReleaseSound ==
  ASSUME NEW t \in [TasksOf("release_hardening") -> TaskStates]
  PROVE  Sound(ReleaseBranch(t), t)
<1> DEFINE T == TasksOf("release_hardening")
<1>1. ASSUME NEW tool \in Tools, tool.category \in T, NEW inputs, inputs = tool.needs
      PROVE  Sound(ReleaseStageAdvice(t, tool, inputs), t)
  BY <1>1, StageSound
<1>2. Sound(ReleaseStageAdvice(t, create_release_checklist_artifact, {}), t)
  BY <1>1, TaskSets
     DEF Tools, DocumentTools, Handler, create_release_checklist_artifact
<1>3. Sound(ReleaseStageAdvice(t, create_release_quality_gate_report,
                               {"release_checklist"}), t)
  BY <1>1, TaskSets
     DEF Tools, DocumentTools, Handler, create_release_quality_gate_report
<1>4. Sound(ReleaseStageAdvice(t, create_release_notes_artifact,
              {"release_checklist", "release_quality_gate_report"}), t)
  BY <1>1, TaskSets
     DEF Tools, DocumentTools, Handler, create_release_notes_artifact
<1>5. Sound(ReleaseStageAdvice(t, prepare_release_readiness_decision,
              {"release_checklist", "release_quality_gate_report",
               "release_notes_artifact"}), t)
  BY <1>1, TaskSets
     DEF Tools, DocumentTools, Handler, prepare_release_readiness_decision
<1> QED
  BY <1>2, <1>3, <1>4, <1>5, OrElseSound DEF ReleaseBranch

LEMMA BusinessSound ==
  ASSUME NEW t \in [TasksOf("business_validation") -> TaskStates], NEW passed
  PROVE  Sound(BusinessBranch(t, passed), t)
<1> DEFINE T == TasksOf("business_validation")
<1>1. ASSUME NEW tool \in Tools, tool.category \in T, NEW inputs, inputs = tool.needs
      PROVE  Sound(StageAdvice(t, tool, inputs), t)
  BY <1>1, StageSound
<1>2. Sound(StageAdvice(t, create_landing_artifact, {}), t)
  BY <1>1, TaskSets DEF Tools, LandingTools, Handler, create_landing_artifact
<1>3. Sound(StageAdvice(t, create_landing_qa_report, {"landing_artifact"}), t)
  BY <1>1, TaskSets DEF Tools, LandingTools, Handler, create_landing_qa_report
<1>4. Sound(StageAdvice(t, prepare_github_pages_deploy_proposal,
                        {"landing_artifact", "landing_qa_report"}), t)
  BY <1>1, TaskSets
     DEF Tools, LandingTools, Handler, prepare_github_pages_deploy_proposal
<1> QED
  BY <1>2, <1>3, <1>4, NoToolSound DEF BusinessBranch

LEMMA AdviceSound ==
  ASSUME NEW co \in Companies, NEW t \in [TasksOf(co) -> TaskStates], NEW passed
  PROVE  Sound(recommend_next_tool_call(co, t, passed), t)
<1>1. Sound(CompanyBranch(co, t, passed), t)
  <2>1. CASE co = "business_validation"
    BY <2>1, BusinessSound DEF CompanyBranch
  <2>2. CASE co = "release_hardening"
    BY <2>2, ReleaseSound DEF CompanyBranch
  <2>3. CASE co \notin {"business_validation", "release_hardening"}
    BY <2>3, TrioCompany, TrioSound
  <2> QED
    BY <2>1, <2>2, <2>3
<1> QED
  BY <1>1, WalkSound, OrElseSound DEF recommend_next_tool_call

(* Whatever has been recorded, blocked or completed by hand, the tool that *)
(* advance_company_goal runs next has a task in the run, no result there,  *)
(* and everything that its handler asks for.                               *)
THEOREM RecommendedToolAlwaysRuns == Spec => []RecommendedToolRuns
<1>1. TypeOK => RecommendedToolRuns
  <2> SUFFICES ASSUME TypeOK, NEW tool \in Tools, tool.name = advice.tool
               PROVE  Callable(tasks, tool) /\ Fresh(tasks, tool)
    BY DEF RecommendedToolRuns
  <2>1. Sound(advice, tasks)
    BY AdviceSound, PagesAssumption DEF TypeOK, advice
  <2>2. Due(tasks, tool.kind)
    BY <2>1, SoundToolIsDue
  <2>3. /\ tool.category = LOCAL_ROUTES[tool.kind].category
        /\ tool.needs = LOCAL_ROUTES[tool.kind].requires
    BY HandlersHonorRoutes DEF HonorsRoute
  <2> QED
    BY <2>2, <2>3 DEF Due, Callable, Fresh, Recorded
<1> QED
  BY TypeCorrect, <1>1, PTL

-----------------------------------------------------------------------------
(* The phase of the supervisor says "complete", "approval_required" and    *)
(* "blocked" only of runs that are so: no open stage has such a phase.     *)
Stops == {"complete", "approval_required", "blocked"}

LEMMA OpenStagesGoOn ==
  /\ DOMAIN OpenStages = 1 .. 9
  /\ \A i \in 1 .. 9 : OpenStages[i].phase \notin Stops
BY DEF OpenStages, OpenStage, Stops

LEMMA FirstOpenStageGoesOn ==
  ASSUME NEW t, \E i \in DOMAIN OpenStages : IsOpen(t, OpenStages[i])
  PROVE  \E i \in 1 .. 9 : /\ FirstOpenStage(t) = OpenStages[i]
                           /\ IsOpen(t, OpenStages[i])
                           /\ \A j \in 1 .. i - 1 : ~ IsOpen(t, OpenStages[j])
<1> DEFINE open == {i \in 1 .. 9 : IsOpen(t, OpenStages[i])}
<1>1. PICK i \in 1 .. 9 : i \in open /\ \A j \in 1 .. i - 1 : j \notin open
  BY OpenStagesGoOn, FirstOf
<1>2. \E k \in DOMAIN OpenStages :
        /\ IsOpen(t, OpenStages[k])
        /\ \A j \in 1 .. k - 1 : ~ IsOpen(t, OpenStages[j])
  BY <1>1, OpenStagesGoOn
<1> QED
  BY <1>2, OpenStagesGoOn DEF FirstOpenStage

LEMMA PhaseTellsStop ==
  ASSUME NEW t
  PROVE  /\ detect_goal_phase(t) = "complete" <=> AllCompleted(t)
         /\ detect_goal_phase(t) = "approval_required"
              <=> ~ AllCompleted(t) /\ AwaitsApproval(t)
         /\ detect_goal_phase(t) = "blocked"
              <=> ~ AllCompleted(t) /\ ~ AwaitsApproval(t) /\ Blocked(t)
<1>1. (\E i \in DOMAIN OpenStages : IsOpen(t, OpenStages[i]))
        => FirstOpenStage(t).phase \notin Stops
  BY FirstOpenStageGoesOn, OpenStagesGoOn
<1>2. LandingPhase(t) \notin Stops
  BY DEF LandingPhase, Stops
<1> QED
  BY <1>1, <1>2 DEF detect_goal_phase, Stops

(* A blocked task silences the advisor. *)
LEMMA BlockedAdviceOfRun ==
  ASSUME NEW co, NEW t, NEW passed, Blocked(t)
  PROVE  recommend_next_tool_call(co, t, passed) = BlockedAdvice
BY DEF recommend_next_tool_call, route_recommendation_for_company_goal, OrElse,
       BlockedAdvice, NoAdvice, Recommendation

LEMMA NoNamelessTool == "" \notin LOCAL_STEP_TOOL_NAMES
BY HandlersHonorRoutes, NameTellsKind DEF HonorsRoute, LOCAL_STEP_TOOL_NAMES

(* What the supervisor makes of a run. *)
LEMMA TurnOutcome ==
  ASSUME IInv, NEW turn, turn = plan_supervisor_transition(phase, advice)
  PROVE  /\ Blocked(tasks) =>
              /\ turn = phase
              /\ phase = IF AwaitsApproval(tasks) THEN "approval_required"
                         ELSE "blocked"
         /\ ~ Blocked(tasks) =>
              /\ turn \in {"complete", "local_step", "needs_human_decision"}
              /\ turn = "complete" <=> phase = "complete"
         /\ turn = "complete" => AllCompleted(tasks)
<1>1. Sound(advice, tasks)
  BY AdviceSound, PagesAssumption DEF IInv, TypeOK, advice
<1>2. /\ phase = "complete" <=> AllCompleted(tasks)
      /\ phase = "approval_required"
           <=> ~ AllCompleted(tasks) /\ AwaitsApproval(tasks)
      /\ phase = "blocked"
           <=> /\ ~ AllCompleted(tasks) /\ ~ AwaitsApproval(tasks)
               /\ Blocked(tasks)
  BY PhaseTellsStop DEF phase
<1>3. AwaitsApproval(tasks) => Blocked(tasks)
  BY DEF AwaitsApproval, Blocked
<1>4. Blocked(tasks) => ~ AllCompleted(tasks)
  BY DEF Blocked, AllCompleted
<1>5. CASE Blocked(tasks)
  <2>1. advice.blocked /\ advice.tool = ""
    <3>1. advice = BlockedAdvice
      BY <1>5, BlockedAdviceOfRun DEF advice
    <3> QED
      BY <3>1 DEF BlockedAdvice, Recommendation
  <2>2. turn = phase /\ phase \in {"blocked", "approval_required"}
    BY <1>2, <1>4, <1>5, <2>1, NoNamelessTool DEF plan_supervisor_transition
  <2> QED
    BY <1>2, <1>4, <1>5, <2>2
<1>6. CASE ~ Blocked(tasks)
  <2>1. ~ advice.blocked
    BY <1>1, <1>6 DEF Sound
  <2>2. turn \in {"complete", "local_step", "needs_human_decision"}
    BY <1>2, <1>3, <1>6, <2>1 DEF plan_supervisor_transition
  <2>3. turn = "complete" <=> phase = "complete"
    BY <1>2, <1>3, <1>6, <2>1 DEF plan_supervisor_transition
  <2> QED
    BY <1>2, <1>6, <2>2, <2>3
<1> QED
  BY <1>5, <1>6

(* A supervisor turn stops if a task of the run is blocked, and at nothing *)
(* else; it asks for an approval only of a proposal whose review passed.   *)
THEOREM TurnAlwaysStopsAtGates == Spec => []TurnStopsAtGates
<1>1. IInv => TurnStopsAtGates
  <2> SUFFICES ASSUME IInv PROVE TurnStopsAtGates
    OBVIOUS
  <2> DEFINE turn == plan_supervisor_transition(phase, advice)
  <2>1. /\ Blocked(tasks) =>
             turn = IF AwaitsApproval(tasks) THEN "approval_required" ELSE "blocked"
        /\ ~ Blocked(tasks) =>
             turn \in {"complete", "local_step", "needs_human_decision"}
        /\ turn = "complete" => AllCompleted(tasks)
    BY TurnOutcome
  <2>2. AwaitsApproval(tasks) =>
          Recorded(tasks, "github_pages_deploy_proposal") /\ qaPassed
    BY LandingRoutes
       DEF AwaitsApproval, IInv, EC!ChainInv, EC!DeploymentReviewed,
           RecordedKinds, qaPassed
  <2> QED
    BY <2>1, <2>2 DEF TurnStopsAtGates, Blocked, AllCompleted
<1> QED
  BY Invariance, <1>1, PTL

-----------------------------------------------------------------------------
(* What the branches of the companies say when a kind is due, and what is  *)
(* recorded when they say nothing.                                         *)
LEMMA StageSpeaks ==
  ASSUME NEW T, NEW t \in [T -> TaskStates], NEW tool \in Tools,
         tool.category \in T, NEW inputs, inputs = tool.needs, ~ Blocked(t)
  PROVE  /\ Recorded(t, tool.kind) =>
              /\ StageAdvice(t, tool, inputs) = NoAdvice
              /\ ReleaseStageAdvice(t, tool, inputs) = NoAdvice
         /\ Due(t, tool.kind) =>
              /\ StageAdvice(t, tool, inputs) = ToolAdvice(tool.name)
              /\ ReleaseStageAdvice(t, tool, inputs) = ToolAdvice(tool.name)
<1>1. /\ tool.category = LOCAL_ROUTES[tool.kind].category
      /\ tool.needs = LOCAL_ROUTES[tool.kind].requires
      /\ DOMAIN t = T
  BY HandlersHonorRoutes DEF HonorsRoute
<1>2. t[tool.category].status # "blocked"
  BY <1>1 DEF Blocked
<1>3. Recorded(t, tool.kind) => /\ StageAdvice(t, tool, inputs) = NoAdvice
                                /\ ReleaseStageAdvice(t, tool, inputs) = NoAdvice
  BY <1>2 DEF StageAdvice, ReleaseStageAdvice, StageReady
<1>4. Due(t, tool.kind) =>
        /\ StageAdvice(t, tool, inputs) = ToolAdvice(tool.name)
        /\ ReleaseStageAdvice(t, tool, inputs) = ToolAdvice(tool.name)
  BY <1>1, <1>2 DEF StageAdvice, ReleaseStageAdvice, StageReady, Due
<1> QED
  BY <1>3, <1>4

LEMMA StageSilent ==
  ASSUME NEW T, NEW t \in [T -> TaskStates], NEW tool \in Tools,
         tool.category \in T, NEW inputs, inputs = tool.needs,
         \A kind \in inputs : Recorded(t, kind),
         \/ StageAdvice(t, tool, inputs) = NoAdvice
         \/ ReleaseStageAdvice(t, tool, inputs) = NoAdvice
  PROVE  Recorded(t, tool.kind)
<1>1. /\ tool.kind \in Kinds
      /\ tool.name = LOCAL_ROUTES[tool.kind].tool
  BY HandlersHonorRoutes DEF HonorsRoute
<1>2. tool.kind # "" /\ tool.name # ""
  <2>1. "" \notin Kinds
    BY TheKinds
  <2> QED
    BY <1>1, <2>1, NameTellsKind
<1>3. /\ BlockedAdvice # NoAdvice
      /\ ToolAdvice(tool.name) # NoAdvice
      /\ MissingAdvice(tool.kind) # NoAdvice
  BY <1>2 DEF BlockedAdvice, ToolAdvice, MissingAdvice, NoAdvice, Recommendation
<1>4. t[tool.category].status \in {"planned", "completed", "blocked"}
  BY DEF TaskStates, Statuses
<1>5. StageAdvice(t, tool, inputs) = NoAdvice
  BY DEF ReleaseStageAdvice
<1> QED
  BY <1>3, <1>4, <1>5 DEF StageAdvice, StageReady

LEMMA OrElseSilent ==
  ASSUME NEW said, NEW other, OrElse(said, other) = NoAdvice
  PROVE  said = NoAdvice /\ other = NoAdvice
BY DEF OrElse

LEMMA OrElseSays ==
  ASSUME NEW name, name # "", NEW other
  PROVE  OrElse(ToolAdvice(name), other) = ToolAdvice(name)
<1>1. ToolAdvice(name).tool = name /\ NoAdvice.tool = ""
  BY DEF ToolAdvice, NoAdvice, Recommendation
<1>2. ToolAdvice(name) # NoAdvice
  BY <1>1
<1> QED
  BY <1>2 DEF OrElse

LEMMA ToolsHaveNames == \A tool \in Tools : tool.name # ""
BY HandlersHonorRoutes, NameTellsKind DEF HonorsRoute

LEMMA TrioSpeaks ==
  ASSUME NEW co \in Companies, NEW t \in [TasksOf(co) -> TaskStates], ~ Blocked(t),
         NEW first \in Tools, NEW second \in Tools, NEW decision \in Tools,
         IsTrio(co, first, second, decision)
  PROVE  /\ \A tool \in {first, second, decision} :
              Due(t, tool.kind) =>
                TrioBranch(t, first, second, decision) = ToolAdvice(tool.name)
         /\ TrioBranch(t, first, second, decision) = NoAdvice =>
              \A kind \in KindsOf[co] : Recorded(t, kind)
<1> DEFINE one   == StageAdvice(t, first, {})
           two   == StageAdvice(t, second, {first.kind})
           three == StageAdvice(t, decision, {first.kind, second.kind})
<1>0. /\ {first.category, second.category, decision.category}
           \subseteq TasksOf(co)
      /\ first.needs = {} /\ second.needs = {first.kind}
      /\ decision.needs = {first.kind, second.kind}
  BY DEF IsTrio
<1>1. TrioBranch(t, first, second, decision) = OrElse(one, OrElse(two, three))
  BY DEF TrioBranch
<1>2. /\ Recorded(t, first.kind) => one = NoAdvice
      /\ Recorded(t, second.kind) => two = NoAdvice
      /\ Due(t, first.kind) => one = ToolAdvice(first.name)
      /\ Due(t, second.kind) => two = ToolAdvice(second.name)
      /\ Due(t, decision.kind) => three = ToolAdvice(decision.name)
  <2>1. /\ Recorded(t, first.kind) => one = NoAdvice
        /\ Due(t, first.kind) => one = ToolAdvice(first.name)
    BY <1>0, StageSpeaks
  <2>2. /\ Recorded(t, second.kind) => two = NoAdvice
        /\ Due(t, second.kind) => two = ToolAdvice(second.name)
    BY <1>0, StageSpeaks
  <2>3. Due(t, decision.kind) => three = ToolAdvice(decision.name)
    BY <1>0, StageSpeaks
  <2> QED
    BY <2>1, <2>2, <2>3
<1>3. /\ Due(t, second.kind) => Recorded(t, first.kind)
      /\ Due(t, decision.kind) =>
           Recorded(t, first.kind) /\ Recorded(t, second.kind)
  BY HandlersHonorRoutes DEF Due, IsTrio, HonorsRoute
<1>4. /\ one = NoAdvice => Recorded(t, first.kind)
      /\ two = NoAdvice /\ Recorded(t, first.kind) => Recorded(t, second.kind)
      /\ three = NoAdvice /\ Recorded(t, first.kind) /\ Recorded(t, second.kind)
           => Recorded(t, decision.kind)
  <2>1. one = NoAdvice => Recorded(t, first.kind)
    BY <1>0, StageSilent
  <2>2. two = NoAdvice /\ Recorded(t, first.kind) => Recorded(t, second.kind)
    BY <1>0, StageSilent
  <2>3. three = NoAdvice /\ Recorded(t, first.kind) /\ Recorded(t, second.kind)
          => Recorded(t, decision.kind)
    BY <1>0, StageSilent
  <2> QED
    BY <2>1, <2>2, <2>3
<1> HIDE DEF one, two, three
<1>5. ASSUME NEW tool \in {first, second, decision}, Due(t, tool.kind)
      PROVE  OrElse(one, OrElse(two, three)) = ToolAdvice(tool.name)
  <2>1. \A u \in Tools : /\ OrElse(ToolAdvice(u.name), OrElse(two, three))
                            = ToolAdvice(u.name)
                       /\ OrElse(ToolAdvice(u.name), three) = ToolAdvice(u.name)
    BY OrElseSays, ToolsHaveNames
  <2>2. /\ OrElse(NoAdvice, OrElse(two, three)) = OrElse(two, three)
        /\ OrElse(NoAdvice, three) = three
    BY DEF OrElse
  <2> QED
    BY <1>2, <1>3, <1>5, <2>1, <2>2
<1>6. ASSUME OrElse(one, OrElse(two, three)) = NoAdvice
      PROVE  \A kind \in KindsOf[co] : Recorded(t, kind)
  BY <1>4, <1>6, OrElseSilent DEF IsTrio
<1> QED
  BY <1>1, <1>5, <1>6

LEMMA ReleaseSpeaks ==
  ASSUME NEW t \in [TasksOf("release_hardening") -> TaskStates], ~ Blocked(t)
  PROVE  /\ \A kind \in KindsOf["release_hardening"] :
              Due(t, kind) =>
                ReleaseBranch(t) = ToolAdvice(LOCAL_ROUTES[kind].tool)
         /\ ReleaseBranch(t) = NoAdvice =>
              \A kind \in KindsOf["release_hardening"] : Recorded(t, kind)
<1> DEFINE a == create_release_checklist_artifact
           b == create_release_quality_gate_report
           c == create_release_notes_artifact
           d == prepare_release_readiness_decision
           one   == ReleaseStageAdvice(t, a, {})
           two   == ReleaseStageAdvice(t, b, {"release_checklist"})
           three == ReleaseStageAdvice(t, c, {"release_checklist",
                                              "release_quality_gate_report"})
           four  == ReleaseStageAdvice(t, d, {"release_checklist",
                                              "release_quality_gate_report",
                                              "release_notes_artifact"})
<1>1. ReleaseBranch(t) = OrElse(one, OrElse(two, OrElse(three, four)))
  BY DEF ReleaseBranch
<1>2. /\ {a, b, c, d} \subseteq Tools
      /\ {a.category, b.category, c.category, d.category}
           \subseteq TasksOf("release_hardening")
      /\ a.kind = "release_checklist" /\ a.needs = {}
      /\ b.kind = "release_quality_gate_report"
      /\ b.needs = {"release_checklist"}
      /\ c.kind = "release_notes_artifact"
      /\ c.needs = {"release_checklist", "release_quality_gate_report"}
      /\ d.kind = "release_readiness_decision"
      /\ d.needs = {"release_checklist", "release_quality_gate_report",
                    "release_notes_artifact"}
  BY TaskSets DEF Tools, DocumentTools, Handler,
     create_release_checklist_artifact, create_release_quality_gate_report,
     create_release_notes_artifact, prepare_release_readiness_decision
<1>3. /\ a.name = LOCAL_ROUTES["release_checklist"].tool
      /\ b.name = LOCAL_ROUTES["release_quality_gate_report"].tool
      /\ c.name = LOCAL_ROUTES["release_notes_artifact"].tool
      /\ d.name = LOCAL_ROUTES["release_readiness_decision"].tool
  BY <1>2, HandlersHonorRoutes DEF HonorsRoute
<1> HIDE DEF a, b, c, d
<1>0. ASSUME NEW tool \in {a, b, c, d}, NEW inputs, inputs = tool.needs
      PROVE  /\ Recorded(t, tool.kind) => ReleaseStageAdvice(t, tool, inputs) = NoAdvice
             /\ Due(t, tool.kind) =>
                  ReleaseStageAdvice(t, tool, inputs) = ToolAdvice(tool.name)
  <2>1. tool \in Tools /\ tool.category \in TasksOf("release_hardening")
    BY <1>2
  <2> QED
    BY <1>0, <2>1, StageSpeaks
<1>4. /\ Recorded(t, a.kind) => one = NoAdvice
      /\ Due(t, a.kind) => one = ToolAdvice(a.name)
  BY <1>0, <1>2
<1>5. /\ Recorded(t, b.kind) => two = NoAdvice
      /\ Due(t, b.kind) => two = ToolAdvice(b.name)
  BY <1>0, <1>2
<1>6. /\ Recorded(t, c.kind) => three = NoAdvice
      /\ Due(t, c.kind) => three = ToolAdvice(c.name)
  BY <1>0, <1>2
<1>7. Due(t, d.kind) => four = ToolAdvice(d.name)
  BY <1>0, <1>2
<1>8. /\ Due(t, b.kind) => Recorded(t, a.kind)
      /\ Due(t, c.kind) => Recorded(t, a.kind) /\ Recorded(t, b.kind)
      /\ Due(t, d.kind) =>
           Recorded(t, a.kind) /\ Recorded(t, b.kind) /\ Recorded(t, c.kind)
  BY <1>2, ReleaseRoutes DEF Due, RouteIs
<1>9. /\ one = NoAdvice => Recorded(t, a.kind)
      /\ two = NoAdvice /\ Recorded(t, a.kind) => Recorded(t, b.kind)
  BY <1>2, StageSilent
<1>10. ASSUME three = NoAdvice, Recorded(t, a.kind), Recorded(t, b.kind)
       PROVE  Recorded(t, c.kind)
  <2>1. \A kind \in {"release_checklist", "release_quality_gate_report"} :
          Recorded(t, kind)
    BY <1>2, <1>10
  <2> QED
    BY <1>2, <1>10, <2>1, StageSilent
<1>11. ASSUME four = NoAdvice,
              Recorded(t, a.kind), Recorded(t, b.kind), Recorded(t, c.kind)
       PROVE  Recorded(t, d.kind)
  <2>1. \A kind \in {"release_checklist", "release_quality_gate_report",
                     "release_notes_artifact"} : Recorded(t, kind)
    BY <1>2, <1>11
  <2> QED
    BY <1>2, <1>11, <2>1, StageSilent
<1>12. \A kind \in KindsOf["release_hardening"] :
         kind \in {a.kind, b.kind, c.kind, d.kind}
  BY <1>2 DEF KindsOf
<1> HIDE DEF one, two, three, four
<1>13. ASSUME NEW tool \in {a, b, c, d}, Due(t, tool.kind)
       PROVE  ReleaseBranch(t) = ToolAdvice(tool.name)
  <2>1. \A other : \A u \in Tools : OrElse(ToolAdvice(u.name), other)
                                    = ToolAdvice(u.name)
    BY OrElseSays, ToolsHaveNames
  <2>2. \A other : OrElse(NoAdvice, other) = other
    BY DEF OrElse
  <2>3. CASE tool = a
    BY <1>1, <1>2, <1>4, <1>13, <2>1, <2>3
  <2>4. CASE tool = b
    BY <1>1, <1>2, <1>4, <1>5, <1>8, <1>13, <2>1, <2>2, <2>4
  <2>5. CASE tool = c
    BY <1>1, <1>2, <1>4, <1>5, <1>6, <1>8, <1>13, <2>1, <2>2, <2>5
  <2>6. CASE tool = d
    BY <1>1, <1>4, <1>5, <1>6, <1>7, <1>8, <1>13, <2>2, <2>6
  <2> QED
    BY <2>3, <2>4, <2>5, <2>6
<1>14. ASSUME ReleaseBranch(t) = NoAdvice
       PROVE  \A kind \in KindsOf["release_hardening"] : Recorded(t, kind)
  <2>1. one = NoAdvice /\ two = NoAdvice /\ three = NoAdvice /\ four = NoAdvice
    BY <1>1, <1>14, OrElseSilent
  <2> QED
    BY <1>9, <1>10, <1>11, <1>12, <2>1
<1> QED
  BY <1>2, <1>3, <1>12, <1>13, <1>14

LEMMA BusinessSpeaks ==
  ASSUME NEW t \in [TasksOf("business_validation") -> TaskStates], ~ Blocked(t),
         NEW passed
  PROVE  /\ \A kind \in KindsOf["business_validation"] :
              Due(t, kind) /\ (Recorded(t, "landing_qa_report") => passed) =>
                BusinessBranch(t, passed) = ToolAdvice(LOCAL_ROUTES[kind].tool)
         /\ BusinessBranch(t, passed) = NoAdvice =>
              \A kind \in KindsOf["business_validation"] : Recorded(t, kind)
<1> DEFINE a == create_landing_artifact
           b == create_landing_qa_report
           c == prepare_github_pages_deploy_proposal
           one   == StageAdvice(t, a, {})
           two   == StageAdvice(t, b, {"landing_artifact"})
           three == StageAdvice(t, c, {"landing_artifact", "landing_qa_report"})
<1>2. /\ {a, b, c} \subseteq Tools
      /\ {a.category, b.category, c.category}
           \subseteq TasksOf("business_validation")
      /\ a.kind = "landing_artifact" /\ a.needs = {}
      /\ b.kind = "landing_qa_report" /\ b.needs = {"landing_artifact"}
      /\ c.kind = "github_pages_deploy_proposal"
      /\ c.needs = {"landing_artifact", "landing_qa_report"}
  BY TaskSets DEF Tools, LandingTools, Handler, create_landing_artifact,
     create_landing_qa_report, prepare_github_pages_deploy_proposal
<1>3. /\ a.name = LOCAL_ROUTES["landing_artifact"].tool
      /\ b.name = LOCAL_ROUTES["landing_qa_report"].tool
      /\ c.name = LOCAL_ROUTES["github_pages_deploy_proposal"].tool
  BY <1>2, HandlersHonorRoutes DEF HonorsRoute
<1>1. BusinessBranch(t, passed) =
        IF one # NoAdvice \/ ~ Recorded(t, a.kind) THEN one
        ELSE IF two # NoAdvice \/ ~ Recorded(t, b.kind) THEN two
        ELSE IF ~ passed THEN MissingAdvice(PassingQa) ELSE three
  BY <1>2 DEF BusinessBranch
<1> HIDE DEF a, b, c
<1>0. ASSUME NEW tool \in {a, b, c}, NEW inputs, inputs = tool.needs
      PROVE  /\ Recorded(t, tool.kind) => StageAdvice(t, tool, inputs) = NoAdvice
             /\ Due(t, tool.kind) =>
                  StageAdvice(t, tool, inputs) = ToolAdvice(tool.name)
  <2>1. tool \in Tools /\ tool.category \in TasksOf("business_validation")
    BY <1>2
  <2> QED
    BY <1>0, <2>1, StageSpeaks
<1>4. /\ Recorded(t, a.kind) => one = NoAdvice
      /\ Due(t, a.kind) => one = ToolAdvice(a.name)
  BY <1>0, <1>2
<1>5. /\ Recorded(t, b.kind) => two = NoAdvice
      /\ Due(t, b.kind) => two = ToolAdvice(b.name)
  BY <1>0, <1>2
<1>6. Due(t, c.kind) => three = ToolAdvice(c.name)
  BY <1>0, <1>2
<1>7. /\ Due(t, a.kind) => ~ Recorded(t, a.kind)
      /\ Due(t, b.kind) => Recorded(t, a.kind) /\ ~ Recorded(t, b.kind)
      /\ Due(t, c.kind) => Recorded(t, a.kind) /\ Recorded(t, b.kind)
  BY <1>2, BusinessRoutes DEF Due, RouteIs
<1>8. /\ one = NoAdvice => Recorded(t, a.kind)
      /\ two = NoAdvice /\ Recorded(t, a.kind) => Recorded(t, b.kind)
  BY <1>2, StageSilent
<1>9. ASSUME three = NoAdvice, Recorded(t, a.kind), Recorded(t, b.kind)
      PROVE  Recorded(t, c.kind)
  <2>1. \A kind \in {"landing_artifact", "landing_qa_report"} :
          Recorded(t, kind)
    BY <1>2, <1>9
  <2> QED
    BY <1>2, <1>9, <2>1, StageSilent
<1>10. \A kind \in KindsOf["business_validation"] :
         kind \in {a.kind, b.kind, c.kind}
  BY <1>2 DEF KindsOf
<1>11. MissingAdvice(PassingQa) # NoAdvice
  BY DEF MissingAdvice, NoAdvice, Recommendation, PassingQa
<1> HIDE DEF one, two, three
<1>12. ASSUME NEW tool \in {a, b, c}, Due(t, tool.kind),
              Recorded(t, b.kind) => passed
       PROVE  BusinessBranch(t, passed) = ToolAdvice(tool.name)
  BY <1>1, <1>4, <1>5, <1>6, <1>7, <1>12
<1>13. ASSUME BusinessBranch(t, passed) = NoAdvice
       PROVE  \A kind \in KindsOf["business_validation"] : Recorded(t, kind)
  BY <1>1, <1>8, <1>9, <1>10, <1>11, <1>13
<1> QED
  BY <1>2, <1>3, <1>10, <1>12, <1>13

LEMMA CompanySpeaks ==
  ASSUME NEW co \in Companies, NEW t \in [TasksOf(co) -> TaskStates], ~ Blocked(t),
         NEW passed
  PROVE  /\ \A kind \in KindsOf[co] :
              Due(t, kind) /\ (Recorded(t, "landing_qa_report") => passed) =>
                CompanyBranch(co, t, passed)
                  = ToolAdvice(LOCAL_ROUTES[kind].tool)
         /\ CompanyBranch(co, t, passed) = NoAdvice =>
              \A kind \in KindsOf[co] : Recorded(t, kind)
<1>1. CASE co = "business_validation"
  BY <1>1, BusinessSpeaks DEF CompanyBranch
<1>2. CASE co = "release_hardening"
  BY <1>2, ReleaseSpeaks DEF CompanyBranch
<1>3. CASE co \notin {"business_validation", "release_hardening"}
  <2>1. PICK first, second, decision \in Tools :
          /\ IsTrio(co, first, second, decision)
          /\ CompanyBranch(co, t, passed)
               = TrioBranch(t, first, second, decision)
    <3>1. co \in Companies \ {"business_validation", "release_hardening"}
      BY <1>3
    <3> QED
      BY <3>1, TrioCompany
  <2>2. ASSUME NEW kind \in KindsOf[co], Due(t, kind)
        PROVE  CompanyBranch(co, t, passed)
                 = ToolAdvice(LOCAL_ROUTES[kind].tool)
    <3>1. PICK tool \in {first, second, decision} : tool.kind = kind
      BY <2>1 DEF IsTrio
    <3>2. tool.name = LOCAL_ROUTES[kind].tool
      BY <3>1, HandlersHonorRoutes DEF HonorsRoute
    <3> QED
      BY <2>1, <2>2, <3>1, <3>2, TrioSpeaks
  <2>3. CompanyBranch(co, t, passed) = NoAdvice =>
          \A kind \in KindsOf[co] : Recorded(t, kind)
    <3>1. TrioBranch(t, first, second, decision) = NoAdvice =>
            \A kind \in KindsOf[co] : Recorded(t, kind)
      BY <2>1, TrioSpeaks
    <3> QED
      BY <2>1, <3>1
  <2> QED
    BY <2>2, <2>3
<1> QED
  BY <1>1, <1>2, <1>3

(* A company with a kind for a task has a kind of its own for it. *)
LEMMA OwnKindServes ==
  ASSUME NEW co \in Companies, NEW kind \in Kinds,
         LOCAL_ROUTES[kind].category \in TasksOf(co)
  PROVE  \E own \in KindsOf[co] \cap Kinds :
           LOCAL_ROUTES[own].category = LOCAL_ROUTES[kind].category
<1> USE TheKinds, BusinessRoutes, ReleaseRoutes, GrowthRoutes, DeliveryRoutes,
        DesignRoutes, ImplementationRoutes, PlanQualityRoutes,
        VerificationRoutes DEF RouteIs, KindsOf
<1>1. CASE co = "business_validation"
  BY <1>1, TaskSets
<1>2. CASE co = "release_hardening"
  BY <1>2, TaskSets
<1>3. CASE co = "growth_brief"
  BY <1>3, TaskSets
<1>4. CASE co = "delivery_planning"
  BY <1>4, TaskSets
<1>5. CASE co = "design_review"
  BY <1>5, TaskSets
<1>6. CASE co = "implementation_planning"
  BY <1>6, TaskSets
<1>7. CASE co = "implementation_plan_quality"
  BY <1>7, TaskSets
<1>8. CASE co = "verification_orchestration"
  BY <1>8, TaskSets
<1> QED
  BY <1>1, <1>2, <1>3, <1>4, <1>5, <1>6, <1>7, <1>8, TheCompanies

(* An advisor that has nothing to say has everything recorded that a tool  *)
(* can make for the tasks of the run.                                      *)
THEOREM SilenceAlwaysMeansDone == Spec => []SilenceMeansDone
<1>1. IInv => SilenceMeansDone
  <2> SUFFICES ASSUME IInv, advice = NoAdvice, NEW c \in DOMAIN tasks,
                      NEW kind \in Kinds, LOCAL_ROUTES[kind].category = c
               PROVE  \E own \in Kinds : /\ LOCAL_ROUTES[own].category = c
                                         /\ own \in tasks[c].refs
    BY DEF SilenceMeansDone
  <2>1. /\ company \in Companies
        /\ tasks \in [TasksOf(company) -> TaskStates]
        /\ AtHome(tasks)
    BY PagesAssumption DEF IInv, TypeOK
  <2>2. ~ Blocked(tasks)
    <3>1. BlockedAdvice # NoAdvice
      BY DEF BlockedAdvice, NoAdvice, Recommendation
    <3> QED
      BY <3>1, BlockedAdviceOfRun DEF advice
  <2>3. CompanyBranch(company, tasks, qaPassed) = NoAdvice
    BY OrElseSilent DEF advice, recommend_next_tool_call
  <2>4. \A own \in KindsOf[company] : Recorded(tasks, own)
    BY <2>1, <2>2, <2>3, CompanySpeaks
  <2>5. PICK own \in KindsOf[company] \cap Kinds : LOCAL_ROUTES[own].category = c
    BY <2>1, OwnKindServes
  <2> QED
    BY <2>1, <2>4, <2>5 DEF Recorded, AtHome
<1> QED
  BY Invariance, <1>1, PTL

(* The walk and the branches name the same tool: a tool is named only for  *)
(* a kind that is due, and at most one kind is.                            *)
THEOREM WalkAlwaysAgrees == Spec => []WalkAgreesWithBranches
<1>1. IInv => WalkAgreesWithBranches
  <2> DEFINE walk   == route_recommendation_for_company_goal(company, tasks)
             branch == CompanyBranch(company, tasks, qaPassed)
  <2> SUFFICES ASSUME IInv, walk.tool # "", report # "failed"
               PROVE  walk = branch
    BY DEF WalkAgreesWithBranches
  <2>1. /\ company \in Companies
        /\ tasks \in [TasksOf(company) -> TaskStates]
        /\ AtHome(tasks)
    BY PagesAssumption DEF IInv, TypeOK
  <2>2. ~ Blocked(tasks)
    <3>1. BlockedAdvice.tool = ""
      BY DEF BlockedAdvice, Recommendation
    <3> QED
      BY <3>1 DEF route_recommendation_for_company_goal
  <2>3. PICK kind \in Kinds :
          walk = ToolAdvice(LOCAL_ROUTES[kind].tool) /\ Due(tasks, kind)
    BY <2>1, WalkSound DEF Sound
  <2>4. kind \in KindsOf[company]
    BY <2>1, <2>3, DueBelongs
  <2>5. Recorded(tasks, "landing_qa_report") => qaPassed
    BY LandingRoutes
       DEF IInv, TypeOK, EC!ChainInv, RecordedKinds, qaPassed
  <2> HIDE DEF walk
  <2> QED
    BY <2>1, <2>2, <2>3, <2>4, <2>5, CompanySpeaks
<1> QED
  BY Invariance, <1>1, PTL

-----------------------------------------------------------------------------
(* The phase.  A stage is open when its kind is due, and its phase is that *)
(* of the department; the kinds without a stage belong to the landing page *)
(* or are decisions.                                                       *)
StageOf(i, kind) ==
  /\ OpenStages[i].tool \in Tools
  /\ OpenStages[i].tool.kind = kind
  /\ OpenStages[i].inputs = OpenStages[i].tool.needs
  /\ OpenStages[i].phase = PhaseOfCategory(OpenStages[i].tool.category)

LEMMA TheStages ==
  /\ StageOf(1, "release_checklist")
  /\ StageOf(2, "release_quality_gate_report")
  /\ StageOf(3, "release_notes_artifact")
  /\ StageOf(4, "growth_brief_artifact")
  /\ StageOf(5, "growth_experiment_plan_artifact")
  /\ StageOf(6, "delivery_scope_brief_artifact")
  /\ StageOf(7, "delivery_execution_plan_artifact")
  /\ StageOf(8, "architecture_brief_artifact")
  /\ StageOf(9, "implementation_plan_artifact")
<1> USE DEF StageOf, OpenStages, OpenStage, PhaseOfCategory, Tools, DocumentTools,
            Handler
<1>1. /\ StageOf(1, "release_checklist")
      /\ StageOf(2, "release_quality_gate_report")
      /\ StageOf(3, "release_notes_artifact")
  BY DEF create_release_checklist_artifact,
         create_release_quality_gate_report,
         create_release_notes_artifact
<1>2. /\ StageOf(4, "growth_brief_artifact")
      /\ StageOf(5, "growth_experiment_plan_artifact")
  BY DEF create_growth_brief_artifact,
         create_growth_experiment_plan_artifact
<1>3. /\ StageOf(6, "delivery_scope_brief_artifact")
      /\ StageOf(7, "delivery_execution_plan_artifact")
  BY DEF create_delivery_scope_brief_artifact,
         create_delivery_execution_plan_artifact
<1>4. /\ StageOf(8, "architecture_brief_artifact")
      /\ StageOf(9, "implementation_plan_artifact")
  BY DEF create_architecture_brief_artifact,
         create_implementation_plan_artifact
<1> QED
  BY <1>1, <1>2, <1>3, <1>4

LEMMA StageIsDue ==
  ASSUME NEW t, NEW i \in 1 .. 9
  PROVE  /\ IsOpen(t, OpenStages[i]) <=> Due(t, OpenStages[i].tool.kind)
         /\ OpenStages[i].tool \in Tools
         /\ OpenStages[i].phase = PhaseOfCategory(OpenStages[i].tool.category)
<1>1. \E kind : StageOf(i, kind)
  BY TheStages
<1>2. HonorsRoute(OpenStages[i].tool)
  BY <1>1, HandlersHonorRoutes DEF StageOf
<1> QED
  BY <1>1, <1>2 DEF StageOf, IsOpen, StageReady, Due, HonorsRoute

LEMMA KindWithoutStage ==
  ASSUME NEW kind \in Kinds \ KindsOf["business_validation"],
         \A i \in 1 .. 9 : OpenStages[i].tool.kind # kind
  PROVE  PhaseOfCategory(LOCAL_ROUTES[kind].category) = "decision"
<1>1. kind \notin {"release_checklist",
                  "release_quality_gate_report",
                  "release_notes_artifact",
                  "growth_brief_artifact",
                  "growth_experiment_plan_artifact",
                  "delivery_scope_brief_artifact",
                  "delivery_execution_plan_artifact",
                  "architecture_brief_artifact",
                  "implementation_plan_artifact"}
  BY TheStages DEF StageOf
<1> QED
  BY <1>1, TheKinds, ReleaseRoutes, GrowthRoutes, DeliveryRoutes, DesignRoutes,
     ImplementationRoutes, PlanQualityRoutes, VerificationRoutes
     DEF RouteIs, KindsOf, PhaseOfCategory

LEMMA DueTellsPhase ==
  ASSUME NEW co \in Companies, NEW t \in [TasksOf(co) -> TaskStates], AtHome(t),
         ~ Blocked(t), NEW kind \in Kinds, Due(t, kind)
  PROVE  detect_goal_phase(t) = PhaseOfCategory(LOCAL_ROUTES[kind].category)
<1>1. ~ AllCompleted(t) /\ ~ AwaitsApproval(t)
  BY DEF Due, AllCompleted, AwaitsApproval, Blocked
<1>2. CASE \E i \in DOMAIN OpenStages : IsOpen(t, OpenStages[i])
  <2>1. PICK i \in 1 .. 9 : /\ FirstOpenStage(t) = OpenStages[i]
                           /\ IsOpen(t, OpenStages[i])
    BY <1>2, FirstOpenStageGoesOn
  <2>2. HonorsRoute(OpenStages[i].tool)
    BY StageIsDue, HandlersHonorRoutes
  <2>3. OpenStages[i].tool.kind = kind
    BY <2>1, <2>2, StageIsDue, OneDue DEF HonorsRoute
  <2>4. OpenStages[i].phase = PhaseOfCategory(LOCAL_ROUTES[kind].category)
    BY <2>2, <2>3, StageIsDue DEF HonorsRoute
  <2> QED
    BY <1>1, <1>2, <2>1, <2>4 DEF detect_goal_phase
<1>3. CASE ~ \E i \in DOMAIN OpenStages : IsOpen(t, OpenStages[i])
  <2>1. detect_goal_phase(t) = LandingPhase(t)
    BY <1>1, <1>3 DEF detect_goal_phase
  <2>2. kind \in KindsOf[co]
    BY DueBelongs
  <2>3. CASE co = "business_validation"
    <3>1. {"landing_page", "testing", "github_pages"} \subseteq DOMAIN t
      BY <2>3, TaskSets
    <3>2. kind \in {"landing_artifact", "landing_qa_report",
                    "github_pages_deploy_proposal"}
      BY <2>2, <2>3 DEF KindsOf
    <3>3. LandingPhase(t) = PhaseOfCategory(LOCAL_ROUTES[kind].category)
      BY <3>1, <3>2, BusinessRoutes DEF LandingPhase, PhaseOfCategory, Due, RouteIs
    <3> QED
      BY <2>1, <3>3
  <2>4. CASE co # "business_validation"
    <3>1. "landing_page" \notin DOMAIN t
      BY <2>4, TaskSets, TheCompanies
    <3>2. LandingPhase(t) = "decision"
      BY <3>1 DEF LandingPhase
    <3>3. \A i \in 1 .. 9 : OpenStages[i].tool.kind # kind
      BY <1>3, StageIsDue, OpenStagesGoOn
    <3>4. kind \notin KindsOf["business_validation"]
      <4>1. ASSUME kind \in KindsOf["business_validation"]
            PROVE  LOCAL_ROUTES[kind].category \in
                     {"landing_page", "testing", "github_pages"}
        BY <4>1, BusinessRoutes DEF KindsOf, RouteIs
      <4>2. {"landing_page", "testing", "github_pages"} \cap DOMAIN t = {}
        BY <2>4, TaskSets, TheCompanies
      <4> QED
        BY <4>1, <4>2 DEF Due
    <3> QED
      BY <2>1, <3>2, <3>3, <3>4, KindWithoutStage
  <2> QED
    BY <2>3, <2>4
<1> QED
  BY <1>2, <1>3

(* A tool is recommended only in the phase of the department that owns it. *)
LEMMA PhaseFits == IInv => PhaseFitsAdvice
<1> SUFFICES ASSUME IInv, NEW tool \in Tools, tool.name = advice.tool
             PROVE  phase = PhaseOfCategory(tool.category)
  BY DEF PhaseFitsAdvice
<1>1. /\ company \in Companies
      /\ tasks \in [TasksOf(company) -> TaskStates]
      /\ AtHome(tasks)
  BY PagesAssumption DEF IInv, TypeOK
<1>2. /\ tool.kind \in Kinds
      /\ tool.category = LOCAL_ROUTES[tool.kind].category
  BY HandlersHonorRoutes DEF HonorsRoute
<1>3. Due(tasks, tool.kind)
  BY <1>1, AdviceSound, SoundToolIsDue DEF advice
<1>4. ~ Blocked(tasks)
  <2>1. BlockedAdvice.tool = ""
    BY DEF BlockedAdvice, Recommendation
  <2> QED
    BY <2>1, BlockedAdviceOfRun, ToolsHaveNames DEF advice
<1> QED
  BY <1>1, <1>2, <1>3, <1>4, DueTellsPhase DEF phase

(* A tool is recommended only in the phase of its department, in every     *)
(* state of every run.                                                     *)
THEOREM PhaseAlwaysFitsAdvice == Spec => []PhaseFitsAdvice
BY Invariance, PhaseFits, PTL

-----------------------------------------------------------------------------
(* Which tasks are blocked: that of a failed QA report, and that of a      *)
(* proposal which waits for its approval.                                  *)
BlockedTasks(t) ==
  \A c \in DOMAIN t :
    t[c].status = "blocked" =>
      \/ c = "testing"
      \/ c = "github_pages" /\ "github_pages_deploy_proposal" \in t[c].refs

LEMMA BlockedByResult ==
  ASSUME NEW t, BlockedTasks(t), NEW c, NEW kind, NEW status,
         status # "completed" =>
           \/ c = "testing"
           \/ c = "github_pages" /\ kind = "github_pages_deploy_proposal",
         NEW u, u = [t EXCEPT ![c] = task_with_result(@, kind, status)]
  PROVE  BlockedTasks(u)
<1>1. DOMAIN u = DOMAIN t
  OBVIOUS
<1>2. \A d \in DOMAIN t :
        d # c => u[d] = t[d]
  OBVIOUS
<1>3. c \in DOMAIN t => u[c].status = status /\ kind \in u[c].refs
  BY DEF task_with_result
<1> QED
  BY <1>1, <1>2, <1>3 DEF BlockedTasks

LEMMA BlockedStep ==
  ASSUME BlockedTasks(tasks), [Next]_vars
  PROVE  BlockedTasks(tasks')
<1>1. ASSUME NEW tool \in DocumentTools, CallDocumentTool(tool)
      PROVE  BlockedTasks(tasks')
  BY <1>1, BlockedByResult DEF CallDocumentTool, AfterTool
<1>2. ASSUME CreateLandingArtifact PROVE BlockedTasks(tasks')
  BY <1>2, BlockedByResult DEF CreateLandingArtifact, AfterTool
<1>3. ASSUME CreateLandingQaReport PROVE BlockedTasks(tasks')
  <2>1. create_landing_qa_report.category = "testing"
    BY DEF create_landing_qa_report, Handler
  <2> QED
    BY <1>3, <2>1, BlockedByResult DEF CreateLandingQaReport, AfterTool
<1>4. ASSUME PrepareDeployProposal PROVE BlockedTasks(tasks')
  <2>1. /\ prepare_github_pages_deploy_proposal.category = "github_pages"
        /\ prepare_github_pages_deploy_proposal.kind
             = "github_pages_deploy_proposal"
    BY DEF prepare_github_pages_deploy_proposal, Handler
  <2> QED
    BY <1>4, <2>1, BlockedByResult DEF PrepareDeployProposal, AfterTool
<1>5. ASSUME ExecuteDeploy PROVE BlockedTasks(tasks')
  BY <1>5, BlockedByResult DEF ExecuteDeploy
<1>6. ASSUME NEW c, RecordWorkResult(c) PROVE BlockedTasks(tasks')
  BY <1>6, BlockedByResult DEF RecordWorkResult, record_work_result
<1>7. ASSUME Advance PROVE BlockedTasks(tasks')
  BY <1>1, <1>2, <1>3, <1>4, <1>7 DEF Advance, CallTool
<1>8. ASSUME PrepareExecutionPlan \/ EditPage \/ UNCHANGED vars
      PROVE  BlockedTasks(tasks')
  BY <1>8 DEF PrepareExecutionPlan, EditPage, vars, BlockedTasks
<1> QED
  BY <1>1, <1>2, <1>3, <1>4, <1>5, <1>6, <1>7, <1>8 DEF Next

LEMMA BlockedAlways == Spec => []BlockedTasks(tasks)
<1>1. Init => BlockedTasks(tasks)
  BY DEF Init, BlockedTasks, Planned
<1>2. BlockedTasks(tasks) /\ [Next]_vars => BlockedTasks(tasks)'
  BY BlockedStep DEF BlockedTasks
<1> QED
  BY <1>1, <1>2, PTL DEF Spec

(* What has been recorded stays so. *)
LEMMA RecordedStays ==
  ASSUME IInv, [Next]_vars, NEW kind \in Kinds, Recorded(tasks, kind)
  PROVE  Recorded(tasks', kind)
<1>1. [EC!ChainNext]_(EC!chain)
  BY NextStep
<1>2. RecordedKinds \subseteq RecordedKinds'
  BY <1>1 DEF EC!ChainNext, EC!chain, EC!Record
<1> QED
  BY <1>2 DEF RecordedKinds, Recorded

-----------------------------------------------------------------------------
(* Progress of local steps.  A client that keeps calling the supervisor    *)
(* cannot run for ever: no tool is recommended once its result is recorded,*)
(* and each local step records one more of finitely many kinds.            *)

(* A tool whose result the run has is not fresh, because the result is     *)
(* recorded on the task of the tool.                                       *)
LEMMA RecordedIsNotFresh ==
  ASSUME IInv, NEW tool \in Tools, Callable(tasks, tool)
  PROVE  Fresh(tasks, tool) <=> ~ Recorded(tasks, tool.kind)
<1>1. tool.kind \in Kinds /\ LOCAL_ROUTES[tool.kind].category = tool.category
  BY HandlersHonorRoutes DEF HonorsRoute
<1>2. tool.category \in DOMAIN tasks
  BY DEF Callable
<1> QED
  BY <1>1, <1>2 DEF IInv, AtHome, Recorded, Fresh

(* The tool that a turn runs has recorded its result.                      *)
LEMMA ToolRecords ==
  ASSUME TypeOK, NEW tool \in Tools, CallTool(tool)
  PROVE  Recorded(tasks', tool.kind)
<1>1. Callable(tasks, tool) /\ \E status : tasks' = AfterTool(tasks, tool, status)
  BY DEF CallTool, CreateLandingArtifact, CreateLandingQaReport,
         PrepareDeployProposal, CallDocumentTool
<1>2. PICK status : tasks' = AfterTool(tasks, tool, status)
  BY <1>1
<1>3. /\ tool.category \in DOMAIN tasks
      /\ DOMAIN tasks' = DOMAIN tasks
      /\ tasks'[tool.category] = task_with_result(tasks[tool.category],
                                                  tool.kind, status)
  BY <1>1, <1>2 DEF Callable, AfterTool, TypeOK
<1> QED
  BY <1>3 DEF Recorded, task_with_result

(* The supervisor never recommends a tool whose result the run has: not    *)
(* even the proposal after a failed report, because a recorded proposal    *)
(* had a report that passed.                                               *)
RecordedNotRecommended ==
  \A tool \in Tools : Recorded(tasks, tool.kind) => advice.tool # tool.name

THEOREM RecordedNeverRecommended == Spec => []RecordedNotRecommended
<1>1. ASSUME IInv, RecommendedToolRuns, DeploymentReviewed
      PROVE  RecordedNotRecommended
  <2>1. SUFFICES ASSUME NEW tool \in Tools, Recorded(tasks, tool.kind),
                        tool.name = advice.tool
                 PROVE  FALSE
    BY DEF RecordedNotRecommended
  <2>2. tool = prepare_github_pages_deploy_proposal => qaPassed
    <3>1. ASSUME tool = prepare_github_pages_deploy_proposal
          PROVE  "github_pages_deploy_proposal" \in RecordedKinds
      <4>1. tool.kind = "github_pages_deploy_proposal"
        BY <3>1 DEF prepare_github_pages_deploy_proposal, Handler
      <4> QED
        BY <2>1, <4>1, LandingRoutes DEF RecordedKinds
    <3> QED
      BY <1>1, <3>1 DEF DeploymentReviewed, Chain!DeploymentReviewed, qaPassed
  <2>3. Callable(tasks, tool) /\ Fresh(tasks, tool)
    BY <1>1, <2>1, <2>2 DEF RecommendedToolRuns
  <2> QED
    BY <1>1, <2>1, <2>3, RecordedIsNotFresh
<1> QED
  BY <1>1, Invariance, RecommendedToolAlwaysRuns, DeploymentAlwaysReviewed, PTL

(* A local step records the result of the tool that was recommended, which *)
(* the run did not have: with RunKeepsResults, a run has no more local     *)
(* steps than kinds.                                                       *)
StepRecordsAdvised ==
  [][Advance => \E tool \in Tools :
       /\ tool.name = advice.tool
       /\ ~ Recorded(tasks, tool.kind) /\ Recorded(tasks', tool.kind)]_vars

THEOREM LocalStepAlwaysRecords == Spec => StepRecordsAdvised
<1>1. ASSUME IInv, Advance
      PROVE  \E tool \in Tools :
               /\ tool.name = advice.tool
               /\ ~ Recorded(tasks, tool.kind) /\ Recorded(tasks', tool.kind)
  <2>1. PICK tool \in Tools : CallTool(tool) /\ tool.name = advice.tool
    BY <1>1 DEF Advance
  <2>2. Callable(tasks, tool) /\ Fresh(tasks, tool)
    BY <2>1 DEF CallTool, CreateLandingArtifact, CreateLandingQaReport,
                PrepareDeployProposal, CallDocumentTool
  <2>3. ~ Recorded(tasks, tool.kind)
    BY <1>1, <2>2, RecordedIsNotFresh
  <2>4. Recorded(tasks', tool.kind)
    BY <1>1, <2>1, ToolRecords DEF IInv
  <2> QED
    BY <2>1, <2>3, <2>4
<1> QED
  BY <1>1, Invariance, PTL DEF StepRecordsAdvised
=============================================================================
