----------------------------- MODULE CompanyRun -----------------------------
(***************************************************************************)
(* One run of one company, served by a single Workroom server: every tool  *)
(* call is one step, because the server answers one call at a time and     *)
(* each tool loads the run, works and saves it (agent_session.py).        *)
(*                                                                         *)
(* The actors are the client (Codex), who calls the tools in any order,    *)
(* records hand-made results for any task and calls advance_company_goal;  *)
(* the user, who may edit the landing page in the workspace; and the       *)
(* operator who approves the deployment.                                   *)
(***************************************************************************)
EXTENDS Advisor

CONSTANTS
  RunCompanies,   \* the companies this instance starts
  Pages,          \* the contents the landing page may have
  PassingPages,   \* those that pass the checks of the landing QA
  GeneratedPage   \* the content create_landing_artifact writes

ASSUME PagesAssumption ==
  /\ RunCompanies \subseteq Companies
  /\ PassingPages \subseteq Pages
  /\ GeneratedPage \in PassingPages

VARIABLES
  company,    \* the company of the run
  tasks,      \* state.json: the tasks of the run
  page,       \* the landing page's index.html
  report,     \* qa_report.json: "none", "passed" or "failed"
  reviewed,   \* the page content that the QA report is about
  proposed,   \* the page content copied into the deploy proposal
  planned     \* an operation_plan.json of the proposal exists

vars == << company, tasks, page, report, reviewed, proposed, planned >>
files == << page, report, reviewed, proposed, planned >>

NoPage == "no page"

(* A mutant: that there is a report is enough. *)
qaReported == report # "none"

qaPassed == report = "passed"

advice == recommend_next_tool_call(company, tasks, qaPassed)

phase == detect_goal_phase(tasks)

-----------------------------------------------------------------------------
Init ==
  /\ company \in RunCompanies
  /\ tasks = [c \in TasksOf(company) |-> Planned]
  /\ page = NoPage /\ reviewed = NoPage /\ proposed = NoPage
  /\ report = "none"
  /\ planned = FALSE

CallDocumentTool(tool) ==
  /\ Callable(tasks, tool) /\ Fresh(tasks, tool)
  /\ tasks' = AfterTool(tasks, tool, "completed")
  /\ UNCHANGED << company, files >>

CreateLandingArtifact ==
  /\ Callable(tasks, create_landing_artifact)
  /\ Fresh(tasks, create_landing_artifact)
  /\ page' = GeneratedPage
  /\ tasks' = AfterTool(tasks, create_landing_artifact, "completed")
  /\ UNCHANGED << company, report, reviewed, proposed, planned >>

(* The checks read the page as it is now. A failed report blocks the task, *)
(* and the report is never written again.                                  *)
CreateLandingQaReport ==
  /\ Callable(tasks, create_landing_qa_report)
  /\ Fresh(tasks, create_landing_qa_report)
  /\ report' = IF page \in PassingPages THEN "passed" ELSE "failed"
  /\ reviewed' = page
  /\ tasks' = AfterTool(tasks, create_landing_qa_report,
                        IF page \in PassingPages THEN "completed"
                                                 ELSE "blocked")
  /\ UNCHANGED << company, page, proposed, planned >>

(* Copies the page as it is now and blocks the task until the deployment   *)
(* is approved and executed.  Raises unless the QA report has passed.      *)
PrepareDeployProposal ==
  LET tool == prepare_github_pages_deploy_proposal
  IN  /\ Callable(tasks, tool) /\ Fresh(tasks, tool)
      /\ result_ref_recorded_on_category(tasks, "landing_artifact",
                                         "landing_page")
      /\ result_ref_recorded_on_category(tasks, "landing_qa_report",
                                         "testing")
      /\ qaPassed
      /\ proposed' = page
      /\ tasks' = AfterTool(tasks, tool, "blocked")
      /\ UNCHANGED << company, page, report, reviewed, planned >>

(* Writes the plan with its approval phrase; the run is not saved. *)
PrepareExecutionPlan ==
  /\ result_ref_recorded_on_category(tasks, "github_pages_deploy_proposal",
                                     "github_pages")
  /\ planned' = TRUE
  /\ UNCHANGED << company, tasks, page, report, reviewed, proposed >>

(* The operator passes a plan ref and the phrase the plan names. What the  *)
(* deployment does to the target checkout is left to GitHubPagesDeploy.    *)
ExecuteDeploy ==
  /\ planned
  /\ tasks' = [tasks EXCEPT !["github_pages"] =
                 task_with_result(@, Evidence, "completed")]
  /\ UNCHANGED << company, files >>

RecordWorkResult(c) ==
  /\ c \in DOMAIN tasks
  /\ AcceptsWorkResult(tasks[c])
  /\ tasks' = record_work_result(tasks, c)
  /\ UNCHANGED << company, files >>

CallTool(tool) ==
  \/ tool = create_landing_artifact /\ CreateLandingArtifact
  \/ tool = create_landing_qa_report /\ CreateLandingQaReport
  \/ tool = prepare_github_pages_deploy_proposal /\ PrepareDeployProposal
  \/ tool \in DocumentTools /\ CallDocumentTool(tool)

(* advance_company_goal, when its turn executes a local step: the tool     *)
(* that is recommended is called.  If the tool raises, nothing changes.    *)
Advance ==
  /\ plan_supervisor_transition(phase, advice) = "local_step"
  /\ \E tool \in Tools : CallTool(tool) /\ tool.name = advice.tool

(* The index.html of the landing artifact is a file in the user's          *)
(* workspace.                                                              *)
EditPage ==
  /\ page # NoPage
  /\ page' \in Pages
  /\ UNCHANGED << company, tasks, report, reviewed, proposed, planned >>

Next ==
  \/ \E tool \in DocumentTools : CallDocumentTool(tool)
  \/ CreateLandingArtifact
  \/ CreateLandingQaReport
  \/ PrepareDeployProposal
  \/ PrepareExecutionPlan
  \/ ExecuteDeploy
  \/ \E c \in TasksOf(company) : RecordWorkResult(c)
  \/ Advance
  \/ EditPage

Spec == Init /\ [][Next]_vars

(* A client that keeps calling advance_company_goal: nothing else in the   *)
(* program moves a run forward by itself.                                  *)
FairSpec == Spec /\ WF_vars(Advance)

-----------------------------------------------------------------------------
(* Type invariant of the run and its files. *)
TypeOK ==
  /\ company \in RunCompanies
  /\ tasks \in [TasksOf(company) -> TaskStates]
  /\ page \in Pages \cup {NoPage}
  /\ reviewed \in Pages \cup {NoPage}
  /\ proposed \in Pages \cup {NoPage}
  /\ report \in {"none", "passed", "failed"}
  /\ planned \in BOOLEAN

(* The run as an evidence chain: the kinds recorded in it, and the verdict *)
(* of the QA report.  The deployment evidence rests on the proposal.       *)
RecordedKinds == {k \in Kinds \cup {Evidence} : Recorded(tasks, k)}

Requires ==
  [k \in Kinds \cup {Evidence} |->
     IF k = Evidence THEN {"github_pages_deploy_proposal"}
                     ELSE LOCAL_ROUTES[k].requires]

Chain == INSTANCE EvidenceChain WITH
  Kinds      <- Kinds \cup {Evidence},
  Review     <- "landing_qa_report",
  Proposal   <- "github_pages_deploy_proposal",
  Deployment <- Evidence,
  recorded   <- RecordedKinds,
  verdict    <- report

(* Every run of the tools is an evidence chain: whatever the order of the  *)
(* calls, the handlers record a result only on top of the results that the *)
(* route table names for it, never take one back, propose the page only    *)
(* after a passed QA report and record a deployment only after a proposal. *)
ImplementsEvidenceChain == Chain!ChainSpec

(* Whatever a recorded result rests on, according to the route table, is   *)
(* itself recorded in the run (the checks at the top of every handler).    *)
ChainClosed == Chain!ChainClosed

(* A proposed or executed deployment has a QA report that passed, and an   *)
(* executed one had an operation plan.                                     *)
DeploymentReviewed ==
  /\ Chain!DeploymentReviewed
  /\ Recorded(tasks, Evidence) => planned

(* advance_company_goal never gets an error from the tool it runs: a tool  *)
(* that is recommended can be called with what the run has recorded, and   *)
(* has a result to produce.  (The proposal is excepted while the report    *)
(* has not passed: see NoProposalAdviceWithoutPassingQa.)                  *)
RecommendedToolRuns ==
  LET recommended == advice.tool
  IN  \A tool \in Tools :
        /\ tool.name = recommended
        /\ tool = prepare_github_pages_deploy_proposal => qaPassed
        => Callable(tasks, tool) /\ Fresh(tasks, tool)

(* Silence means that the work is done: if the advisor names no tool, no   *)
(* blocker and no missing prerequisite, every task that any local route    *)
(* serves has a result of that route's kind.                               *)
SilenceMeansDone ==
  advice = NoAdvice =>
    \A c \in DOMAIN tasks :
      LET served == {k \in Kinds : LOCAL_ROUTES[k].category = c}
      IN  served # {} => served \cap tasks[c].refs # {}

(* The walk along the routes replaced the hand-written branches and must   *)
(* say what they said: the same tool wherever the walk names one and the   *)
(* QA report, if there is one, has passed.                                 *)
WalkAgreesWithBranches ==
  LET walk == route_recommendation_for_company_goal(company, tasks)
  IN  walk.tool # "" /\ report # "failed" =>
        walk = CompanyBranch(company, tasks, qaPassed)

(* The supervisor's phase and the advisor's recommendation are computed    *)
(* from the same run by different code: a tool is recommended only in the  *)
(* phase of the department that owns it.                                   *)
PhaseOfCategory(c) ==
  CASE c \in {"landing_page", "release_plan", "release_notes", "market_brief",
              "experiment_plan", "scope_brief"}  -> "local_production"
    [] c \in {"testing", "quality_gates"}        -> "qa"
    [] c \in {"execution_plan", "architecture_brief",
              "implementation_plan"}             -> "planning"
    [] c = "github_pages"                        -> "deploy_preparation"
    [] OTHER                                     -> "decision"

PhaseFitsAdvice ==
  LET recommended == advice.tool
  IN  \A tool \in Tools :
        tool.name = recommended => phase = PhaseOfCategory(tool.category)

(* A supervisor turn stops at blockers and approval gates: it stops when   *)
(* any task is blocked, and only then; it asks for an approval only of a   *)
(* proposal whose QA report has passed; and it says that the run is        *)
(* complete only when no task is left.                                     *)
TurnStopsAtGates ==
  LET turn == plan_supervisor_transition(phase, advice)
  IN  /\ (\E c \in DOMAIN tasks : tasks[c].status = "blocked")
           <=> turn \in {"blocked", "approval_required"}
      /\ turn = "approval_required" =>
           Recorded(tasks, "github_pages_deploy_proposal") /\ qaPassed
      /\ turn = "complete" =>
           \A c \in DOMAIN tasks : tasks[c].status = "completed"

(* docs/plans/2026-06-01-recommend-next-tool-call-implementation.md:205    *)
(* says that the proposal is not recommended when the QA report exists but *)
(* has not passed.                                                         *)
NoProposalAdviceWithoutPassingQa ==
  advice.tool = prepare_github_pages_deploy_proposal.name => qaPassed

(* A client that keeps calling advance_company_goal reaches, and stays in, *)
(* a state where no local step is left, whatever else is called and edited *)
(* meanwhile.  The exception is the proposal that is recommended although  *)
(* the QA report has failed: it raises on every call.                      *)
SupervisorDrains ==
  <>[](advice.tool \in LOCAL_STEP_TOOL_NAMES =>
         ~ NoProposalAdviceWithoutPassingQa)

(* README.md:359 says that the proposal copies the reviewed index.html     *)
(* after a passing QA report.                                              *)
ProposalCopiesReviewedPage == proposed # NoPage => proposed = reviewed
=============================================================================
