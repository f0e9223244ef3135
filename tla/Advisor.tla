------------------------------ MODULE Advisor ------------------------------
(***************************************************************************)
(* What Workroom tells its client to do next, as functions on the state of *)
(* one run: recommend_next_tool_call (agent_session.py) and the phase of  *)
(* the goal supervisor (supervisor.py).                                    *)
(*                                                                         *)
(* recommend_next_tool_call has two parts, written at different times: a   *)
(* walk over the tasks of the run along the table of local routes, and,    *)
(* where the walk has nothing to say, one hand-written branch per company. *)
(***************************************************************************)
EXTENDS CompanyTools

(* A recommendation: the tool to call, or none; blocked; the prerequisite  *)
(* that is missing, or none.                                               *)
Recommendation(tool, blocked, missing) ==
  [tool |-> tool, blocked |-> blocked, missing |-> missing]

ToolAdvice(tool)    == Recommendation(tool, FALSE, "")
BlockedAdvice       == Recommendation("", TRUE, "")
MissingAdvice(kind) == Recommendation("", FALSE, kind)
NoAdvice            == Recommendation("", FALSE, "")

OrElse(advice, other) == IF advice # NoAdvice THEN advice ELSE other

(* A mutant: a blocked task that has a result does not count. *)
BlockedWithoutResult(tasks) ==
  \E c \in DOMAIN tasks : tasks[c].status = "blocked" /\ tasks[c].refs = {}

Blocked(tasks) == \E c \in DOMAIN tasks : tasks[c].status = "blocked"

-----------------------------------------------------------------------------
(* The walk along the routes. *)

(* A mutant: the walk recommends the tool of a task that is completed      *)
(* already.                                                                *)
recommendation_ignoring_status(company, tasks, category) ==
  LET kinds == local_routes_for_task(company, category)
      kind  == CHOOSE k \in kinds : TRUE
  IN  IF \/ kinds = {}
         \/ Recorded(tasks, kind)
         \/ \E n \in LOCAL_ROUTES[kind].requires : ~ Recorded(tasks, n)
      THEN NoAdvice
      ELSE ToolAdvice(LOCAL_ROUTES[kind].tool)

local_route_recommendation_for_task(company, tasks, category) ==
  LET kinds == local_routes_for_task(company, category)
      kind  == CHOOSE k \in kinds : TRUE
      route == LOCAL_ROUTES[kind]
  IN  IF \/ kinds = {}
         \/ Recorded(tasks, kind)
         \/ \E n \in route.requires : ~ Recorded(tasks, n)
      THEN NoAdvice
      ELSE IF tasks[category].status = "completed"
      THEN MissingAdvice(kind)
      ELSE ToolAdvice(route.tool)

(* The tasks in the order of the company, up to the first with an advice.  *)
FirstTaskAdvice(company, tasks) ==
  LET order  == CompanyTasks[company]
      advice == [i \in DOMAIN order |->
                   local_route_recommendation_for_task(company, tasks, order[i])]
  IN  IF \A i \in DOMAIN order : advice[i] = NoAdvice
      THEN NoAdvice
      ELSE advice[CHOOSE i \in DOMAIN order :
                    /\ advice[i] # NoAdvice
                    /\ \A j \in 1 .. i - 1 : advice[j] = NoAdvice]

route_recommendation_for_company_goal(company, tasks) ==
  IF Blocked(tasks) THEN BlockedAdvice ELSE FirstTaskAdvice(company, tasks)

-----------------------------------------------------------------------------
(* The branches of the companies.  A stage is one task of a branch, with   *)
(* the tool that the branch names for it and the results that the branch   *)
(* wants first (the *_route_readiness functions).                          *)

StageReady(tasks, tool, inputs) ==
  /\ tasks[tool.category].status = "planned"
  /\ ~ Recorded(tasks, tool.kind)
  /\ \A kind \in inputs : Recorded(tasks, kind)

StageAdvice(tasks, tool, inputs) ==
  IF tasks[tool.category].status = "blocked" THEN BlockedAdvice
  ELSE IF StageReady(tasks, tool, inputs) THEN ToolAdvice(tool.name)
  ELSE IF /\ tasks[tool.category].status = "completed"
          /\ ~ Recorded(tasks, tool.kind)
  THEN MissingAdvice(tool.kind)
  ELSE NoAdvice

(* A stage of the release branch says nothing before its inputs exist. *)
ReleaseStageAdvice(tasks, tool, inputs) ==
  IF /\ tasks[tool.category].status # "blocked"
     /\ \E kind \in inputs : ~ Recorded(tasks, kind)
  THEN NoAdvice
  ELSE StageAdvice(tasks, tool, inputs)

ReleaseBranch(tasks) ==
  OrElse(ReleaseStageAdvice(tasks, create_release_checklist_artifact, {}),
  OrElse(ReleaseStageAdvice(tasks, create_release_quality_gate_report,
                            {"release_checklist"}),
  OrElse(ReleaseStageAdvice(tasks, create_release_notes_artifact,
                            {"release_checklist",
                             "release_quality_gate_report"}),
         ReleaseStageAdvice(tasks, prepare_release_readiness_decision,
                            {"release_checklist",
                             "release_quality_gate_report",
                             "release_notes_artifact"}))))

(* The other documents come in threes: the second rests on the first, the  *)
(* decision on both.                                                       *)
TrioBranch(tasks, first, second, decision) ==
  OrElse(StageAdvice(tasks, first, {}),
  OrElse(StageAdvice(tasks, second, {first.kind}),
         StageAdvice(tasks, decision, {first.kind, second.kind})))

DesignBranch(tasks) ==
  TrioBranch(tasks, create_design_critique_artifact,
             create_design_risk_report_artifact,
             prepare_design_review_decision)

DeliveryBranch(tasks) ==
  TrioBranch(tasks, create_delivery_scope_brief_artifact,
             create_delivery_execution_plan_artifact,
             prepare_delivery_review_decision)

ImplementationBranch(tasks) ==
  TrioBranch(tasks, create_architecture_brief_artifact,
             create_implementation_plan_artifact,
             prepare_implementation_plan_review_decision)

PlanQualityBranch(tasks) ==
  TrioBranch(tasks, create_implementation_plan_quality_report,
             create_implementation_plan_risk_register,
             prepare_implementation_plan_quality_decision)

(* A mutant: the branch ends before the decision. *)
VerificationBranchWithoutDecision(tasks) ==
  OrElse(StageAdvice(tasks, create_verification_matrix_artifact, {}),
         StageAdvice(tasks, create_verification_plan_artifact,
                     {"verification_matrix_artifact"}))

VerificationBranch(tasks) ==
  TrioBranch(tasks, create_verification_matrix_artifact,
             create_verification_plan_artifact,
             prepare_verification_review_decision)

GrowthBranch(tasks) ==
  TrioBranch(tasks, create_growth_brief_artifact,
             create_growth_experiment_plan_artifact,
             prepare_growth_review_decision)

(* The only branch that stops where a stage has no result, and the only    *)
(* place where recommend_next_tool_call reads the report of the landing    *)
(* QA.                                                                     *)
PassingQa == "passing landing QA report"

BusinessBranch(tasks, qaPassed) ==
  LET landing == StageAdvice(tasks, create_landing_artifact, {})
      qa      == StageAdvice(tasks, create_landing_qa_report,
                             {"landing_artifact"})
  IN  IF landing # NoAdvice \/ ~ Recorded(tasks, "landing_artifact")
      THEN landing
      ELSE IF qa # NoAdvice \/ ~ Recorded(tasks, "landing_qa_report")
      THEN qa
      ELSE IF ~ qaPassed
      THEN MissingAdvice(PassingQa)
      ELSE StageAdvice(tasks, prepare_github_pages_deploy_proposal,
                       {"landing_artifact", "landing_qa_report"})

CompanyBranch(company, tasks, qaPassed) ==
  CASE company = "release_hardening"           -> ReleaseBranch(tasks)
    [] company = "design_review"               -> DesignBranch(tasks)
    [] company = "delivery_planning"           -> DeliveryBranch(tasks)
    [] company = "implementation_planning"     -> ImplementationBranch(tasks)
    [] company = "implementation_plan_quality" -> PlanQualityBranch(tasks)
    [] company = "verification_orchestration"  -> VerificationBranch(tasks)
    [] company = "growth_brief"                -> GrowthBranch(tasks)
    [] company = "business_validation"         ->
         BusinessBranch(tasks, qaPassed)

recommend_next_tool_call(company, tasks, qaPassed) ==
  OrElse(route_recommendation_for_company_goal(company, tasks),
         CompanyBranch(company, tasks, qaPassed))

-----------------------------------------------------------------------------
(* The phase of the run. *)

AllCompleted(tasks) == \A c \in DOMAIN tasks : tasks[c].status = "completed"

AwaitsApproval(tasks) ==
  /\ "github_pages" \in DOMAIN tasks
  /\ tasks["github_pages"].status = "blocked"
  /\ Recorded(tasks, "github_pages_deploy_proposal")

(* The tests on open tasks, in the order of the code: the first task that  *)
(* is open, with its inputs recorded and its result not, names the phase.  *)
OpenStage(tool, inputs, phase) ==
  [tool |-> tool, inputs |-> inputs, phase |-> phase]

OpenStages ==
  << OpenStage(create_release_checklist_artifact, {}, "local_production"),
     OpenStage(create_release_quality_gate_report, {"release_checklist"}, "qa"),
     OpenStage(create_release_notes_artifact,
               {"release_checklist", "release_quality_gate_report"},
               "local_production"),
     OpenStage(create_growth_brief_artifact, {}, "local_production"),
     OpenStage(create_growth_experiment_plan_artifact,
               {"growth_brief_artifact"}, "local_production"),
     OpenStage(create_delivery_scope_brief_artifact, {}, "local_production"),
     OpenStage(create_delivery_execution_plan_artifact,
               {"delivery_scope_brief_artifact"}, "planning"),
     OpenStage(create_architecture_brief_artifact, {}, "planning"),
     OpenStage(create_implementation_plan_artifact,
               {"architecture_brief_artifact"}, "planning") >>

IsOpen(tasks, stage) ==
  /\ stage.tool.category \in DOMAIN tasks
  /\ StageReady(tasks, stage.tool, stage.inputs)

FirstOpenStage(tasks) ==
  OpenStages[CHOOSE i \in DOMAIN OpenStages :
               /\ IsOpen(tasks, OpenStages[i])
               /\ \A j \in 1 .. i - 1 : ~ IsOpen(tasks, OpenStages[j])]

(* A mutant: the test for the QA report is missing. *)
LandingPhaseWithoutQa(tasks) ==
  IF ~ {"landing_page", "testing", "github_pages"} \subseteq DOMAIN tasks
  THEN "decision"
  ELSE IF ~ Recorded(tasks, "landing_artifact") THEN "local_production"
  ELSE IF ~ Recorded(tasks, "github_pages_deploy_proposal")
  THEN "deploy_preparation"
  ELSE "decision"

LandingPhase(tasks) ==
  IF ~ {"landing_page", "testing", "github_pages"} \subseteq DOMAIN tasks
  THEN "decision"
  ELSE IF ~ Recorded(tasks, "landing_artifact")  THEN "local_production"
  ELSE IF ~ Recorded(tasks, "landing_qa_report") THEN "qa"
  ELSE IF ~ Recorded(tasks, "github_pages_deploy_proposal")
  THEN "deploy_preparation"
  ELSE IF Recorded(tasks, Evidence) THEN "promotion_preparation"
  ELSE "decision"

detect_goal_phase(tasks) ==
  IF AllCompleted(tasks)        THEN "complete"
  ELSE IF AwaitsApproval(tasks) THEN "approval_required"
  ELSE IF Blocked(tasks)        THEN "blocked"
  ELSE IF \E i \in DOMAIN OpenStages : IsOpen(tasks, OpenStages[i])
  THEN FirstOpenStage(tasks).phase
  ELSE LandingPhase(tasks)

-----------------------------------------------------------------------------
(* What one supervisor turn does, given the phase it saw and the           *)
(* recommendation it got (plan_supervisor_transition).                     *)

LOCAL_STEP_TOOL_NAMES == {t.name : t \in Tools}

plan_supervisor_transition(phase, rec) ==
  IF phase \in {"complete", "blocked"}          THEN phase
  ELSE IF rec.tool \in LOCAL_STEP_TOOL_NAMES    THEN "local_step"
  ELSE IF rec.blocked /\ phase = "approval_required"
  THEN "approval_required"
  ELSE IF rec.blocked                           THEN "blocked"
  ELSE "needs_human_decision"
=============================================================================
