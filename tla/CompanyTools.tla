---------------------------- MODULE CompanyTools ----------------------------
(***************************************************************************)
(* The tools of agent_session.py as functions on the tasks of one run.    *)
(*                                                                         *)
(* The tasks of a run are a function from the run's categories to records  *)
(* [status, refs].  A result ref is abstracted to its kind: the name of a  *)
(* ref is a function of the run, the kind and the task, so a task never    *)
(* has two refs of one kind with different names, except the text of       *)
(* record_work_result, whose repeated refs are one member of the set.      *)
(*                                                                         *)
(* Every tool that produces a local result has the same handler: find the  *)
(* task, check its category, check that the refs given as arguments are    *)
(* recorded in the run, return the task unchanged if it already has a      *)
(* result of the tool's kind, else write the files, append the ref, set    *)
(* the status and save the run.  What differs between the handlers is the  *)
(* record below.  No handler looks at the status of the task.              *)
(***************************************************************************)
EXTENDS LocalRoutes

Statuses == {"planned", "completed", "blocked"}

(* Refs that no local route produces: the text of record_work_result and   *)
(* the evidence of execute_github_pages_deploy.                            *)
WorkResult == "workroom-result"
Evidence   == "devops_execution_evidence"

RefKinds == Kinds \cup {WorkResult, Evidence}

TaskStates == [status : Statuses, refs : SUBSET RefKinds]

Planned == [status |-> "planned", refs |-> {}]

Recorded(tasks, kind) == \E c \in DOMAIN tasks : kind \in tasks[c].refs

result_ref_recorded_on_category(tasks, kind, category) ==
  category \in DOMAIN tasks /\ kind \in tasks[category].refs

(* A mutant: the new ref replaces the refs of the task. *)
task_with_only_result(task, kind, status) ==
  [status |-> status, refs |-> {kind}]

task_with_result(task, kind, status) ==
  [status |-> status, refs |-> task.refs \cup {kind}]

-----------------------------------------------------------------------------
(* The handlers: the category checked, the kind produced, the kinds whose  *)
(* refs the caller must pass and the run must have recorded.               *)

Handler(name, category, kind, needs) ==
  [name |-> name, category |-> category, kind |-> kind, needs |-> needs]

create_landing_artifact ==
  Handler("create_landing_artifact", "landing_page", "landing_artifact", {})

create_landing_qa_report ==
  Handler("create_landing_qa_report", "testing", "landing_qa_report",
          {"landing_artifact"})

prepare_github_pages_deploy_proposal ==
  Handler("prepare_github_pages_deploy_proposal", "github_pages",
          "github_pages_deploy_proposal",
          {"landing_artifact", "landing_qa_report"})

create_release_checklist_artifact ==
  Handler("create_release_checklist_artifact", "release_plan",
          "release_checklist", {})

create_release_quality_gate_report ==
  Handler("create_release_quality_gate_report", "quality_gates",
          "release_quality_gate_report", {"release_checklist"})

create_release_notes_artifact ==
  Handler("create_release_notes_artifact", "release_notes",
          "release_notes_artifact",
          {"release_checklist", "release_quality_gate_report"})

prepare_release_readiness_decision ==
  Handler("prepare_release_readiness_decision", "coordination",
          "release_readiness_decision",
          {"release_checklist", "release_quality_gate_report",
           "release_notes_artifact"})

create_design_critique_artifact ==
  Handler("create_design_critique_artifact", "design_critique",
          "design_critique_artifact", {})

create_design_risk_report_artifact ==
  Handler("create_design_risk_report_artifact", "risk_assessment",
          "design_risk_report_artifact", {"design_critique_artifact"})

prepare_design_review_decision ==
  Handler("prepare_design_review_decision", "review_decision",
          "design_review_decision",
          {"design_critique_artifact", "design_risk_report_artifact"})

create_growth_brief_artifact ==
  Handler("create_growth_brief_artifact", "market_brief",
          "growth_brief_artifact", {})

create_growth_experiment_plan_artifact ==
  Handler("create_growth_experiment_plan_artifact", "experiment_plan",
          "growth_experiment_plan_artifact", {"growth_brief_artifact"})

prepare_growth_review_decision ==
  Handler("prepare_growth_review_decision", "review_decision",
          "growth_review_decision",
          {"growth_brief_artifact", "growth_experiment_plan_artifact"})

create_delivery_scope_brief_artifact ==
  Handler("create_delivery_scope_brief_artifact", "scope_brief",
          "delivery_scope_brief_artifact", {})

create_delivery_execution_plan_artifact ==
  Handler("create_delivery_execution_plan_artifact", "execution_plan",
          "delivery_execution_plan_artifact",
          {"delivery_scope_brief_artifact"})

(* A mutant: the handler does not check the ref of the execution plan. *)
prepare_delivery_review_decision_without_plan ==
  Handler("prepare_delivery_review_decision", "review_decision",
          "delivery_review_decision", {"delivery_scope_brief_artifact"})

prepare_delivery_review_decision ==
  Handler("prepare_delivery_review_decision", "review_decision",
          "delivery_review_decision",
          {"delivery_scope_brief_artifact",
           "delivery_execution_plan_artifact"})

create_architecture_brief_artifact ==
  Handler("create_architecture_brief_artifact", "architecture_brief",
          "architecture_brief_artifact", {})

create_implementation_plan_artifact ==
  Handler("create_implementation_plan_artifact", "implementation_plan",
          "implementation_plan_artifact", {"architecture_brief_artifact"})

prepare_implementation_plan_review_decision ==
  Handler("prepare_implementation_plan_review_decision", "review_decision",
          "implementation_plan_review_decision",
          {"architecture_brief_artifact", "implementation_plan_artifact"})

create_implementation_plan_quality_report ==
  Handler("create_implementation_plan_quality_report", "plan_quality_report",
          "implementation_plan_quality_report", {})

create_implementation_plan_risk_register ==
  Handler("create_implementation_plan_risk_register", "plan_risk_register",
          "implementation_plan_risk_register",
          {"implementation_plan_quality_report"})

prepare_implementation_plan_quality_decision ==
  Handler("prepare_implementation_plan_quality_decision", "review_decision",
          "implementation_plan_quality_decision",
          {"implementation_plan_quality_report",
           "implementation_plan_risk_register"})

create_verification_matrix_artifact ==
  Handler("create_verification_matrix_artifact", "verification_matrix",
          "verification_matrix_artifact", {})

create_verification_plan_artifact ==
  Handler("create_verification_plan_artifact", "verification_plan",
          "verification_plan_artifact", {"verification_matrix_artifact"})

prepare_verification_review_decision ==
  Handler("prepare_verification_review_decision", "review_decision",
          "verification_review_decision",
          {"verification_matrix_artifact", "verification_plan_artifact"})

(* The handlers that write files made from the run alone and complete the  *)
(* task.  (create_release_quality_gate_report would block the task if its  *)
(* report failed; its gates are written as passed, release_quality.py:122.)*)
DocumentTools ==
  { create_release_checklist_artifact, create_release_quality_gate_report,
    create_release_notes_artifact, prepare_release_readiness_decision,
    create_design_critique_artifact, create_design_risk_report_artifact,
    prepare_design_review_decision,
    create_growth_brief_artifact, create_growth_experiment_plan_artifact,
    prepare_growth_review_decision,
    create_delivery_scope_brief_artifact,
    create_delivery_execution_plan_artifact, prepare_delivery_review_decision,
    create_architecture_brief_artifact, create_implementation_plan_artifact,
    prepare_implementation_plan_review_decision,
    create_implementation_plan_quality_report,
    create_implementation_plan_risk_register,
    prepare_implementation_plan_quality_decision,
    create_verification_matrix_artifact, create_verification_plan_artifact,
    prepare_verification_review_decision }

LandingTools ==
  { create_landing_artifact, create_landing_qa_report,
    prepare_github_pages_deploy_proposal }

Tools == DocumentTools \cup LandingTools

(* A mutant: the refs given as arguments are looked up in the task itself. *)
CallableFromOwnTask(tasks, tool) ==
  /\ tool.category \in DOMAIN tasks
  /\ tool.needs \subseteq tasks[tool.category].refs

(* The handler finds its task in the run and every ref it is given is      *)
(* recorded: otherwise it raises and changes nothing.                      *)
Callable(tasks, tool) ==
  /\ tool.category \in DOMAIN tasks
  /\ \A kind \in tool.needs : Recorded(tasks, kind)

(* A mutant: the handler goes by the status of the task, not by its refs.  *)
FreshByStatus(tasks, tool) == tasks[tool.category].status # "completed"

(* The tool has a result to produce: otherwise it returns what exists.     *)
Fresh(tasks, tool) == tool.kind \notin tasks[tool.category].refs

AfterTool(tasks, tool, status) ==
  [tasks EXCEPT ![tool.category] = task_with_result(@, tool.kind, status)]

(* A mutant: a status that the run model does not know. *)
record_work_result_done(tasks, category) ==
  [tasks EXCEPT ![category] = task_with_result(@, WorkResult, "done")]

(* record_work_result accepts any task, unless it is completed and already *)
(* has a ref.                                                              *)
record_work_result(tasks, category) ==
  [tasks EXCEPT ![category] = task_with_result(@, WorkResult, "completed")]

AcceptsWorkResult(task) == ~ (task.status = "completed" /\ task.refs # {})
=============================================================================
