---------------------------- MODULE LocalRoutes ----------------------------
(***************************************************************************)
(* The companies of agency_workroom (company_specs.py) and the table of    *)
(* local routes (local_routes.py): which tool produces which kind of       *)
(* result for a task of which category, and which kinds must already be    *)
(* recorded in the run.  A task is named by its category, because no       *)
(* company has two tasks of one category.                                  *)
(***************************************************************************)
EXTENDS Naturals, Sequences

-----------------------------------------------------------------------------
(* The tasks of each company, in the order in which the company's          *)
(* specification lists them.                                               *)

business_validation_company_spec ==
  << "hypothesis_validation", "strategy", "landing_page", "github_pages",
     "testing", "threads", "promotion", "team_management" >>

release_hardening_company_spec ==
  << "release_plan", "quality_gates", "release_notes", "coordination" >>

growth_brief_company_spec ==
  << "market_brief", "experiment_plan", "review_decision" >>

delivery_planning_company_spec ==
  << "scope_brief", "execution_plan", "review_decision" >>

design_review_company_spec ==
  << "design_critique", "risk_assessment", "review_decision" >>

implementation_planning_company_spec ==
  << "architecture_brief", "implementation_plan", "review_decision" >>

implementation_plan_quality_company_spec ==
  << "plan_quality_report", "plan_risk_register", "review_decision" >>

verification_orchestration_company_spec ==
  << "verification_matrix", "verification_plan", "review_decision" >>

CompanyTasks ==
  [ business_validation         |-> business_validation_company_spec,
    release_hardening           |-> release_hardening_company_spec,
    growth_brief                |-> growth_brief_company_spec,
    delivery_planning           |-> delivery_planning_company_spec,
    design_review               |-> design_review_company_spec,
    implementation_planning     |-> implementation_planning_company_spec,
    implementation_plan_quality |-> implementation_plan_quality_company_spec,
    verification_orchestration  |-> verification_orchestration_company_spec ]

Companies == DOMAIN CompanyTasks

TasksOf(company) ==
  {CompanyTasks[company][i] : i \in DOMAIN CompanyTasks[company]}

(* The decision_type metadata of the company's decision task, "" if the    *)
(* company has no such task.                                               *)
DecisionType ==
  [ business_validation         |-> "",
    release_hardening           |-> "release_readiness",
    growth_brief                |-> "growth_experiment_review",
    delivery_planning           |-> "delivery_plan_review",
    design_review               |-> "design_review",
    implementation_planning     |-> "implementation_plan_review",
    implementation_plan_quality |-> "implementation_plan_quality_review",
    verification_orchestration  |-> "verification_plan_review" ]

-----------------------------------------------------------------------------
(* The route of each result kind.  "filter" is the decision_type the task  *)
(* must carry, "" where the route has no metadata filter.                  *)

LocalRoute(tool, category, filter, requires) ==
  [tool |-> tool, category |-> category, filter |-> filter,
   requires |-> requires]

LOCAL_ROUTES ==
  [ landing_artifact |->
      LocalRoute("create_landing_artifact", "landing_page", "", {}),
    landing_qa_report |->
      LocalRoute("create_landing_qa_report", "testing", "",
                 {"landing_artifact"}),
    design_critique_artifact |->
      LocalRoute("create_design_critique_artifact", "design_critique", "", {}),
    design_risk_report_artifact |->
      LocalRoute("create_design_risk_report_artifact", "risk_assessment", "",
                 {"design_critique_artifact"}),
    design_review_decision |->
      LocalRoute("prepare_design_review_decision", "review_decision",
                 "design_review",
                 {"design_critique_artifact", "design_risk_report_artifact"}),
    delivery_scope_brief_artifact |->
      LocalRoute("create_delivery_scope_brief_artifact", "scope_brief", "", {}),
    delivery_execution_plan_artifact |->
      LocalRoute("create_delivery_execution_plan_artifact", "execution_plan",
                 "", {"delivery_scope_brief_artifact"}),
    delivery_review_decision |->
      LocalRoute("prepare_delivery_review_decision", "review_decision",
                 "delivery_plan_review",
                 {"delivery_scope_brief_artifact",
                  "delivery_execution_plan_artifact"}),
    architecture_brief_artifact |->
      LocalRoute("create_architecture_brief_artifact", "architecture_brief",
                 "", {}),
    implementation_plan_artifact |->
      LocalRoute("create_implementation_plan_artifact", "implementation_plan",
                 "", {"architecture_brief_artifact"}),
    implementation_plan_review_decision |->
      LocalRoute("prepare_implementation_plan_review_decision",
                 "review_decision", "implementation_plan_review",
                 {"architecture_brief_artifact",
                  "implementation_plan_artifact"}),
    implementation_plan_quality_report |->
      LocalRoute("create_implementation_plan_quality_report",
                 "plan_quality_report", "", {}),
    implementation_plan_risk_register |->
      LocalRoute("create_implementation_plan_risk_register",
                 "plan_risk_register", "",
                 {"implementation_plan_quality_report"}),
    implementation_plan_quality_decision |->
      LocalRoute("prepare_implementation_plan_quality_decision",
                 "review_decision", "implementation_plan_quality_review",
                 {"implementation_plan_quality_report",
                  "implementation_plan_risk_register"}),
    verification_matrix_artifact |->
      LocalRoute("create_verification_matrix_artifact", "verification_matrix",
                 "", {}),
    verification_plan_artifact |->
      LocalRoute("create_verification_plan_artifact", "verification_plan", "",
                 {"verification_matrix_artifact"}),
    verification_review_decision |->
      LocalRoute("prepare_verification_review_decision", "review_decision",
                 "verification_review",
                 {"verification_matrix_artifact",
                  "verification_plan_artifact"}),
    growth_brief_artifact |->
      LocalRoute("create_growth_brief_artifact", "market_brief", "", {}),
    growth_experiment_plan_artifact |->
      LocalRoute("create_growth_experiment_plan_artifact", "experiment_plan",
                 "", {"growth_brief_artifact"}),
    growth_review_decision |->
      LocalRoute("prepare_growth_review_decision", "review_decision",
                 "growth_experiment_review",
                 {"growth_brief_artifact", "growth_experiment_plan_artifact"}),
    release_checklist |->
      LocalRoute("create_release_checklist_artifact", "release_plan", "", {}),
    release_quality_gate_report |->
      LocalRoute("create_release_quality_gate_report", "quality_gates", "",
                 {"release_checklist"}),
    release_notes_artifact |->
      LocalRoute("create_release_notes_artifact", "release_notes", "",
                 {"release_checklist", "release_quality_gate_report"}),
    release_readiness_decision |->
      LocalRoute("prepare_release_readiness_decision", "coordination",
                 "release_readiness",
                 {"release_checklist", "release_quality_gate_report",
                  "release_notes_artifact"}),
    github_pages_deploy_proposal |->
      LocalRoute("prepare_github_pages_deploy_proposal", "github_pages", "",
                 {"landing_artifact", "landing_qa_report"}) ]

Kinds == DOMAIN LOCAL_ROUTES

(* The kinds whose route matches a task: at most one (local_route_for_task *)
(* raises otherwise), none for the tasks without a local tool and for the  *)
(* decision of verification_orchestration, whose decision_type the filter  *)
(* of its route does not name.                                             *)
local_routes_for_task(company, category) ==
  {k \in Kinds :
     /\ LOCAL_ROUTES[k].category = category
     /\ LOCAL_ROUTES[k].filter \in {"", DecisionType[company]}}
=============================================================================
