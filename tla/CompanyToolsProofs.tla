------------------------- MODULE CompanyToolsProofs -------------------------
(* Facts about the tools, for one server (CompanyRun) and many (RunStore). *)
EXTENDS CompanyTools, TLAPS

-----------------------------------------------------------------------------
(* The handlers and the route table are two descriptions of the same       *)
(* tools; the handler of a kind checks what the route of the kind names.   *)

HonorsRoute(tool) ==
  /\ tool.kind \in Kinds
  /\ tool.name = LOCAL_ROUTES[tool.kind].tool
  /\ tool.category = LOCAL_ROUTES[tool.kind].category
  /\ tool.needs = LOCAL_ROUTES[tool.kind].requires

LEMMA HandlersHonorRoutes == \A tool \in Tools : HonorsRoute(tool)
<1>a. USE DEF HonorsRoute, Kinds, LOCAL_ROUTES, LocalRoute, Handler
<1>1. /\ HonorsRoute(create_landing_artifact)
      /\ HonorsRoute(create_landing_qa_report)
      /\ HonorsRoute(prepare_github_pages_deploy_proposal)
  BY DEF create_landing_artifact, create_landing_qa_report,
         prepare_github_pages_deploy_proposal
<1>2. /\ HonorsRoute(create_release_checklist_artifact)
      /\ HonorsRoute(create_release_quality_gate_report)
      /\ HonorsRoute(create_release_notes_artifact)
      /\ HonorsRoute(prepare_release_readiness_decision)
  BY DEF create_release_checklist_artifact, create_release_quality_gate_report,
         create_release_notes_artifact, prepare_release_readiness_decision
<1>3. /\ HonorsRoute(create_design_critique_artifact)
      /\ HonorsRoute(create_design_risk_report_artifact)
      /\ HonorsRoute(prepare_design_review_decision)
  BY DEF create_design_critique_artifact, create_design_risk_report_artifact,
         prepare_design_review_decision
<1>4. /\ HonorsRoute(create_growth_brief_artifact)
      /\ HonorsRoute(create_growth_experiment_plan_artifact)
      /\ HonorsRoute(prepare_growth_review_decision)
  BY DEF create_growth_brief_artifact, create_growth_experiment_plan_artifact,
         prepare_growth_review_decision
<1>5. /\ HonorsRoute(create_delivery_scope_brief_artifact)
      /\ HonorsRoute(create_delivery_execution_plan_artifact)
      /\ HonorsRoute(prepare_delivery_review_decision)
  BY DEF create_delivery_scope_brief_artifact,
         create_delivery_execution_plan_artifact,
         prepare_delivery_review_decision
<1>6. /\ HonorsRoute(create_architecture_brief_artifact)
      /\ HonorsRoute(create_implementation_plan_artifact)
      /\ HonorsRoute(prepare_implementation_plan_review_decision)
  BY DEF create_architecture_brief_artifact,
         create_implementation_plan_artifact,
         prepare_implementation_plan_review_decision
<1>7. /\ HonorsRoute(create_implementation_plan_quality_report)
      /\ HonorsRoute(create_implementation_plan_risk_register)
      /\ HonorsRoute(prepare_implementation_plan_quality_decision)
  BY DEF create_implementation_plan_quality_report,
         create_implementation_plan_risk_register,
         prepare_implementation_plan_quality_decision
<1>8. /\ HonorsRoute(create_verification_matrix_artifact)
      /\ HonorsRoute(create_verification_plan_artifact)
      /\ HonorsRoute(prepare_verification_review_decision)
  BY DEF create_verification_matrix_artifact,
         create_verification_plan_artifact,
         prepare_verification_review_decision
<1>b. HIDE DEF HonorsRoute, Kinds, LOCAL_ROUTES, LocalRoute, Handler
<1> QED
  BY <1>1, <1>2, <1>3, <1>4, <1>5, <1>6, <1>7, <1>8
     DEF Tools, DocumentTools, LandingTools

(* No two routes name the same tool: the name tells the kind. *)
KindNamed ==
  [ create_landing_artifact |-> "landing_artifact",
    create_landing_qa_report |-> "landing_qa_report",
    create_design_critique_artifact |-> "design_critique_artifact",
    create_design_risk_report_artifact |->
      "design_risk_report_artifact",
    prepare_design_review_decision |-> "design_review_decision",
    create_delivery_scope_brief_artifact |->
      "delivery_scope_brief_artifact",
    create_delivery_execution_plan_artifact |->
      "delivery_execution_plan_artifact",
    prepare_delivery_review_decision |-> "delivery_review_decision",
    create_architecture_brief_artifact |->
      "architecture_brief_artifact",
    create_implementation_plan_artifact |->
      "implementation_plan_artifact",
    prepare_implementation_plan_review_decision |->
      "implementation_plan_review_decision",
    create_implementation_plan_quality_report |->
      "implementation_plan_quality_report",
    create_implementation_plan_risk_register |->
      "implementation_plan_risk_register",
    prepare_implementation_plan_quality_decision |->
      "implementation_plan_quality_decision",
    create_verification_matrix_artifact |->
      "verification_matrix_artifact",
    create_verification_plan_artifact |-> "verification_plan_artifact",
    prepare_verification_review_decision |->
      "verification_review_decision",
    create_growth_brief_artifact |-> "growth_brief_artifact",
    create_growth_experiment_plan_artifact |->
      "growth_experiment_plan_artifact",
    prepare_growth_review_decision |-> "growth_review_decision",
    create_release_checklist_artifact |-> "release_checklist",
    create_release_quality_gate_report |->
      "release_quality_gate_report",
    create_release_notes_artifact |-> "release_notes_artifact",
    prepare_release_readiness_decision |-> "release_readiness_decision",
    prepare_github_pages_deploy_proposal |->
      "github_pages_deploy_proposal" ]

LEMMA NameTellsKind ==
  \A k \in Kinds :
    /\ LOCAL_ROUTES[k].tool # ""
    /\ KindNamed[LOCAL_ROUTES[k].tool] = k
<1> DEFINE Right(k) == /\ LOCAL_ROUTES[k].tool # ""
                       /\ KindNamed[LOCAL_ROUTES[k].tool] = k
<1>1. /\ Right("landing_artifact")
      /\ Right("landing_qa_report")
      /\ Right("design_critique_artifact")
      /\ Right("design_risk_report_artifact")
      /\ Right("design_review_decision")
  BY DEF LOCAL_ROUTES, LocalRoute, KindNamed
<1>2. /\ Right("delivery_scope_brief_artifact")
      /\ Right("delivery_execution_plan_artifact")
      /\ Right("delivery_review_decision")
      /\ Right("architecture_brief_artifact")
      /\ Right("implementation_plan_artifact")
  BY DEF LOCAL_ROUTES, LocalRoute, KindNamed
<1>3. /\ Right("implementation_plan_review_decision")
      /\ Right("implementation_plan_quality_report")
      /\ Right("implementation_plan_risk_register")
      /\ Right("implementation_plan_quality_decision")
      /\ Right("verification_matrix_artifact")
  BY DEF LOCAL_ROUTES, LocalRoute, KindNamed
<1>4. /\ Right("verification_plan_artifact")
      /\ Right("verification_review_decision")
      /\ Right("growth_brief_artifact")
      /\ Right("growth_experiment_plan_artifact")
      /\ Right("growth_review_decision")
  BY DEF LOCAL_ROUTES, LocalRoute, KindNamed
<1>5. /\ Right("release_checklist")
      /\ Right("release_quality_gate_report")
      /\ Right("release_notes_artifact")
      /\ Right("release_readiness_decision")
      /\ Right("github_pages_deploy_proposal")
  BY DEF LOCAL_ROUTES, LocalRoute, KindNamed
<1> HIDE DEF Right
<1>6. \A k \in Kinds : Right(k)
  BY <1>1, <1>2, <1>3, <1>4, <1>5 DEF Kinds, LOCAL_ROUTES
<1> QED
  BY <1>6 DEF Right

(* No handler asks for the text of record_work_result. *)
LEMMA NoToolNeedsText == \A tool \in Tools : WorkResult \notin tool.needs
BY DEF WorkResult, Handler, Tools, DocumentTools, LandingTools,
       create_landing_artifact, create_landing_qa_report,
       prepare_github_pages_deploy_proposal,
       create_release_checklist_artifact, create_release_quality_gate_report,
       create_release_notes_artifact, prepare_release_readiness_decision,
       create_design_critique_artifact, create_design_risk_report_artifact,
       prepare_design_review_decision,
       create_growth_brief_artifact, create_growth_experiment_plan_artifact,
       prepare_growth_review_decision,
       create_delivery_scope_brief_artifact,
       create_delivery_execution_plan_artifact,
       prepare_delivery_review_decision,
       create_architecture_brief_artifact, create_implementation_plan_artifact,
       prepare_implementation_plan_review_decision,
       create_implementation_plan_quality_report,
       create_implementation_plan_risk_register,
       prepare_implementation_plan_quality_decision,
       create_verification_matrix_artifact, create_verification_plan_artifact,
       prepare_verification_review_decision

-----------------------------------------------------------------------------
(* The table of local routes, company by company: the task that a kind of  *)
(* result belongs to, and the results that it rests on.                    *)
LEMMA TheKinds ==
  Kinds =
    {"landing_artifact", "landing_qa_report", "design_critique_artifact",
     "design_risk_report_artifact", "design_review_decision",
     "delivery_scope_brief_artifact", "delivery_execution_plan_artifact",
     "delivery_review_decision", "architecture_brief_artifact",
     "implementation_plan_artifact", "implementation_plan_review_decision",
     "implementation_plan_quality_report",
     "implementation_plan_risk_register",
     "implementation_plan_quality_decision",
     "verification_matrix_artifact", "verification_plan_artifact",
     "verification_review_decision", "growth_brief_artifact",
     "growth_experiment_plan_artifact", "growth_review_decision",
     "release_checklist", "release_quality_gate_report",
     "release_notes_artifact", "release_readiness_decision",
     "github_pages_deploy_proposal"}
BY DEF Kinds, LOCAL_ROUTES

RouteIs(kind, category, requires) ==
  /\ LOCAL_ROUTES[kind].category = category
  /\ LOCAL_ROUTES[kind].requires = requires

LEMMA BusinessRoutes ==
  /\ RouteIs("landing_artifact", "landing_page", {})
  /\ RouteIs("landing_qa_report", "testing", {"landing_artifact"})
  /\ RouteIs("github_pages_deploy_proposal", "github_pages",
       {"landing_artifact", "landing_qa_report"})
BY DEF RouteIs, LOCAL_ROUTES, LocalRoute

LEMMA ReleaseRoutes ==
  /\ RouteIs("release_checklist", "release_plan", {})
  /\ RouteIs("release_quality_gate_report", "quality_gates",
       {"release_checklist"})
  /\ RouteIs("release_notes_artifact", "release_notes",
       {"release_checklist", "release_quality_gate_report"})
  /\ RouteIs("release_readiness_decision", "coordination",
       {"release_checklist",
        "release_quality_gate_report",
        "release_notes_artifact"})
BY DEF RouteIs, LOCAL_ROUTES, LocalRoute

LEMMA GrowthRoutes ==
  /\ RouteIs("growth_brief_artifact", "market_brief", {})
  /\ RouteIs("growth_experiment_plan_artifact", "experiment_plan",
       {"growth_brief_artifact"})
  /\ RouteIs("growth_review_decision", "review_decision",
       {"growth_brief_artifact", "growth_experiment_plan_artifact"})
BY DEF RouteIs, LOCAL_ROUTES, LocalRoute

LEMMA DeliveryRoutes ==
  /\ RouteIs("delivery_scope_brief_artifact", "scope_brief", {})
  /\ RouteIs("delivery_execution_plan_artifact", "execution_plan",
       {"delivery_scope_brief_artifact"})
  /\ RouteIs("delivery_review_decision", "review_decision",
       {"delivery_scope_brief_artifact", "delivery_execution_plan_artifact"})
BY DEF RouteIs, LOCAL_ROUTES, LocalRoute

LEMMA DesignRoutes ==
  /\ RouteIs("design_critique_artifact", "design_critique", {})
  /\ RouteIs("design_risk_report_artifact", "risk_assessment",
       {"design_critique_artifact"})
  /\ RouteIs("design_review_decision", "review_decision",
       {"design_critique_artifact", "design_risk_report_artifact"})
BY DEF RouteIs, LOCAL_ROUTES, LocalRoute

LEMMA ImplementationRoutes ==
  /\ RouteIs("architecture_brief_artifact", "architecture_brief", {})
  /\ RouteIs("implementation_plan_artifact", "implementation_plan",
       {"architecture_brief_artifact"})
  /\ RouteIs("implementation_plan_review_decision", "review_decision",
       {"architecture_brief_artifact", "implementation_plan_artifact"})
BY DEF RouteIs, LOCAL_ROUTES, LocalRoute

LEMMA PlanQualityRoutes ==
  /\ RouteIs("implementation_plan_quality_report", "plan_quality_report",
       {})
  /\ RouteIs("implementation_plan_risk_register", "plan_risk_register",
       {"implementation_plan_quality_report"})
  /\ RouteIs("implementation_plan_quality_decision", "review_decision",
       {"implementation_plan_quality_report",
        "implementation_plan_risk_register"})
BY DEF RouteIs, LOCAL_ROUTES, LocalRoute

LEMMA VerificationRoutes ==
  /\ RouteIs("verification_matrix_artifact", "verification_matrix", {})
  /\ RouteIs("verification_plan_artifact", "verification_plan",
       {"verification_matrix_artifact"})
  /\ RouteIs("verification_review_decision", "review_decision",
       {"verification_matrix_artifact", "verification_plan_artifact"})
BY DEF RouteIs, LOCAL_ROUTES, LocalRoute

LEMMA RoutesRestOnKinds ==
  \A kind \in Kinds : LOCAL_ROUTES[kind].requires \subseteq Kinds
BY TheKinds, BusinessRoutes, ReleaseRoutes, GrowthRoutes, DeliveryRoutes,
   DesignRoutes, ImplementationRoutes, PlanQualityRoutes, VerificationRoutes
   DEF RouteIs

-----------------------------------------------------------------------------
(* Recording a kind on one task. *)

(* The kinds with a route are only ever recorded on the task of the route. *)
AtHome(t) ==
  \A c \in DOMAIN t : \A k \in t[c].refs \cap Kinds :
    LOCAL_ROUTES[k].category = c

LEMMA RecordOnTask ==
  ASSUME NEW T, NEW t \in [T -> TaskStates], NEW c \in T,
         NEW kind \in RefKinds, NEW status \in Statuses,
         NEW u, u = [t EXCEPT ![c] = task_with_result(@, kind, status)]
  PROVE  /\ u \in [T -> TaskStates]
         /\ AtHome(t) /\ (kind \in Kinds => LOCAL_ROUTES[kind].category = c)
              => AtHome(u)
<1>1. u \in [T -> TaskStates]
  BY DEF task_with_result, TaskStates
<1>2. \A d \in T : u[d].refs = IF d = c THEN t[d].refs \cup {kind}
                                       ELSE t[d].refs
  BY DEF task_with_result, TaskStates
<1>3. DOMAIN u = T /\ DOMAIN t = T
  OBVIOUS
<1>4. ASSUME AtHome(t), kind \in Kinds => LOCAL_ROUTES[kind].category = c
      PROVE  AtHome(u)
  <2>1. SUFFICES ASSUME NEW d \in T, NEW k \in u[d].refs \cap Kinds
                 PROVE  LOCAL_ROUTES[k].category = d
    BY <1>3 DEF AtHome
  <2>2. CASE k \in t[d].refs
    BY <2>2, <1>3, <1>4 DEF AtHome
  <2>3. CASE d = c /\ k = kind
    BY <2>3, <1>4
  <2> QED
    BY <2>1, <2>2, <2>3, <1>2
<1> QED
  BY <1>1, <1>4
=============================================================================
