--------------------------- MODULE RunInspection ---------------------------
(***************************************************************************)
(* The read-only inspection of a run: replay, audit and evaluation, as     *)
(* operators on the run and the records of its supervisor.  A replay reads *)
(* every record file of the run and leaves out those that are torn.        *)
(***************************************************************************)
EXTENDS SupervisorTurn

ExecutionPlanTool == "prepare_github_pages_deploy_execution_plan"

(* A mutant: deployments are not at a gate. *)
ONLY_THREADS_GATED == {"threads"}

APPROVAL_GATED_CATEGORIES == {"github_pages", "threads"}

(* The findings of the audit that the order of the writes decides: a role  *)
(* result whose request cannot be read.                                    *)
audit_findings ==
  {n \in Of("role_result") : ~ records[n].links \subseteq Of("role_request")}

(* Every approval turn of the run asks for its tool, and so does the       *)
(* recommendation.                                                         *)
recommended_next_actions ==
  {ExecutionPlanTool : n \in {t \in Of("turn") : t[3] = "approval_required"}}
    \cup ({advice.tool} \ {""})

overall_status ==
  LET blocked == {c \in DOMAIN tasks : tasks[c].status = "blocked"}
  IN  CASE phase = "complete"                        -> "complete"
        [] phase # "complete"
           /\ blocked \cap APPROVAL_GATED_CATEGORIES # {} -> "approval_required"
        [] phase # "complete" /\ blocked # {}
           /\ blocked \cap APPROVAL_GATED_CATEGORIES = {} -> "blocked"
        [] OTHER                                          -> "in_progress"

(* The governance score, in halves. *)
governance ==
  CASE overall_status = "approval_required"
       /\ recommended_next_actions = {} -> 0
    [] overall_status # "approval_required"
       \/ recommended_next_actions # {} -> IF audit_findings # {} THEN 1 ELSE 2

(* The audit of a run passes whenever it is taken, between two writes of a *)
(* turn and after any kills: a request is whole before the result that     *)
(* names it is written, and is never opened again.                         *)
AuditPasses == audit_findings = {}

(* The evaluation and the supervisor classify the run by different code    *)
(* and agree: complete, at the approval gate, blocked or in progress.      *)
EvaluationAgreesWithTurn ==
  overall_status =
    IF Outcome \in {"complete", "approval_required", "blocked"}
    THEN Outcome ELSE "in_progress"

(* A client that keeps calling advance_company_goal reaches a stop that is *)
(* on file whenever no call is in progress: its turn and its decision can  *)
(* be read, and the evaluation names the next gate with the full score.  A *)
(* kill in the middle of a turn that is written again is repaired by the   *)
(* next call.  (Excepted is the proposal that raises on every call, see    *)
(* NoProposalAdviceWithoutPassingQa in CompanyRun.)                        *)
StopIsOnFile ==
  /\ Outcome # "local_step"
  /\ Turn(PlannedCall) \in WholeRecords
  /\ HasOperationalRecord(PlannedCall) => Decision(PlannedCall) \in WholeRecords
  /\ governance = 2

EvaluationShowsStop ==
  <>[](Idle /\ NoProposalAdviceWithoutPassingQa => StopIsOnFile)
=============================================================================
