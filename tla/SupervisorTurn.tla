--------------------------- MODULE SupervisorTurn ---------------------------
(***************************************************************************)
(* advance_company_goal, step by step: one server plans a turn, writes the *)
(* role request, runs the recommended tool, writes the role result, the    *)
(* turn and the handoff or decision, and may be killed at any point.  Each *)
(* record is a file of its own, named by a hash of what identifies it and  *)
(* written with write_text: truncated first, then filled.                  *)
(*                                                                         *)
(* The run and its tools are those of CompanyRun, where a turn is a single *)
(* step.  The server answers one call at a time, so between the steps of a *)
(* turn only the user's page changes, and the run that the turn loads      *)
(* twice (agent_session.py:1710, 1640) is the same run.                    *)
(***************************************************************************)
EXTENDS CompanyRun, FiniteSets

CONSTANTS
  RecordedByHand,  \* bound: the tasks that the client completes by hand
  MaxCrashes       \* bound: how often the server is killed

ASSUME TurnAssumption == MaxCrashes \in Nat

VARIABLES
  call,     \* the call of advance_company_goal that is in progress
  records,  \* the files of the supervisor: name -> [whole, links]
  crashes

turnVars == << vars, call, records, crashes >>

-----------------------------------------------------------------------------
(* A call: the step it is at; whether the file of that step is open; what  *)
(* it has planned and, once the tool has run, the result.                  *)
NoCall == [step |-> "idle", open |-> FALSE, outcome |-> "", phase |-> "",
           tool |-> "", about |-> "", ref |-> "", after |-> ""]

Outcome == plan_supervisor_transition(phase, advice)

(* The task a turn is about: that of the tool, the deployment that awaits  *)
(* its approval, or the first blocked task of the run.                     *)
AboutTask ==
  CASE Outcome = "local_step" ->
         (CHOOSE t \in Tools : t.name = advice.tool).category
    [] Outcome = "approval_required" -> "github_pages"
    [] Outcome = "blocked" ->
         LET order == CompanyTasks[company]
         IN  order[CHOOSE i \in DOMAIN order :
                     /\ tasks[order[i]].status = "blocked"
                     /\ \A j \in 1 .. i - 1 :
                          tasks[order[j]].status # "blocked"]
    [] OTHER -> advice.missing

PlannedCall ==
  [NoCall EXCEPT
     !.step    = IF Outcome = "local_step" THEN "role_request" ELSE "turn",
     !.outcome = Outcome,
     !.phase   = phase,
     !.tool    = IF Outcome = "local_step" THEN advice.tool ELSE "",
     !.about   = AboutTask,
     !.ref     = IF Outcome = "approval_required"
                 THEN "github_pages_deploy_proposal" ELSE ""]

-----------------------------------------------------------------------------
(* The names of the records: what goes into the hash of their ids.         *)

(* A mutant: the tool is missing from the seed of the hash. *)
RoleRequestOfPhase(c) == << "role_request", c.phase >>

RoleRequest(c) == << "role_request", c.phase, c.tool >>
RoleResult(c)  == << "role_result", c.phase, c.tool, c.ref, c.after >>
Turn(c)        == << "turn", c.phase, c.outcome, c.ref >>
Handoff(c)     == << "handoff", c.phase, c.about, c.ref >>
Decision(c)    == << "decision", c.phase, c.outcome, c.about >>

(* The record of the step, and the records that it names. *)
RecordName(c) ==
  CASE c.step = "role_request" -> RoleRequest(c)
    [] c.step = "role_result"  -> RoleResult(c)
    [] c.step = "turn"         -> Turn(c)
    [] c.step = "record"       -> IF c.outcome = "local_step"
                                  THEN Handoff(c) ELSE Decision(c)

RecordLinks(c) ==
  CASE c.step = "role_result" -> {RoleRequest(c)}
    [] c.step = "turn" /\ c.outcome = "local_step" ->
         {RoleRequest(c), RoleResult(c)}
    [] OTHER -> {}

(* Whether the turn ends with a handoff or a decision. *)
HasOperationalRecord(c) ==
  IF c.outcome = "local_step"
  THEN c.phase \in {"local_production", "qa", "deploy_preparation"}
  ELSE c.outcome # "complete"

(* Mutants: the role result, or the turn, is left out. *)
StepOrderWithoutResult ==
  [role_request |-> "execute", execute |-> "turn", role_result |-> "turn",
   record |-> "idle"]

StepOrderWithoutTurn ==
  [role_request |-> "execute", execute |-> "role_result",
   role_result |-> "idle", record |-> "idle"]

StepOrder ==
  [role_request |-> "execute", execute |-> "role_result",
   role_result |-> "turn", record |-> "idle"]

(* Mutants: the decision is left out; the handoff is written first. *)
StepAfterWithoutDecision(c) ==
  IF c.step # "turn" THEN StepOrder[c.step]
  ELSE IF HasOperationalRecord(c) /\ c.outcome = "local_step"
  THEN "record" ELSE "idle"

StepAfterHandoffFirst(c) ==
  CASE c.step = "role_result" /\ HasOperationalRecord(c) -> "record"
    [] c.step = "record" /\ c.outcome = "local_step"     -> "turn"
    [] c.step = "turn" /\ c.outcome = "local_step"       -> "idle"
    [] c.step = "turn" /\ c.outcome # "local_step"       ->
         IF HasOperationalRecord(c) THEN "record" ELSE "idle"
    [] OTHER -> StepOrder[c.step]

StepAfter(c) ==
  IF c.step # "turn"              THEN StepOrder[c.step]
  ELSE IF HasOperationalRecord(c) THEN "record"
  ELSE "idle"

-----------------------------------------------------------------------------
TurnInit ==
  /\ Init
  /\ call = NoCall
  /\ records = << >>
  /\ crashes = 0

Idle == call = NoCall

PlanTurn ==
  /\ Idle
  /\ call' = PlannedCall
  /\ UNCHANGED << vars, records, crashes >>

WriteRecord(name, record) ==
  records' = [n \in DOMAIN records \cup {name} |->
                IF n = name THEN record ELSE records[n]]

OpenRecord ==
  /\ call.step \in {"role_request", "role_result", "turn", "record"}
  /\ ~ call.open
  /\ WriteRecord(RecordName(call), [whole |-> FALSE, links |-> {}])
  /\ call' = [call EXCEPT !.open = TRUE]
  /\ UNCHANGED << vars, crashes >>

FillRecord ==
  /\ call.open
  /\ WriteRecord(RecordName(call), [whole |-> TRUE,
                                    links |-> RecordLinks(call)])
  /\ call' = IF StepAfter(call) = "idle"
             THEN NoCall
             ELSE [call EXCEPT !.step = StepAfter(call), !.open = FALSE]
  /\ UNCHANGED << vars, crashes >>

(* A mutant: the result is recorded, but the tool is not run. *)
ExecuteStepWithoutTool ==
  /\ call.step = "execute"
  /\ \E tool \in Tools :
       /\ tool.name = call.tool
       /\ tasks' = AfterTool(tasks, tool, "completed")
       /\ call' = [call EXCEPT !.step  = StepAfter(call),
                               !.ref   = tool.kind,
                               !.after = detect_goal_phase(tasks')]
  /\ UNCHANGED << company, files, records, crashes >>

(* run_next_local_step: the recommended tool runs and saves the run.  Its  *)
(* own steps are in RunStore.                                              *)
ExecuteStep ==
  /\ call.step = "execute"
  /\ Advance
  /\ call' = [call EXCEPT
                !.step  = StepAfter(call),
                !.ref   = (CHOOSE t \in Tools : t.name = call.tool).kind,
                !.after = detect_goal_phase(tasks')]
  /\ UNCHANGED << records, crashes >>

(* The recommended tool raises and the call ends with its error: only the  *)
(* proposal can be recommended and refuse, see RecommendedToolRuns.        *)
StepRaises ==
  /\ call.step = "execute"
  /\ call.tool = prepare_github_pages_deploy_proposal.name
  /\ ~ qaPassed
  /\ call' = NoCall
  /\ UNCHANGED << vars, records, crashes >>

(* The client's other calls, while no turn is in progress. *)
OtherCall ==
  /\ \/ \E tool \in Tools : CallTool(tool)
     \/ \E c \in RecordedByHand \cap TasksOf(company) :
          RecordWorkResult(c)
     \/ PrepareExecutionPlan
     \/ ExecuteDeploy
  /\ Idle
  /\ UNCHANGED << call, records, crashes >>

UserEditsPage ==
  /\ EditPage
  /\ UNCHANGED << call, records, crashes >>

(* The server is killed in the middle of a turn and started again. *)
Crash ==
  /\ ~ Idle
  /\ crashes < MaxCrashes
  /\ crashes' = crashes + 1
  /\ call' = NoCall
  /\ UNCHANGED << vars, records >>

TurnNext ==
  \/ PlanTurn
  \/ OpenRecord
  \/ FillRecord
  \/ ExecuteStep
  \/ StepRaises
  \/ OtherCall
  \/ UserEditsPage
  \/ Crash

TurnSpec == TurnInit /\ [][TurnNext]_turnVars

(* A call that was made is worked on, and the client makes the next one.   *)
FairTurnSpec ==
  /\ TurnSpec
  /\ WF_turnVars(PlanTurn)
  /\ WF_turnVars(OpenRecord)
  /\ WF_turnVars(FillRecord)
  /\ WF_turnVars(ExecuteStep \/ StepRaises)

-----------------------------------------------------------------------------
(* The records that a reader gets: torn ones are skipped. *)
WholeRecords == {n \in DOMAIN records : records[n].whole}

Of(kind) == {n \in WholeRecords : n[1] = kind}

(* Type invariant of a call and of the records. *)
TurnTypeOK ==
  /\ TypeOK
  /\ call.step \in {"idle", "role_request", "execute", "role_result",
                    "turn", "record"}
  /\ call.open => call.step \notin {"idle", "execute"}
  /\ call.outcome = "local_step" <=> call.tool \in LOCAL_STEP_TOOL_NAMES
  /\ \A n \in DOMAIN records : records[n].links \subseteq DOMAIN records
  /\ crashes \in 0 .. MaxCrashes

(* A turn is made of many writes, but to the run it is one step of         *)
(* CompanyRun: whatever is proved there holds between the writes as well.  *)
ImplementsCompanyRun == Spec

(* The evidence chain of the supervisor (SupervisorTurn -> RoleWorkRequest *)
(* -> RoleWorkResult -> produced artifact refs): a turn that executed a    *)
(* step names a request and a result that can be read, and its artifact is *)
(* recorded in the run, whenever the server was killed.                    *)
TurnKeepsEvidence ==
  \A n \in Of("turn") :
    /\ records[n].links \subseteq WholeRecords
    /\ n[3] = "local_step" => records[n].links # {} /\ Recorded(tasks, n[4])

(* A handoff is recorded only after the turn that caused it.               *)
HandoffFollowsTurn ==
  \A n \in Of("handoff") : << "turn", n[2], "local_step", n[4] >> \in Of("turn")

(* A kill costs at most one turn: between calls, the role requests that no *)
(* turn answers are no more than the kills, and one whose tool raised.     *)
CrashCostsOneTurn ==
  Idle =>
    Cardinality({n \in DOMAIN records :
                   /\ n[1] = "role_request"
                   /\ \A t \in Of("turn") : n \notin records[t].links})
      <= crashes + (IF report = "failed" THEN 1 ELSE 0)
=============================================================================
