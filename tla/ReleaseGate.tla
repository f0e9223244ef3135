----------------------------- MODULE ReleaseGate -----------------------------
(***************************************************************************)
(* The release readiness gate (release_readiness_gate.py).                 *)
(*                                                                         *)
(* One process runs the test suite from the sources and again in a virtual *)
(* environment of its own, starts the installed server, looks at two git   *)
(* worktrees, then fills a workspace with made-up runs and has the release *)
(* documents (RunbookRelease) written for them.  What the commands did and *)
(* what the release candidate audit says goes into one result file.        *)
(*                                                                         *)
(* The workspace may be a directory that the caller names and keeps, so    *)
(* that an attempt that was killed leaves its documents, a torn file and   *)
(* its virtual environment to the next one.  No server works there.        *)
(***************************************************************************)
EXTENDS RunbookRelease

CONSTANT Gate   \* the process of the gate: the only server of its workspace

(* The gate makes up a run for each stage of the runbook; the constants of *)
(* RunbookRelease are those runs, their list and their stages.             *)
RELEASE_RUN_IDS == << "run_design", "run_plan", "run_quality", "run_verify" >>

RELEASE_SPEC_IDS ==
  << "design_review", "implementation_planning",
     "implementation_plan_quality", "verification_orchestration" >>

VARIABLES
  gate,     \* the attempt: the next step of the plan, what has passed
  venv,     \* the virtual environment: when it and its package were made
  result    \* release_readiness_gate_result.json

gateVars == << damaged, started, files, server, crashes, gate, venv, result >>

-----------------------------------------------------------------------------
(* The plan of an attempt, step by step. *)

Command(name)     == [op |-> "command", name |-> name, ids |-> << >>]
SaveRun(r)        == [op |-> "save", name |-> "run", ids |-> << r >>]
Report(name, r)   == [op |-> "report", name |-> name, ids |-> << r >>]
CallOf(tool, ids) == [op |-> "call", name |-> tool, ids |-> ids]
WriteResult       == [op |-> "result", name |-> "result", ids |-> << >>]

(* A mutant: the virtual environment of an earlier attempt is kept. *)
install_over_old_venv ==
  << Command("create_venv"), Command("upgrade_pip"),
     Command("install_edition"), Command("run_suite") >>

_run_fresh_install_suite ==
  << Command("remove_venv"), Command("create_venv"), Command("upgrade_pip"),
     Command("install_edition"), Command("run_suite") >>

MockRun(r) == << SaveRun(r), Report("brief", r), Report("quality", r) >>

_write_mock_runs ==
  MockRun(RELEASE_RUN_IDS[1]) \o MockRun(RELEASE_RUN_IDS[2])
  \o MockRun(RELEASE_RUN_IDS[3]) \o MockRun(RELEASE_RUN_IDS[4])

(* A mutant: the smoke is made before the closeout packet. *)
artifacts_out_of_order ==
  _write_mock_runs \o
  << CallOf("operating_packet", << >>), CallOf("smoke_example", << >>),
     CallOf("progress_report", RELEASE_RUN_IDS),
     CallOf("release_smoke", RELEASE_RUN_IDS),
     CallOf("closeout_packet", RELEASE_RUN_IDS),
     CallOf("candidate_audit", RELEASE_RUN_IDS) >>

_run_release_readiness_artifacts ==
  _write_mock_runs \o
  << CallOf("operating_packet", << >>), CallOf("smoke_example", << >>),
     CallOf("progress_report", RELEASE_RUN_IDS),
     CallOf("closeout_packet", RELEASE_RUN_IDS),
     CallOf("release_smoke", RELEASE_RUN_IDS),
     CallOf("candidate_audit", RELEASE_RUN_IDS) >>

run_release_readiness_gate ==
  << Command("source_suite") >>
  \o _run_fresh_install_suite
  \o << Command("installed_mcp_stdio_smoke"), Command("workroom_git_status"),
        Command("kernel_git_status") >>
  \o _run_release_readiness_artifacts
  \o << WriteResult, Command("finally_remove_venv") >>

StepNamed(name) ==
  CHOOSE n \in DOMAIN run_release_readiness_gate :
    run_release_readiness_gate[n].name = name

LastStep == Len(run_release_readiness_gate)

-----------------------------------------------------------------------------
(* The attempt: `opened` says that a file is open or a tool called.        *)

Off(killed) ==
  [at |-> 0, opened |-> FALSE, passed |-> {}, killed |-> killed]

Running == gate.at # 0

Todo == run_release_readiness_gate[gate.at]

At(op) == Running /\ Todo.op = op

Advanced == [gate EXCEPT !.at = @ + 1, !.opened = FALSE]

(* The five results that an attempt reports; the fresh install passes with *)
(* its last command.                                                       *)
Reported == {"source_suite", "run_suite", "installed_mcp_stdio_smoke",
             "workroom_git_status", "kernel_git_status"}

NoVenv == [made |-> "never", package |-> "never"]

(* What a command of this attempt made is "now", until the next attempt.   *)
Earlier(when) == IF when = "now" THEN "earlier" ELSE when

(* A command may fail for any reason, a timeout of the smoke included.  It *)
(* fails for certain when the environment that it runs in has no python or *)
(* no package (no PYTHONPATH of the caller leads to the sources).          *)
MayPass(name) ==
  /\ name \in {"upgrade_pip", "install_edition", "run_suite",
               "installed_mcp_stdio_smoke"} => venv.made # "never"
  /\ name \in {"run_suite", "installed_mcp_stdio_smoke"} =>
       venv.package # "never"

(* python -m venv keeps what is in an environment that is there already,   *)
(* and may leave part of one when it fails.                                *)
VenvAfter(name, passed) ==
  CASE name \in {"remove_venv", "finally_remove_venv"} -> {NoVenv}
    [] name = "create_venv" /\ venv.made = "never" ->
         {[NoVenv EXCEPT !.made = "now"]}
           \cup (IF passed THEN {} ELSE {NoVenv})
    [] name = "install_edition" /\ passed -> {[venv EXCEPT !.package = "now"]}
    [] OTHER -> {venv}

(* The first failure ends the fresh install; the gate goes on. *)
StepAfter(name, passed) ==
  IF name \in {"create_venv", "upgrade_pip", "install_edition"} /\ ~ passed
  THEN StepNamed("installed_mcp_stdio_smoke")
  ELSE gate.at + 1

-----------------------------------------------------------------------------
GateInit ==
  /\ Init
  /\ damaged = {}
  /\ gate = Off(FALSE)
  /\ venv = NoVenv
  /\ result = Absent

StartGate ==
  /\ ~ Running
  /\ gate' = [Off(FALSE) EXCEPT !.at = 1]
  /\ venv' = [made |-> Earlier(venv.made), package |-> Earlier(venv.package)]
  /\ UNCHANGED << vars, result >>

RunCommand ==
  /\ At("command") /\ gate.at # LastStep
  /\ \E passed \in BOOLEAN :
       /\ passed => MayPass(Todo.name)
       /\ Todo.name = "remove_venv" => passed
       /\ venv' \in VenvAfter(Todo.name, passed)
       /\ gate' = [gate EXCEPT !.at = StepAfter(Todo.name, passed),
                               !.passed = IF passed
                                          THEN @ \cup ({Todo.name} \cap Reported)
                                          ELSE @]
  /\ UNCHANGED << vars, result >>

(* save_company_goal_run replaces the run as a whole. *)
SaveMockRun ==
  /\ At("save")
  /\ started' = started \cup Members(Todo.ids)
  /\ gate' = Advanced
  /\ UNCHANGED << damaged, files, server, crashes, venv, result >>

OpenReport ==
  /\ At("report") /\ ~ gate.opened
  /\ files' = [files EXCEPT ![FileOf(Todo.name, Todo.ids)] = Torn]
  /\ gate' = [gate EXCEPT !.opened = TRUE]
  /\ UNCHANGED << damaged, started, server, crashes, venv, result >>

(* The made-up reports say that there are no findings. *)
FillReport ==
  /\ At("report") /\ gate.opened
  /\ files' = [files EXCEPT ![FileOf(Todo.name, Todo.ids)] =
                 Whole(Todo.ids, TRUE)]
  /\ gate' = Advanced
  /\ UNCHANGED << damaged, started, server, crashes, venv, result >>

CallTool ==
  /\ At("call") /\ ~ gate.opened
  /\ Call(Gate, Todo.name, Todo.ids)
  /\ gate' = [gate EXCEPT !.opened = TRUE]
  /\ UNCHANGED << venv, result >>

(* If the tool raises, the gate removes the environment and gives up. *)
ToolStep ==
  /\ gate' = IF Raises(Gate)
             THEN [gate EXCEPT !.at = LastStep, !.opened = FALSE] ELSE gate
  /\ ServerStep(Gate)
  /\ UNCHANGED << venv, result >>

ToolReturns ==
  /\ At("call") /\ gate.opened /\ ~ Busy(Gate)
  /\ gate' = Advanced
  /\ UNCHANGED << vars, venv, result >>

OpenResult ==
  /\ At("result") /\ ~ gate.opened
  /\ result' = Torn
  /\ gate' = [gate EXCEPT !.opened = TRUE]
  /\ UNCHANGED << vars, venv >>

(* The audit is read from its file. *)
FillResult ==
  /\ At("result") /\ gate.opened
  /\ LET audit == files[<< "candidate_audit" >>]
     IN  result' = [state      |-> "whole",
                    ready      |-> audit.ready,
                    all_passed |-> gate.passed = Reported /\ audit.ready]
  /\ gate' = Advanced
  /\ UNCHANGED << vars, venv >>

RemoveVenv ==
  /\ Running /\ gate.at = LastStep
  /\ venv' = NoVenv
  /\ gate' = Off(FALSE)
  /\ UNCHANGED << vars, result >>

KillGate ==
  /\ Running
  /\ crashes < MaxCrashes
  /\ crashes' = crashes + 1
  /\ server' = [server EXCEPT ![Gate] = Idle]
  /\ gate' = Off(TRUE)
  /\ UNCHANGED << damaged, started, files, venv, result >>

GateStep ==
  \/ RunCommand
  \/ SaveMockRun \/ OpenReport \/ FillReport
  \/ CallTool \/ (Busy(Gate) /\ ToolStep) \/ ToolReturns
  \/ OpenResult \/ FillResult
  \/ RemoveVenv

GateNext == StartGate \/ GateStep \/ KillGate

GateSpec == GateInit /\ [][GateNext]_gateVars

(* An attempt goes on: its commands end, only the smoke has a timeout. *)
FairGateSpec == GateSpec /\ WF_gateVars(GateStep)

-----------------------------------------------------------------------------
(* Whatever an earlier attempt left, the fresh install suite and the smoke *)
(* of the installed server are only reported as passed if the environment  *)
(* and the package that they ran in were made by the same attempt          *)
(* (release_readiness_gate.py:280-281: an environment that is there is     *)
(* removed first).                                                         *)
TestsOwnInstall ==
  Running /\ gate.passed \cap {"run_suite", "installed_mcp_stdio_smoke"} # {} =>
    venv = [made |-> "now", package |-> "now"]

(* Documents left behind by a killed attempt, torn ones included, do not   *)
(* spoil the next: every attempt that is not killed itself ends with no    *)
(* environment left and a whole result, whose audit finds the candidate    *)
(* ready whatever the commands did.                                        *)
AttemptEnds ==
  Running ~> /\ ~ Running
             /\ \/ gate.killed
                \/ /\ venv = NoVenv
                   /\ result.state = "whole"
                   /\ result.ready
=============================================================================
