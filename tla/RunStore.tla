------------------------------ MODULE RunStore ------------------------------
(***************************************************************************)
(* How one run survives crashes and several servers.                       *)
(*                                                                         *)
(* A Workroom server is a process that answers one tool call at a time.    *)
(* Every call that records a result loads state.json, checks its arguments *)
(* against what it loaded, writes the files of the result to paths that    *)
(* depend only on the run and the task, and then replaces state.json by    *)
(* what it loaded plus the new ref (agent_session.py, session_store.py).   *)
(* Nothing locks the run: each Codex session starts a server of its own,   *)
(* and two of them may serve calls for one workspace at the same time.     *)
(* A server may be killed at any moment; the client calls again.           *)
(*                                                                         *)
(* The deployment is the longest such call: execute_github_pages_deploy    *)
(* loads the run, works in the target checkout (GitHubPagesDeploy), writes *)
(* its evidence and then saves the run that it loaded.  It is guided by    *)
(* the operation plan and the evidence in the file system, never by the    *)
(* run.                                                                    *)
(***************************************************************************)
EXTENDS CompanyTools

CONSTANTS
  Servers,        \* the server processes sharing the workspace
  RunCompany,     \* the company of the run
  RecordedByHand, \* the tasks for which clients call record_work_result
  MaxCrashes      \* bound on the crashes of a behaviour

ASSUME StoreAssumption ==
  /\ RunCompany \in Companies
  /\ RecordedByHand \subseteq TasksOf(RunCompany)
  /\ MaxCrashes \in Nat

VARIABLES
  saved,    \* state.json: the tasks of the run
  files,    \* the files of each result: "absent", "torn" or "whole"
  report,   \* what qa_report.json says: "none", "passed" or "failed"
  server,   \* what each server is doing
  acked,    \* the results that some client was told are recorded
  crashes   \* how many crashes have happened

vars == << saved, files, report, server, acked, crashes >>

Review   == create_landing_qa_report.kind
Proposal == prepare_github_pages_deploy_proposal.kind

(* record_work_result as a call that, like the tools, records a kind.      *)
HandMade(c) == Handler("record_work_result", c, WorkResult, {})

(* The two DevOps tools.  The plan is a file that no task refers to.       *)
OperationPlan == "operation_plan"

prepare_github_pages_deploy_execution_plan ==
  Handler("prepare_github_pages_deploy_execution_plan", "github_pages",
          OperationPlan, {Proposal})

execute_github_pages_deploy ==
  Handler("execute_github_pages_deploy", "github_pages", Evidence, {})

DevOpsTools ==
  { prepare_github_pages_deploy_execution_plan, execute_github_pages_deploy }

Calls == Tools \cup DevOpsTools \cup {HandMade(c) : c \in RecordedByHand}

(* The tools whose category the run has; the others raise at once.         *)
RunCalls == {call \in Calls : call.category \in TasksOf(RunCompany)}

FileOf(call) == << call.category, call.kind >>

Files == {FileOf(call) : call \in RunCalls}

-----------------------------------------------------------------------------
(* What a server holds: the call it serves, the run as it loaded it, the   *)
(* status it will give the task.                                           *)

NoCall == [pc |-> "idle"]

Serving(pc, call, view, status) ==
  [pc |-> pc, call |-> call, view |-> view, status |-> status]

(* A mutant: a status that the run model does not know. *)
StatusAwaiting(call) == IF call.kind = Proposal THEN "awaiting" ELSE "completed"

StatusAfter(call) == IF call.kind = Proposal THEN "blocked" ELSE "completed"

(* A mutant: the arguments are looked up in the file system.               *)
AcceptsByFiles(tasks, call) ==
  /\ call.kind \notin tasks[call.category].refs
  /\ \A kind \in call.needs :
       \E f \in Files : f[2] = kind /\ files[f] = "whole"

(* A mutant: a deployed plan is not executed again, whatever the run says. *)
DeploysOnlyOnce(tasks) ==
  /\ files[FileOf(prepare_github_pages_deploy_execution_plan)] = "whole"
  /\ files[FileOf(execute_github_pages_deploy)] = "absent"

(* The execution has something to do unless its evidence is recorded and   *)
(* the task completed.  A client executes the plan that it was given, and  *)
(* stops when it is told that the evidence cannot be read.                 *)
Deploys(tasks) ==
  /\ files[FileOf(prepare_github_pages_deploy_execution_plan)] = "whole"
  /\ files[FileOf(execute_github_pages_deploy)] # "torn"
  /\ ~ /\ Evidence \in tasks["github_pages"].refs
       /\ tasks["github_pages"].status = "completed"

(* The handler has something to do: otherwise it returns what exists and   *)
(* changes nothing.  (The plan is prepared once, and again only if its     *)
(* writer was killed: it would be written as it is.)                       *)
Accepts(tasks, call) ==
  \/ call.kind = WorkResult /\ AcceptsWorkResult(tasks[call.category])
  \/ call.kind = Evidence /\ Deploys(tasks)
  \/ /\ call.kind = OperationPlan
     /\ Callable(tasks, call)
     /\ \/ files[FileOf(call)] = "absent"
        \/ /\ files[FileOf(call)] = "torn"
           /\ \A s \in Servers : server[s].pc # "idle" => server[s].call # call
  \/ /\ call \in Tools
     /\ Callable(tasks, call)
     /\ Fresh(tasks, call)

Init ==
  /\ saved = [c \in TasksOf(RunCompany) |-> Planned]
  /\ files = [f \in Files |-> "absent"]
  /\ report = "none"
  /\ server = [s \in Servers |-> NoCall]
  /\ acked = {}
  /\ crashes = 0

Load(s, call) ==
  /\ server[s].pc = "idle"
  /\ Accepts(saved, call)
  /\ server' = [server EXCEPT ![s] =
                  Serving("loaded", call, saved, StatusAfter(call))]
  /\ UNCHANGED << saved, files, report, acked, crashes >>

(* A mutant: any report will do. *)
RefusedWithoutReport(call) == call.kind = Proposal /\ report = "none"

(* Before it writes, prepare_github_pages_deploy_proposal reads the report *)
(* and raises unless it can be read and has passed; the plan is made from  *)
(* the files of the proposal, the execution from those of the plan.        *)
Refused(call) ==
  \/ /\ call.kind = Proposal
     /\ report # "passed" \/ files[FileOf(create_landing_qa_report)] # "whole"
  \/ /\ call.kind = OperationPlan
     /\ files[FileOf(prepare_github_pages_deploy_proposal)] # "whole"
  \/ /\ call.kind = Evidence
     /\ \/ files[FileOf(prepare_github_pages_deploy_execution_plan)] # "whole"
        \/ files[FileOf(call)] = "torn"

Refuse(s) ==
  /\ server[s].pc = "loaded"
  /\ Refused(server[s].call)
  /\ server' = [server EXCEPT ![s] = NoCall]
  /\ UNCHANGED << saved, files, report, acked, crashes >>

(* An execution that finds the evidence of an earlier one writes nothing   *)
(* and goes on to save the run.                                            *)
FindEvidence(s) ==
  /\ server[s].pc = "loaded"
  /\ server[s].call.kind = Evidence
  /\ ~ Refused(server[s].call)
  /\ files[FileOf(server[s].call)] = "whole"
  /\ server' = [server EXCEPT ![s].pc = "written"]
  /\ UNCHANGED << saved, files, report, acked, crashes >>

(* Opening a file for writing truncates it.  (The evidence is opened when  *)
(* the git work is done; a failure of git leaves what a kill would leave.) *)
BeginWrite(s) ==
  /\ server[s].pc = "loaded"
  /\ ~ Refused(server[s].call)
  /\ server[s].call.kind = Evidence => files[FileOf(server[s].call)] = "absent"
  /\ files' = [files EXCEPT ![FileOf(server[s].call)] = "torn"]
  /\ server' = [server EXCEPT ![s].pc = "writing"]
  /\ UNCHANGED << saved, report, acked, crashes >>

(* The report says what the checks found on the page as it is at that      *)
(* moment; a failed report blocks the task.  The plan is all its tool has  *)
(* to write.                                                               *)
EndWrite(s) ==
  /\ server[s].pc = "writing"
  /\ files' = [files EXCEPT ![FileOf(server[s].call)] = "whole"]
  /\ \/ /\ server[s].call.kind \notin {Review, OperationPlan}
        /\ server' = [server EXCEPT ![s].pc = "written"]
        /\ UNCHANGED report
     \/ /\ server[s].call.kind = OperationPlan
        /\ server' = [server EXCEPT ![s] = NoCall]
        /\ UNCHANGED report
     \/ /\ server[s].call.kind = Review
        /\ report' = "passed"
        /\ server' = [server EXCEPT ![s].pc = "written"]
     \/ /\ server[s].call.kind = Review
        /\ report' = "failed"
        /\ server' = [server EXCEPT ![s].pc = "written",
                                    ![s].status = "blocked"]
  /\ UNCHANGED << saved, acked, crashes >>

(* A mutant: the run is saved before the files are written. *)
SaveFirst(s) ==
  /\ server[s].pc = "loaded"
  /\ LET job == server[s]
     IN  /\ saved' = AfterTool(job.view, job.call, job.status)
         /\ acked' = acked \cup {FileOf(job.call)}
  /\ server' = [server EXCEPT ![s] = NoCall]
  /\ UNCHANGED << files, report, crashes >>

(* A temporary file is renamed onto state.json: all of the new run or      *)
(* nothing.  The answer to the client follows.                             *)
Save(s) ==
  /\ server[s].pc = "written"
  /\ LET job == server[s]
     IN  /\ saved' = AfterTool(job.view, job.call, job.status)
         /\ acked' = acked \cup {FileOf(job.call)}
  /\ server' = [server EXCEPT ![s] = NoCall]
  /\ UNCHANGED << files, report, crashes >>

Crash(s) ==
  /\ server[s].pc # "idle"
  /\ crashes < MaxCrashes
  /\ crashes' = crashes + 1
  /\ server' = [server EXCEPT ![s] = NoCall]
  /\ UNCHANGED << saved, files, report, acked >>

ServerStep(s) ==
  \/ \E call \in RunCalls : Load(s, call)
  \/ Refuse(s)
  \/ FindEvidence(s)
  \/ BeginWrite(s)
  \/ EndWrite(s)
  \/ Save(s)

Next == \E s \in Servers : ServerStep(s) \/ Crash(s)

Spec == Init /\ [][Next]_vars

(* Every server goes on with its call, and its client goes on calling the  *)
(* tools that still have something to do; if another tool is refused again *)
(* and again, it still comes back to an approved plan.                     *)
FairSpec ==
  /\ Spec
  /\ \A s \in Servers :
       /\ WF_vars(ServerStep(s))
       /\ SF_vars(Load(s, execute_github_pages_deploy))

-----------------------------------------------------------------------------
(* Type invariant of the store. *)
TypeOK ==
  /\ saved \in [TasksOf(RunCompany) -> TaskStates]
  /\ files \in [Files -> {"absent", "torn", "whole"}]
  /\ report \in {"none", "passed", "failed"}
  /\ DOMAIN server = Servers
  /\ \A s \in Servers :
       \/ server[s] = NoCall
       \/ /\ server[s].pc \in {"loaded", "writing", "written"}
          /\ server[s].call \in RunCalls
          /\ server[s].view \in [TasksOf(RunCompany) -> TaskStates]
          /\ server[s].status \in Statuses
  /\ acked \subseteq Files
  /\ crashes \in 0 .. MaxCrashes

SavedFiles ==
  {f \in Files : f[2] \in saved[f[1]].refs}

(* The saved run as an evidence chain. *)
Requires ==
  [k \in Kinds \cup {Evidence} |->
     IF k = Evidence THEN {Proposal} ELSE LOCAL_ROUTES[k].requires]

Chain == INSTANCE EvidenceChain WITH
  Kinds      <- Kinds \cup {Evidence},
  Deployment <- Evidence,
  recorded   <- {k \in Kinds \cup {Evidence} : Recorded(saved, k)},
  verdict    <- IF Recorded(saved, Review) THEN report ELSE "none"

(* With one server, and however often it is killed and called again, the   *)
(* run on disk is an evidence chain.                                       *)
ImplementsEvidenceChain == Chain!ChainSpec

(* However the saves of several servers overwrite each other, the run on   *)
(* disk never has a tool's result without the results that it rests on.    *)
(* (The evidence of a deployment may be without its proposal: the execution *)
(* looks at the plan, never at the run.)                                   *)
SavedRunClosed ==
  \A k \in Kinds : Recorded(saved, k) =>
    \A needed \in Requires[k] : Recorded(saved, needed)

(* A client that was told that its result is recorded finds it in every    *)
(* later run: no crash loses it.                                           *)
AckedIsSaved == acked \subseteq SavedFiles

(* The files of a tool's recorded result are whole: they are written       *)
(* before the run is saved, and never again.  (The text of a hand-made     *)
(* result is written again if its task was blocked since.)                 *)
RecordedFilesWhole ==
  \A f \in SavedFiles : f[2] # WorkResult => files[f] = "whole"

(* Several servers may rewrite the files of a recorded result; unless one  *)
(* is killed while it does, they are whole when it is done.                *)
RecordedFilesRestored ==
  \A f \in SavedFiles :
    \/ files[f] = "whole"
    \/ crashes > 0 /\ files[f] = "torn"
    \/ \E s \in Servers : server[s].pc = "writing" /\ FileOf(server[s].call) = f

(* A task completed by the QA tool has a report that passed, a task that   *)
(* the QA tool blocked has one that failed.                                *)
StatusTellsVerdict ==
  LET testing == saved["testing"]
  IN  testing.refs = {Review} =>
        (testing.status = "completed" <=> report = "passed")

(* A recorded QA report is not rewritten: a QA tool whose task has a       *)
(* report returns it (docs/plans/2026-05-31-landing-qa-loop-design.md:107).*)
(* Two servers that both loaded the run before may still do it.            *)
RecordedReportNotRewritten ==
  [][Recorded(saved, Review) => report' = report]_vars

(* A save of an old view takes results back, even the proposal of a        *)
(* deployment that is under way, but only for a while: two clients that    *)
(* keep calling the tools reach, for good, a run in which every tool of    *)
(* the company has its result recorded, is refused or has arguments that   *)
(* the run has not recorded, and in which a deployment whose evidence is   *)
(* whole is recorded as the completion of its task.                        *)
RunCompletes ==
  <>[](/\ \A tool \in RunCalls \cap Tools :
            \/ ~ Callable(saved, tool)
            \/ Refused(tool)
            \/ ~ Fresh(saved, tool)
       /\ files[FileOf(execute_github_pages_deploy)] = "whole" =>
            /\ Recorded(saved, Evidence)
            /\ saved["github_pages"].status = "completed")
=============================================================================
