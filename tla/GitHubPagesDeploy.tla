-------------------------- MODULE GitHubPagesDeploy --------------------------
(***************************************************************************)
(* execute_github_pages_deploy, step by step: it loads the run, verifies   *)
(* the operation plan and its approval phrase, verifies the target         *)
(* checkout, copies the two files of the plan, stages and commits them,    *)
(* writes the execution evidence and saves the run (agent_session.py,      *)
(* devops_operations.py).                                                  *)
(*                                                                         *)
(* Each step but the commit leaves something behind if the server is       *)
(* killed, and the target checkout is shared: by the servers that execute  *)
(* plans, by the plans of other runs and by its owner.                     *)
(***************************************************************************)
EXTENDS Naturals, Sequences

CONSTANTS
  Executors,   \* the servers that execute plans
  Plans,       \* the approved plans, records [run, path, page, workflow]
  MaxCrashes,  \* bound on the crashes of a behaviour
  MaxEdits     \* bound on the edits of bundles and of the checkout

VARIABLES
  run,       \* per run, its github_pages task: status and evidence refs
  source,    \* per plan, the files of the proposal's bundle as they are now
  work,      \* the working tree of the checkout: a content for each path
  index,     \* its index
  commits,   \* its branch: a sequence of trees
  evidence,  \* per plan, execution_evidence.json
  exec,      \* what each executor is doing
  crashes, edits

git  == << work, index, commits >>
vars == << run, source, git, evidence, exec, crashes, edits >>

-----------------------------------------------------------------------------
Runs == {p.run : p \in Plans}

Workflow == ".github/workflows/workroom-pages.yml"
Notes    == "notes"       \* a file of the checkout's owner
Paths    == {p.path : p \in Plans} \cup {Workflow, Notes}

(* A page is published as index.html, never over the workflow.             *)
ASSUME DeployAssumption ==
  /\ \A p \in Plans : DOMAIN p = {"run", "path", "page", "workflow"}
  /\ \A p \in Plans : p.path \notin {Workflow, Notes}
  /\ MaxCrashes \in Nat /\ MaxEdits \in Nat

Missing == "missing"
Edited  == "edited"       \* a content that no plan names
Partial == "partial"      \* a file truncated for writing

HEAD == commits[Len(commits)]

(* What git status --porcelain reports. *)
Dirty == work # index \/ index # HEAD

(* The files of a plan are in a tree. *)
Deployed(p, tree) == tree[p.path] = p.page /\ tree[Workflow] = p.workflow

Absent == [state |-> "absent"]
Torn   == [state |-> "torn"]
Evidence(sha, written) ==
  [state |-> "whole", sha |-> sha, written |-> written]

Idle == [pc |-> "idle"]

At(e, pc) == exec[e].pc = pc

Goes(e, pc) == exec' = [exec EXCEPT ![e].pc = pc]

(* A mutant: a failed call is never ended. *)
Hangs(e) == Goes(e, "failed")

(* The tool raises: the client sees an error and the run is not saved. *)
Raises(e) == exec' = [exec EXCEPT ![e] = Idle]

-----------------------------------------------------------------------------
Init ==
  /\ run = [r \in Runs |-> [status |-> "blocked", refs |-> {}]]
  /\ source = [p \in Plans |-> [page |-> p.page, workflow |-> p.workflow]]
  /\ work = [f \in Paths |-> Missing] /\ index = work
  /\ commits = << work >>
  /\ evidence = [p \in Plans |-> Absent]
  /\ exec = [e \in Executors |-> Idle]
  /\ crashes = 0 /\ edits = 0

(* The run is loaded before anything else and saved at the very end. *)
Start(e, p) ==
  /\ At(e, "idle")
  /\ exec' = [exec EXCEPT ![e] =
                [pc |-> "started", plan |-> p, view |-> run[p.run], sha |-> 0,
                 written |-> [page |-> Missing, workflow |-> Missing]]]
  /\ UNCHANGED << run, source, git, evidence, crashes, edits >>

(* Two mutants: the evidence is ignored; evidence is an error. *)
IgnoreEvidence(e) ==
  /\ At(e, "started")
  /\ Goes(e, "approved")
  /\ UNCHANGED << run, source, git, evidence, crashes, edits >>

RefuseEvidence(e) ==
  /\ At(e, "started")
  /\ IF evidence[exec[e].plan] = Absent THEN Goes(e, "approved") ELSE Raises(e)
  /\ UNCHANGED << run, source, git, evidence, crashes, edits >>

(* A plan with evidence is not executed again; evidence that cannot be     *)
(* read is an error.                                                       *)
FindEvidence(e) ==
  /\ At(e, "started")
  /\ LET found == evidence[exec[e].plan]
     IN  \/ found.state = "whole"  /\ Goes(e, "evidenced")
         \/ found.state = "torn"   /\ Raises(e)
         \/ found.state = "absent" /\ Goes(e, "approved")
  /\ UNCHANGED << run, source, git, evidence, crashes, edits >>

(* A mutant: the checkout may be dirty. *)
VerifyBranchOnly(e) ==
  /\ At(e, "approved")
  /\ Goes(e, "verified")
  /\ UNCHANGED << run, source, git, evidence, crashes, edits >>

VerifyCheckout(e) ==
  /\ At(e, "approved")
  /\ IF Dirty THEN Raises(e) ELSE Goes(e, "verified")
  /\ UNCHANGED << run, source, git, evidence, crashes, edits >>

(* Each file is compared with the plan when its turn comes, copied as it   *)
(* is after that, and hashed for the evidence as it is in the checkout     *)
(* after that.  If the second file has changed, the first one has been     *)
(* copied already.  Opening the target for the copy truncates it.          *)
Check(e, from, content, planned, to) ==
  /\ At(e, from)
  /\ IF content = planned THEN Goes(e, to) ELSE Raises(e)
  /\ UNCHANGED << run, source, git, evidence, crashes, edits >>

Write(e, from, path, content, to) ==
  /\ At(e, from)
  /\ work' = [work EXCEPT ![path] = content]
  /\ Goes(e, to)
  /\ UNCHANGED << run, source, index, commits, evidence, crashes, edits >>

Hash(e, from, file, path, to) ==
  /\ At(e, from)
  /\ exec' = [exec EXCEPT ![e].pc = to, ![e].written[file] = work[path]]
  /\ UNCHANGED << run, source, git, evidence, crashes, edits >>

CopyPage(e) ==
  LET p == exec[e].plan
  IN  \/ Check(e, "verified", source[p].page, p.page, "page checked")
      \/ Write(e, "page checked", p.path, Partial, "page opened")
      \/ Write(e, "page opened", p.path, source[p].page, "page copied")
      \/ Hash(e, "page copied", "page", p.path, "page hashed")

CopyWorkflow(e) ==
  LET p == exec[e].plan
  IN  \/ Check(e, "page hashed", source[p].workflow, p.workflow,
               "workflow checked")
      \/ Write(e, "workflow checked", Workflow, Partial, "workflow opened")
      \/ Write(e, "workflow opened", Workflow, source[p].workflow,
               "workflow copied")
      \/ Hash(e, "workflow copied", "workflow", Workflow, "copied")

(* Stages the two paths of the plan as the working tree has them now. *)
GitAdd(e) ==
  /\ At(e, "copied")
  /\ index' = [f \in Paths |-> IF f \in {exec[e].plan.path, Workflow}
                               THEN work[f] ELSE index[f]]
  /\ Goes(e, "staged")
  /\ UNCHANGED << run, source, work, commits, evidence, crashes, edits >>

(* Commits the whole index; git fails if there is nothing to commit. *)
GitCommit(e) ==
  /\ At(e, "staged")
  /\ IF index = HEAD
     THEN Raises(e) /\ UNCHANGED commits
     ELSE commits' = Append(commits, index) /\ Goes(e, "committed")
  /\ UNCHANGED << run, source, work, index, evidence, crashes, edits >>

(* Two mutants: HEAD is read before the commit; the run is saved before    *)
(* the evidence is written.                                                *)
RevParseParent(e) ==
  /\ At(e, "committed")
  /\ exec' = [exec EXCEPT ![e].pc = "parsed", ![e].sha = Len(commits) - 1]
  /\ UNCHANGED << run, source, git, evidence, crashes, edits >>

RevParseThenSave(e) ==
  /\ At(e, "committed")
  /\ exec' = [exec EXCEPT ![e].pc = "evidenced", ![e].sha = Len(commits)]
  /\ UNCHANGED << run, source, git, evidence, crashes, edits >>

RevParseHead(e) ==
  /\ At(e, "committed")
  /\ exec' = [exec EXCEPT ![e].pc = "parsed", ![e].sha = Len(commits)]
  /\ UNCHANGED << run, source, git, evidence, crashes, edits >>

(* Opening the evidence for writing truncates it. *)
OpenEvidence(e) ==
  /\ At(e, "parsed")
  /\ evidence' = [evidence EXCEPT ![exec[e].plan] = Torn]
  /\ Goes(e, "writing")
  /\ UNCHANGED << run, source, git, crashes, edits >>

WriteEvidence(e) ==
  /\ At(e, "writing")
  /\ evidence' = [evidence EXCEPT ![exec[e].plan] =
                    Evidence(exec[e].sha, exec[e].written)]
  /\ Goes(e, "evidenced")
  /\ UNCHANGED << run, source, git, crashes, edits >>

(* A mutant: the task is saved as it was loaded. *)
SaveLoadedRun(e) ==
  /\ At(e, "evidenced")
  /\ run' = [run EXCEPT ![exec[e].plan.run] = exec[e].view]
  /\ exec' = [exec EXCEPT ![e] = Idle]
  /\ UNCHANGED << source, git, evidence, crashes, edits >>

(* Completes the task of the run as it was loaded. *)
SaveRun(e) ==
  /\ At(e, "evidenced")
  /\ LET p    == exec[e].plan
         view == exec[e].view
     IN  run' = IF p \in view.refs /\ view.status = "completed" THEN run
                ELSE [run EXCEPT ![p.run] = [status |-> "completed",
                                             refs |-> view.refs \cup {p}]]
  /\ exec' = [exec EXCEPT ![e] = Idle]
  /\ UNCHANGED << source, git, evidence, crashes, edits >>

Crash(e) ==
  /\ ~ At(e, "idle")
  /\ crashes < MaxCrashes
  /\ crashes' = crashes + 1
  /\ exec' = [exec EXCEPT ![e] = Idle]
  /\ UNCHANGED << run, source, git, evidence, edits >>

(* Somebody edits a file of a bundle after the plan was approved, or works *)
(* in the checkout.                                                        *)
EditBundle(p, file) ==
  /\ edits < MaxEdits
  /\ edits' = edits + 1
  /\ source' = [source EXCEPT ![p][file] = Edited]
  /\ UNCHANGED << run, git, evidence, exec, crashes >>

EditCheckout ==
  /\ edits < MaxEdits
  /\ edits' = edits + 1
  /\ work' = [work EXCEPT ![Notes] = Edited]
  /\ UNCHANGED << run, source, index, commits, evidence, exec, crashes >>

Execute(e) ==
  \/ \E p \in Plans : Start(e, p)
  \/ FindEvidence(e)
  \/ VerifyCheckout(e)
  \/ CopyPage(e)
  \/ CopyWorkflow(e)
  \/ GitAdd(e)
  \/ GitCommit(e)
  \/ RevParseHead(e)
  \/ OpenEvidence(e)
  \/ WriteEvidence(e)
  \/ SaveRun(e)

Next ==
  \/ \E e \in Executors : Execute(e) \/ Crash(e)
  \/ \E p \in Plans, file \in {"page", "workflow"} : EditBundle(p, file)
  \/ EditCheckout

Spec == Init /\ [][Next]_vars

(* A client that executes every plan again and again, on a server that     *)
(* finishes its calls.                                                     *)
FairSpec ==
  /\ Spec
  /\ \A e \in Executors : WF_vars(Execute(e))
  /\ \A e \in Executors : \A p \in Plans : SF_vars(Start(e, p))

-----------------------------------------------------------------------------
(* Type invariant of the deployment. *)
Contents == {p.page : p \in Plans} \cup {p.workflow : p \in Plans}
              \cup {Missing, Edited, Partial}

Trees == [Paths -> Contents]

Bundles == [page : Contents, workflow : Contents]

TaskViews == [status : {"blocked", "completed"}, refs : SUBSET Plans]

Steps ==
  { "started", "approved", "verified", "page checked", "page opened",
    "page copied", "page hashed", "workflow checked", "workflow opened",
    "workflow copied", "copied", "staged", "committed", "parsed", "writing",
    "evidenced" }

Jobs == [pc : Steps, plan : Plans, view : TaskViews, sha : Nat,
         written : Bundles]

EvidenceStates ==
  {Absent, Torn} \cup [state : {"whole"}, sha : Nat, written : Bundles]

TypeOK ==
  /\ run \in [Runs -> TaskViews]
  /\ source \in [Plans -> Bundles]
  /\ work \in Trees /\ index \in Trees
  /\ commits \in Seq(Trees) /\ commits # << >>
  /\ evidence \in [Plans -> EvidenceStates]
  /\ \A p \in Plans :
       evidence[p].state = "whole" => evidence[p].sha \in DOMAIN commits
  /\ exec \in [Executors -> {Idle} \cup Jobs]
  /\ crashes \in 0 .. MaxCrashes /\ edits \in 0 .. MaxEdits

(* The commit that the evidence of a plan names has the files that the     *)
(* evidence lists as written, even if a bundle was edited meanwhile.       *)
EvidenceTellsTruth ==
  \A p \in Plans : evidence[p].state = "whole" =>
    LET tree == commits[evidence[p].sha]
    IN  /\ tree[p.path] = evidence[p].written.page
        /\ tree[Workflow] = evidence[p].written.workflow

(* The task of a run is completed by a deployment only when the evidence   *)
(* of that deployment can be read: if the execution fails or is killed     *)
(* anywhere before, the run remains blocked.                               *)
CompletedRunHasEvidence ==
  \A r \in Runs :
    /\ run[r].status = "completed" => run[r].refs # {}
    /\ \A p \in run[r].refs : evidence[p].state = "whole"

(* The evidence of a recorded deployment may be written again, by a server *)
(* that found none when it started; unless it is killed while it writes,   *)
(* the evidence is whole when it is done.                                  *)
RecordedEvidenceRestored ==
  \A r \in Runs : \A p \in run[r].refs :
    \/ evidence[p].state = "whole"
    \/ /\ evidence[p].state = "torn"
       /\ \/ crashes > 0
          \/ \E e \in Executors : At(e, "writing") /\ exec[e].plan = p

(* Every commit is the commit of one approved plan and changes only its    *)
(* two paths: nothing else that lies about in the checkout, and nothing    *)
(* that a crash left behind, is committed with it.                         *)
CommitsOnlyPlannedPaths ==
  \A i \in 2 .. Len(commits) : \E p \in Plans :
    {f \in Paths : commits[i][f] # commits[i - 1][f]}
      \subseteq {p.path, Workflow}

(* docs/plans/2026-06-01-devops-operation-protocol-design.md:186: a plan   *)
(* with evidence is executed again without creating another commit.        *)
EvidencedPlanNotCommittedAgain ==
  [][\A e \in Executors :
       At(e, "staged") /\ commits' # commits /\ exec'[e].pc = "committed" =>
         evidence[exec[e].plan].state # "whole"]_vars

(* Where a client cannot go on by calling the tool again: what a crash or  *)
(* a changed bundle left in the checkout, a commit without evidence, or    *)
(* evidence that cannot be read.                                           *)
Stuck(p) ==
  \/ evidence[p].state = "torn"
  \/ /\ evidence[p].state = "absent"
     /\ \/ Dirty
        \/ Deployed(p, HEAD)
        \/ source[p] # [page |-> p.page, workflow |-> p.workflow]

(* A client that executes an approved plan again and again gets it         *)
(* recorded, unless it is stuck in a state that its operator can see.      *)
DeployCompletesOrSticks ==
  \A p \in Plans : <>[](p \in run[p.run].refs \/ Stuck(p))
=============================================================================
