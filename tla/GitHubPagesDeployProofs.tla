---------------------- MODULE GitHubPagesDeployProofs ----------------------
(***************************************************************************)
(* Theorems about the execution of approved plans.                         *)
(*                                                                         *)
(* Any number of executors, kills and edits: the deployment is well typed, *)
(* and the evidence of a recorded deployment is whole unless somebody is   *)
(* writing it again or was killed at that.                                 *)
(*                                                                         *)
(* One executor, killed at any moment and any number of times: a completed *)
(* task has evidence that can be read, a plan that has such evidence is    *)
(* not committed again, the evidence tells what is in the commit that it   *)
(* names, and no commit changes more than its plan's paths.                *)
(***************************************************************************)
EXTENDS GitHubPagesDeploy, TLAPS

-----------------------------------------------------------------------------
(* Type correctness. *)

LEMMA PlanFields ==
  \A p \in Plans : /\ p.run \in Runs
                   /\ p.path \in Paths
                   /\ p.page \in Contents /\ p.workflow \in Contents
BY DEF Runs, Paths, Contents

LEMMA Constants ==
  /\ Workflow \in Paths /\ Notes \in Paths /\ Workflow # Notes
  /\ {Missing, Edited, Partial} \subseteq Contents
  /\ Absent.state = "absent" /\ Torn.state = "torn" /\ Absent # Torn
  /\ Idle \notin Jobs /\ Idle.pc = "idle" /\ "idle" \notin Steps
BY DEF Workflow, Notes, Paths, Contents, Missing, Edited, Partial, Absent,
       Torn, Idle, Jobs, Steps

(* A busy executor has a job. *)
LEMMA BusyJob ==
  ASSUME TypeOK, NEW e \in Executors, exec[e].pc # "idle"
  PROVE  exec[e] \in Jobs
BY Constants DEF TypeOK

LEMMA JobFields ==
  ASSUME NEW j \in Jobs
  PROVE  /\ j.pc \in Steps /\ j.plan \in Plans /\ j.view \in TaskViews
         /\ j.sha \in Nat /\ j.written \in Bundles
         /\ \A pc \in Steps : [j EXCEPT !.pc = pc] \in Jobs
         /\ \A pc \in Steps, sha \in Nat :
              [j EXCEPT !.pc = pc, !.sha = sha] \in Jobs
         /\ \A pc \in Steps, c \in Contents :
              /\ [j EXCEPT !.pc = pc, !.written["page"] = c] \in Jobs
              /\ [j EXCEPT !.pc = pc, !.written["workflow"] = c] \in Jobs
<1>1. /\ j.pc \in Steps /\ j.plan \in Plans /\ j.view \in TaskViews
      /\ j.sha \in Nat /\ j.written \in Bundles
  BY DEF Jobs
<1>2. \A pc \in Steps : [j EXCEPT !.pc = pc] \in Jobs
  BY DEF Jobs
<1>3. \A pc \in Steps, sha \in Nat : [j EXCEPT !.pc = pc, !.sha = sha] \in Jobs
  BY DEF Jobs
<1>4. ASSUME NEW pc \in Steps, NEW c \in Contents
      PROVE  /\ [j EXCEPT !.pc = pc, !.written["page"] = c] \in Jobs
             /\ [j EXCEPT !.pc = pc, !.written["workflow"] = c] \in Jobs
  <2>1. /\ [j.written EXCEPT !["page"] = c] \in Bundles
        /\ [j.written EXCEPT !["workflow"] = c] \in Bundles
    BY <1>1 DEF Bundles
  <2>2. \A b \in Bundles : [j EXCEPT !.pc = pc, !.written = b] \in Jobs
    BY DEF Jobs
  <2> QED
    BY <2>1, <2>2 DEF Jobs
<1> QED
  BY <1>1, <1>2, <1>3, <1>4

(* An executor takes on a job, or none; the others keep theirs. *)
LEMMA TakesJob ==
  ASSUME TypeOK, NEW e \in Executors, NEW j \in {Idle} \cup Jobs,
         exec' = [exec EXCEPT ![e] = j]
  PROVE  /\ exec' \in [Executors -> {Idle} \cup Jobs]
         /\ exec'[e] = j
         /\ \A d \in Executors \ {e} : exec'[d] = exec[d]
BY DEF TypeOK

LEMMA RaisesIdle ==
  ASSUME TypeOK, NEW e \in Executors, Raises(e)
  PROVE  /\ exec' \in [Executors -> {Idle} \cup Jobs]
         /\ exec'[e] = Idle
         /\ \A d \in Executors \ {e} : exec'[d] = exec[d]
BY TakesJob DEF Raises

(* An executor goes on: the rest of its job is as it was. *)
LEMMA GoesOn ==
  ASSUME TypeOK, NEW e \in Executors, exec[e].pc # "idle", NEW pc \in Steps,
         Goes(e, pc)
  PROVE  /\ exec' \in [Executors -> {Idle} \cup Jobs]
         /\ exec'[e].pc = pc /\ exec'[e] \in Jobs
         /\ exec'[e].plan = exec[e].plan /\ exec'[e].view = exec[e].view
         /\ exec'[e].sha = exec[e].sha /\ exec'[e].written = exec[e].written
         /\ \A d \in Executors \ {e} : exec'[d] = exec[d]
<1> DEFINE j == [exec[e] EXCEPT !.pc = pc]
<1>1. exec' = [exec EXCEPT ![e] = j]
  BY DEF Goes
<1>2. exec[e] \in Jobs
  BY BusyJob
<1>3. /\ j \in Jobs
      /\ j.pc = pc /\ j.plan = exec[e].plan /\ j.view = exec[e].view
      /\ j.sha = exec[e].sha /\ j.written = exec[e].written
  BY <1>2 DEF Jobs
<1> HIDE DEF j
<1> QED
  BY <1>1, <1>3, TakesJob

(* What an executor has hashed. *)
LEMMA HashDone ==
  ASSUME TypeOK, NEW e \in Executors, NEW from \in Steps, NEW to \in Steps,
         NEW file \in {"page", "workflow"}, NEW path \in Paths,
         Hash(e, from, file, path, to)
  PROVE  /\ exec' \in [Executors -> {Idle} \cup Jobs]
         /\ exec'[e].pc = to /\ exec'[e] \in Jobs
         /\ exec'[e].plan = exec[e].plan /\ exec'[e].view = exec[e].view
         /\ exec'[e].sha = exec[e].sha
         /\ exec'[e].written.page =
              IF file = "page" THEN work[path] ELSE exec[e].written.page
         /\ exec'[e].written.workflow =
              IF file = "workflow" THEN work[path] ELSE exec[e].written.workflow
         /\ \A d \in Executors \ {e} : exec'[d] = exec[d]
<1> DEFINE b == [exec[e].written EXCEPT ![file] = work[path]]
           j == [exec[e] EXCEPT !.pc = to, !.written = b]
<1>1. exec[e].pc # "idle"
  BY Constants DEF Hash, At
<1>2. exec[e] \in Jobs
  BY <1>1, BusyJob
<1>3. work[path] \in Contents
  BY DEF TypeOK, Trees
<1>4. exec[e].written \in Bundles
  BY <1>2 DEF Jobs
<1>5. /\ b \in Bundles
      /\ b.page = IF file = "page" THEN work[path] ELSE exec[e].written.page
      /\ b.workflow =
           IF file = "workflow" THEN work[path] ELSE exec[e].written.workflow
  <2>1. CASE file = "page"
    BY <1>3, <1>4, <2>1 DEF Bundles
  <2>2. CASE file = "workflow"
    BY <1>3, <1>4, <2>2 DEF Bundles
  <2> QED
    BY <2>1, <2>2
<1>6. exec' = [exec EXCEPT ![e] = [exec[e] EXCEPT !.pc = to,
                                                  !.written[file] = work[path]]]
  BY DEF Hash
<1>7. exec' = [exec EXCEPT ![e] = j]
  BY <1>2, <1>6 DEF Jobs
<1> HIDE DEF b
<1>8. /\ j \in Jobs
      /\ j.pc = to /\ j.plan = exec[e].plan /\ j.view = exec[e].view
      /\ j.sha = exec[e].sha /\ j.written = b
  BY <1>2, <1>5 DEF Jobs
<1> HIDE DEF j
<1> QED
  BY <1>5, <1>7, <1>8, TakesJob

LEMMA InitTypeOK == Init => TypeOK
<1> SUFFICES ASSUME Init PROVE TypeOK
  OBVIOUS
<1>1. run \in [Runs -> TaskViews]
  BY DEF Init, TaskViews
<1>2. source \in [Plans -> Bundles]
  BY PlanFields DEF Init, Bundles
<1>3. work \in Trees /\ index \in Trees
  BY Constants DEF Init, Trees
<1>4. commits \in Seq(Trees) /\ commits # << >>
  BY <1>3 DEF Init
<1>5. evidence \in [Plans -> EvidenceStates]
        /\ \A p \in Plans : evidence[p].state # "whole"
  BY Constants DEF Init, EvidenceStates
<1>6. exec \in [Executors -> {Idle} \cup Jobs]
  BY DEF Init
<1>7. crashes \in 0 .. MaxCrashes /\ edits \in 0 .. MaxEdits
  BY DeployAssumption DEF Init
<1> QED
  BY <1>1, <1>2, <1>3, <1>4, <1>5, <1>6, <1>7 DEF TypeOK

(* The executors' part of the type invariant is the only part that most    *)
(* steps touch.                                                            *)
LEMMA QuietTypeOK ==
  ASSUME TypeOK, exec' \in [Executors -> {Idle} \cup Jobs],
         UNCHANGED << run, source, git, evidence, crashes, edits >>
  PROVE  TypeOK'
BY DEF TypeOK, git

(* The steps that copy one file of a plan. *)
LEMMA CopyTypeOK ==
  ASSUME TypeOK, NEW e \in Executors, NEW from \in Steps, NEW to \in Steps,
         NEW path \in Paths, NEW file \in {"page", "workflow"},
         NEW content, NEW planned,
         \/ Check(e, from, content, planned, to)
         \/ Write(e, from, path, content, to) /\ content \in Contents
         \/ Hash(e, from, file, path, to)
  PROVE  TypeOK'
<1>1. exec[e].pc # "idle"
  BY Constants DEF Check, Write, Hash, At
<1>2. CASE Check(e, from, content, planned, to)
  BY <1>1, <1>2, GoesOn, RaisesIdle, QuietTypeOK DEF Check
<1>3. CASE Write(e, from, path, content, to) /\ content \in Contents
  <2>1. work' \in Trees
    BY <1>3 DEF Write, TypeOK, Trees
  <2>2. exec' \in [Executors -> {Idle} \cup Jobs]
    BY <1>1, <1>3, GoesOn DEF Write
  <2> QED
    BY <1>3, <2>1, <2>2 DEF Write, TypeOK
<1>4. CASE Hash(e, from, file, path, to)
  BY <1>4, HashDone, QuietTypeOK DEF Hash
<1> QED
  BY <1>2, <1>3, <1>4

(* An executor about to write evidence has the number of a commit.         *)
ShaOK ==
  \A e \in Executors :
    exec[e].pc \in {"parsed", "writing"} => exec[e].sha \in DOMAIN commits

(* A branch grows by the index, and keeps its commits. *)
LEMMA AppendsTree ==
  ASSUME TypeOK
  PROVE  /\ Append(commits, index) \in Seq(Trees)
         /\ Append(commits, index) # << >>
         /\ Len(Append(commits, index)) = Len(commits) + 1
         /\ Append(commits, index)[Len(commits) + 1] = index
         /\ DOMAIN commits = 1 .. Len(commits) /\ Len(commits) \in Nat
         /\ DOMAIN Append(commits, index) = 1 .. Len(commits) + 1
         /\ DOMAIN commits \subseteq DOMAIN Append(commits, index)
         /\ \A i \in DOMAIN commits : Append(commits, index)[i] = commits[i]
<1>1. commits \in Seq(Trees) /\ index \in Trees
  BY DEF TypeOK
<1> HIDE DEF Trees
<1> QED
  BY <1>1

LEMMA StepKeepsTypeOK == TypeOK /\ ShaOK /\ [Next]_vars => TypeOK'
<1> SUFFICES ASSUME TypeOK, ShaOK, [Next]_vars PROVE TypeOK'
  OBVIOUS
<1>1. ASSUME NEW e \in Executors, NEW p \in Plans, Start(e, p) PROVE TypeOK'
  <2> DEFINE j == [pc |-> "started", plan |-> p, view |-> run[p.run], sha |-> 0,
                   written |-> [page |-> Missing, workflow |-> Missing]]
  <2>1. j \in Jobs
    BY PlanFields, Constants DEF Jobs, Steps, TypeOK, Bundles
  <2>2. exec' = [exec EXCEPT ![e] = j]
    BY <1>1 DEF Start
  <2> HIDE DEF j
  <2> QED
    BY <1>1, <2>1, <2>2, TakesJob, QuietTypeOK DEF Start
<1>2. ASSUME NEW e \in Executors, FindEvidence(e) PROVE TypeOK'
  <2>1. exec[e].pc # "idle" /\ {"evidenced", "approved"} \subseteq Steps
    BY <1>2 DEF FindEvidence, At, Steps
  <2>2. exec' \in [Executors -> {Idle} \cup Jobs]
    BY <1>2, <2>1, GoesOn, RaisesIdle DEF FindEvidence
  <2> QED
    BY <1>2, <2>2, QuietTypeOK DEF FindEvidence
<1>3. ASSUME NEW e \in Executors, VerifyCheckout(e) PROVE TypeOK'
  <2>1. exec[e].pc # "idle" /\ "verified" \in Steps
    BY <1>3 DEF VerifyCheckout, At, Steps
  <2> QED
    BY <1>3, <2>1, GoesOn, RaisesIdle, QuietTypeOK DEF VerifyCheckout
<1>4. ASSUME NEW e \in Executors, CopyPage(e) PROVE TypeOK'
  <2>1. exec[e].pc # "idle"
    BY <1>4 DEF CopyPage, Check, Write, Hash, At
  <2>2. exec[e].plan \in Plans /\ exec[e].plan.path \in Paths
    BY <2>1, BusyJob, JobFields, PlanFields
  <2>3. source[exec[e].plan].page \in Contents /\ Partial \in Contents
    BY <2>2, Constants DEF TypeOK, Bundles
  <2>4. {"verified", "page checked", "page opened", "page copied", "page hashed"}
           \subseteq Steps
    BY DEF Steps
  <2> QED
    BY <1>4, <2>2, <2>3, <2>4, CopyTypeOK DEF CopyPage
<1>5. ASSUME NEW e \in Executors, CopyWorkflow(e) PROVE TypeOK'
  <2>1. exec[e].pc # "idle"
    BY <1>5 DEF CopyWorkflow, Check, Write, Hash, At
  <2>2. exec[e].plan \in Plans /\ Workflow \in Paths
    BY <2>1, BusyJob, JobFields, Constants
  <2>3. source[exec[e].plan].workflow \in Contents /\ Partial \in Contents
    BY <2>2, Constants DEF TypeOK, Bundles
  <2>4. {"page hashed", "workflow checked", "workflow opened",
         "workflow copied", "copied"} \subseteq Steps
    BY DEF Steps
  <2> QED
    BY <1>5, <2>2, <2>3, <2>4, CopyTypeOK DEF CopyWorkflow
<1>6. ASSUME NEW e \in Executors, GitAdd(e) PROVE TypeOK'
  <2>1. exec[e].pc # "idle" /\ "staged" \in Steps
    BY <1>6 DEF GitAdd, At, Steps
  <2>2. exec' \in [Executors -> {Idle} \cup Jobs]
    BY <1>6, <2>1, GoesOn DEF GitAdd
  <2>3. index' \in Trees
    BY <1>6 DEF GitAdd, TypeOK, Trees
  <2> QED
    BY <1>6, <2>2, <2>3 DEF GitAdd, TypeOK
<1>7. ASSUME NEW e \in Executors, GitCommit(e) PROVE TypeOK'
  <2>1. exec[e].pc # "idle" /\ "committed" \in Steps
    BY <1>7 DEF GitCommit, At, Steps
  <2>2. exec' \in [Executors -> {Idle} \cup Jobs]
    BY <1>7, <2>1, GoesOn, RaisesIdle DEF GitCommit
  <2>3. commits' \in Seq(Trees) /\ commits' # << >>
          /\ DOMAIN commits \subseteq DOMAIN commits'
    <3>1. ASSUME commits' = Append(commits, index)
          PROVE  /\ commits' \in Seq(Trees) /\ commits' # << >>
                 /\ DOMAIN commits \subseteq DOMAIN commits'
      BY <3>1, AppendsTree
    <3>2. commits \in Seq(Trees) /\ commits # << >>
      BY DEF TypeOK
    <3>3. commits' = commits \/ commits' = Append(commits, index)
      BY <1>7 DEF GitCommit
    <3> QED
      BY <3>1, <3>2, <3>3
  <2> QED
    BY <1>7, <2>2, <2>3 DEF GitCommit, TypeOK
<1>8. ASSUME NEW e \in Executors, RevParseHead(e) PROVE TypeOK'
  <2> DEFINE j == [exec[e] EXCEPT !.pc = "parsed", !.sha = Len(commits)]
  <2>1. exec[e] \in Jobs
    BY <1>8, BusyJob DEF RevParseHead, At
  <2>2. Len(commits) \in Nat /\ "parsed" \in Steps
    BY DEF TypeOK, Steps
  <2>3. j \in Jobs
    BY <2>1, <2>2, JobFields
  <2>4. exec' = [exec EXCEPT ![e] = j]
    BY <1>8 DEF RevParseHead
  <2> HIDE DEF j
  <2> QED
    BY <1>8, <2>3, <2>4, TakesJob, QuietTypeOK DEF RevParseHead
<1>9. ASSUME NEW e \in Executors, OpenEvidence(e) PROVE TypeOK'
  <2>1. exec[e].pc # "idle" /\ "writing" \in Steps
    BY <1>9 DEF OpenEvidence, At, Steps
  <2>2. exec' \in [Executors -> {Idle} \cup Jobs]
    BY <1>9, <2>1, GoesOn DEF OpenEvidence
  <2>3. /\ evidence' \in [Plans -> EvidenceStates]
        /\ \A p \in Plans : evidence'[p] = evidence[p] \/ evidence'[p] = Torn
    BY <1>9 DEF OpenEvidence, TypeOK, EvidenceStates
  <2>4. Torn.state # "whole"
    BY Constants
  <2> QED
    BY <1>9, <2>2, <2>3, <2>4 DEF OpenEvidence, TypeOK, git
<1>10. ASSUME NEW e \in Executors, WriteEvidence(e) PROVE TypeOK'
  <2> DEFINE record == Evidence(exec[e].sha, exec[e].written)
  <2>1. exec[e].pc = "writing" /\ exec[e].pc # "idle" /\ "evidenced" \in Steps
    BY <1>10 DEF WriteEvidence, At, Steps
  <2>2. exec' \in [Executors -> {Idle} \cup Jobs]
    BY <1>10, <2>1, GoesOn DEF WriteEvidence
  <2>3. exec[e].sha \in Nat /\ exec[e].written \in Bundles
    BY <2>1, BusyJob, JobFields
  <2>4. record \in EvidenceStates /\ record.sha \in DOMAIN commits
    BY <2>1, <2>3 DEF Evidence, EvidenceStates, ShaOK
  <2>5. /\ evidence' = [evidence EXCEPT ![exec[e].plan] = record]
        /\ UNCHANGED << run, source, git, crashes, edits >>
    BY <1>10 DEF WriteEvidence
  <2> HIDE DEF record
  <2>6. /\ evidence' \in [Plans -> EvidenceStates]
        /\ \A p \in Plans : evidence'[p] = evidence[p] \/ evidence'[p] = record
    BY <2>4, <2>5 DEF TypeOK
  <2> QED
    BY <2>2, <2>4, <2>5, <2>6 DEF TypeOK, git
<1>11. ASSUME NEW e \in Executors, SaveRun(e) PROVE TypeOK'
  <2>1. exec[e].pc # "idle"
    BY <1>11 DEF SaveRun, At
  <2>2. exec[e].plan \in Plans /\ exec[e].view \in TaskViews
    BY <2>1, BusyJob, JobFields
  <2>3. run' \in [Runs -> TaskViews]
    BY <1>11, <2>2 DEF SaveRun, TypeOK, TaskViews
  <2>4. exec' \in [Executors -> {Idle} \cup Jobs]
    BY <1>11, RaisesIdle DEF SaveRun, Raises
  <2> QED
    BY <1>11, <2>3, <2>4 DEF SaveRun, TypeOK, git
<1>12. ASSUME NEW e \in Executors, Crash(e) PROVE TypeOK'
  <2>1. exec' \in [Executors -> {Idle} \cup Jobs]
    BY <1>12, RaisesIdle DEF Crash, Raises
  <2>2. crashes' \in 0 .. MaxCrashes
    BY <1>12, DeployAssumption DEF Crash, TypeOK
  <2> QED
    BY <1>12, <2>1, <2>2 DEF Crash, TypeOK, git
<1>13. ASSUME NEW p \in Plans, NEW file \in {"page", "workflow"},
              EditBundle(p, file)
       PROVE  TypeOK'
  <2>1. [source[p] EXCEPT ![file] = Edited] \in Bundles
    BY Constants DEF TypeOK, Bundles
  <2>2. source' \in [Plans -> Bundles]
    BY <1>13, <2>1 DEF EditBundle, TypeOK
  <2>3. edits' \in 0 .. MaxEdits
    BY <1>13, DeployAssumption DEF EditBundle, TypeOK
  <2> QED
    BY <1>13, <2>2, <2>3 DEF EditBundle, TypeOK, git
<1>14. ASSUME EditCheckout PROVE TypeOK'
  <2>1. work' \in Trees
    BY <1>14, Constants DEF EditCheckout, TypeOK, Trees
  <2>2. edits' \in 0 .. MaxEdits
    BY <1>14, DeployAssumption DEF EditCheckout, TypeOK
  <2> QED
    BY <1>14, <2>1, <2>2 DEF EditCheckout, TypeOK, git
<1>15. CASE UNCHANGED vars
  BY <1>15 DEF vars, TypeOK, git
<1> QED
  BY <1>1, <1>2, <1>3, <1>4, <1>5, <1>6, <1>7, <1>8, <1>9, <1>10, <1>11,
     <1>12, <1>13, <1>14, <1>15 DEF Next, Execute

-----------------------------------------------------------------------------
(* What the steps do to the evidence.  Between its start and its evidence  *)
(* an executor only works: it raises, or goes on with the same job, and    *)
(* neither run nor evidence changes.                                       *)

Working ==
  { "approved", "verified", "page checked", "page opened", "page copied",
    "page hashed", "workflow checked", "workflow opened", "workflow copied",
    "copied", "staged", "committed", "parsed" }

SameJob(e) == exec'[e].plan = exec[e].plan /\ exec'[e].view = exec[e].view

OthersWait(e) == \A d \in Executors \ {e} : exec'[d] = exec[d]

WorkStep(e) ==
  \/ FindEvidence(e)
  \/ VerifyCheckout(e)
  \/ CopyPage(e)
  \/ CopyWorkflow(e)
  \/ GitAdd(e)
  \/ GitCommit(e)
  \/ RevParseHead(e)

LEMMA WorkingSteps == Working \subseteq Steps /\ "idle" \notin Working
BY DEF Working, Steps

LEMMA CopyWorks ==
  ASSUME TypeOK, NEW e \in Executors, NEW from \in Working, NEW to \in Working,
         NEW path \in Paths, NEW file \in {"page", "workflow"},
         NEW content, NEW planned,
         \/ Check(e, from, content, planned, to)
         \/ Write(e, from, path, content, to)
         \/ Hash(e, from, file, path, to)
  PROVE  /\ UNCHANGED << run, evidence, crashes, index, commits >>
         /\ OthersWait(e) /\ exec[e].pc = from
         /\ \/ exec'[e] = Idle
            \/ SameJob(e) /\ exec'[e].pc = to
<1>1. exec[e].pc = from /\ exec[e].pc # "idle"
  BY WorkingSteps DEF Check, Write, Hash, At
<1>2. UNCHANGED << run, evidence, crashes, index, commits >>
  BY DEF Check, Write, Hash, git
<1>3. CASE Goes(e, to)
  <2>1. to \in Steps
    BY WorkingSteps
  <2>2. OthersWait(e) /\ SameJob(e) /\ exec'[e].pc = to
    BY <1>1, <1>3, <2>1, GoesOn DEF OthersWait, SameJob
  <2> QED
    BY <1>1, <1>2, <2>2
<1>4. CASE Raises(e)
  <2>1. OthersWait(e) /\ exec'[e] = Idle
    BY <1>4, RaisesIdle DEF OthersWait
  <2> QED
    BY <1>1, <1>2, <2>1
<1>5. CASE Hash(e, from, file, path, to)
  <2>1. from \in Steps /\ to \in Steps
    BY WorkingSteps
  <2>2. OthersWait(e) /\ SameJob(e) /\ exec'[e].pc = to
    BY <1>5, <2>1, HashDone DEF OthersWait, SameJob
  <2> QED
    BY <1>1, <1>2, <2>2
<1> QED
  BY <1>3, <1>4, <1>5 DEF Check, Write

LEMMA Works ==
  ASSUME TypeOK, NEW e \in Executors, WorkStep(e)
  PROVE  /\ UNCHANGED << run, evidence, crashes >>
         /\ OthersWait(e) /\ exec[e].pc \in Working \cup {"started"}
         /\ \/ exec'[e] = Idle
            \/ /\ SameJob(e)
               /\ \/ exec[e].pc \in Working /\ exec'[e].pc \in Working
                  \/ /\ exec'[e].pc = "approved"
                     /\ evidence[exec[e].plan].state = "absent"
                  \/ /\ exec'[e].pc = "evidenced"
                     /\ evidence[exec[e].plan].state = "whole"
<1> DEFINE Goal ==
         /\ UNCHANGED << run, evidence, crashes >>
         /\ OthersWait(e) /\ exec[e].pc \in Working \cup {"started"}
         /\ \/ exec'[e] = Idle
            \/ /\ SameJob(e)
               /\ \/ exec[e].pc \in Working /\ exec'[e].pc \in Working
                  \/ /\ exec'[e].pc = "approved"
                     /\ evidence[exec[e].plan].state = "absent"
                  \/ /\ exec'[e].pc = "evidenced"
                     /\ evidence[exec[e].plan].state = "whole"
<1>1. ASSUME FindEvidence(e) PROVE Goal
  <2>1. exec[e].pc = "started" /\ {"evidenced", "approved"} \subseteq Steps
    BY <1>1 DEF FindEvidence, At, Steps
  <2> QED
    BY <1>1, <2>1, GoesOn, RaisesIdle DEF FindEvidence, OthersWait, SameJob
<1>2. ASSUME VerifyCheckout(e) PROVE Goal
  <2>1. exec[e].pc = "approved" /\ exec[e].pc # "idle" /\ "verified" \in Steps
    BY <1>2 DEF VerifyCheckout, At, Steps
  <2> QED
    BY <1>2, <2>1, GoesOn, RaisesIdle
       DEF VerifyCheckout, OthersWait, SameJob, Working
<1>a. ASSUME NEW from \in Working, NEW to \in Working, NEW path \in Paths,
             NEW file \in {"page", "workflow"}, NEW content, NEW planned,
             \/ Check(e, from, content, planned, to)
             \/ Write(e, from, path, content, to)
             \/ Hash(e, from, file, path, to)
      PROVE  Goal
  BY <1>a, CopyWorks
<1>3. ASSUME CopyPage(e) PROVE Goal
  <2>1. exec[e].pc # "idle"
    BY <1>3 DEF CopyPage, Check, Write, Hash, At
  <2>2. exec[e].plan.path \in Paths
    BY <2>1, BusyJob, JobFields, PlanFields
  <2>3. {"verified", "page checked", "page opened", "page copied", "page hashed"}
           \subseteq Working
    BY DEF Working
  <2> QED
    BY <1>3, <1>a, <2>2, <2>3 DEF CopyPage
<1>4. ASSUME CopyWorkflow(e) PROVE Goal
  <2>1. Workflow \in Paths
    BY Constants
  <2>2. {"page hashed", "workflow checked", "workflow opened",
         "workflow copied", "copied"} \subseteq Working
    BY DEF Working
  <2> QED
    BY <1>4, <1>a, <2>1, <2>2 DEF CopyWorkflow
<1>5. ASSUME GitAdd(e) \/ GitCommit(e) PROVE Goal
  <2>1. exec[e].pc \in {"copied", "staged"} /\ {"staged", "committed"} \subseteq Steps
    BY <1>5 DEF GitAdd, GitCommit, At, Steps
  <2> QED
    BY <1>5, <2>1, GoesOn, RaisesIdle
       DEF GitAdd, GitCommit, OthersWait, SameJob, Working
<1>6. ASSUME RevParseHead(e) PROVE Goal
  <2> DEFINE j == [exec[e] EXCEPT !.pc = "parsed", !.sha = Len(commits)]
  <2>1. exec[e].pc = "committed" /\ exec[e] \in Jobs
    BY <1>6, BusyJob DEF RevParseHead, At
  <2>2. Len(commits) \in Nat /\ "parsed" \in Steps
    BY DEF TypeOK, Steps
  <2>3. /\ j \in Jobs /\ j.pc = "parsed"
        /\ j.plan = exec[e].plan /\ j.view = exec[e].view
    BY <2>1, <2>2 DEF Jobs
  <2>4. exec' = [exec EXCEPT ![e] = j] /\ UNCHANGED << run, evidence, crashes >>
    BY <1>6 DEF RevParseHead
  <2> HIDE DEF j
  <2> QED
    BY <2>1, <2>3, <2>4, TakesJob DEF OthersWait, SameJob, Working
<1> HIDE DEF Goal
<1>7. Goal
  BY <1>1, <1>2, <1>3, <1>4, <1>5, <1>6 DEF WorkStep
<1> QED
  BY <1>7 DEF Goal

(* The same for every step. *)
LEMMA StepTable ==
  ASSUME TypeOK, [Next]_vars
  PROVE  \/ UNCHANGED << run, evidence, exec, crashes >>
         \/ \E e \in Executors, p \in Plans : Start(e, p)
         \/ \E e \in Executors :
              WorkStep(e) \/ OpenEvidence(e) \/ WriteEvidence(e) \/ SaveRun(e)
                \/ Crash(e)
BY DEF Next, Execute, WorkStep, EditBundle, EditCheckout, vars

LEMMA StartJob ==
  ASSUME TypeOK, NEW e \in Executors, NEW p \in Plans, Start(e, p)
  PROVE  /\ exec'[e].pc = "started" /\ exec'[e].view = run[p.run]
         /\ p.run \in Runs /\ OthersWait(e)
         /\ UNCHANGED << run, evidence, crashes, index, commits, work >>
<1> DEFINE j == [pc |-> "started", plan |-> p, view |-> run[p.run], sha |-> 0,
                 written |-> [page |-> Missing, workflow |-> Missing]]
<1>1. exec' = [exec EXCEPT ![e] = j] /\ p.run \in Runs
  BY PlanFields DEF Start
<1>2. exec'[e] = j
  BY <1>1 DEF TypeOK
<1> QED
  BY <1>1, <1>2 DEF Start, OthersWait, TypeOK, git

LEMMA OpenStep ==
  ASSUME TypeOK, NEW e \in Executors, OpenEvidence(e)
  PROVE  /\ exec[e].pc = "parsed" /\ exec'[e].pc = "writing"
         /\ SameJob(e) /\ OthersWait(e) /\ exec[e].plan \in Plans
         /\ exec'[e].sha = exec[e].sha /\ exec'[e].written = exec[e].written
         /\ evidence'[exec[e].plan] = Torn
         /\ \A p \in Plans \ {exec[e].plan} : evidence'[p] = evidence[p]
         /\ UNCHANGED << run, crashes, index, commits, work >>
<1>1. exec[e].pc = "parsed" /\ exec[e].pc # "idle" /\ "writing" \in Steps
  BY DEF OpenEvidence, At, Steps
<1>2. exec[e].plan \in Plans
  BY <1>1, BusyJob, JobFields
<1> QED
  BY <1>1, <1>2, GoesOn DEF OpenEvidence, SameJob, OthersWait, TypeOK, git

LEMMA WriteStep ==
  ASSUME TypeOK, NEW e \in Executors, WriteEvidence(e)
  PROVE  /\ exec[e].pc = "writing" /\ exec'[e].pc = "evidenced"
         /\ SameJob(e) /\ OthersWait(e) /\ exec[e].plan \in Plans
         /\ evidence'[exec[e].plan] = Evidence(exec[e].sha, exec[e].written)
         /\ evidence'[exec[e].plan].state = "whole"
         /\ \A p \in Plans \ {exec[e].plan} : evidence'[p] = evidence[p]
         /\ UNCHANGED << run, crashes, index, commits, work >>
<1>1. exec[e].pc = "writing" /\ exec[e].pc # "idle" /\ "evidenced" \in Steps
  BY DEF WriteEvidence, At, Steps
<1>2. exec[e].plan \in Plans
  BY <1>1, BusyJob, JobFields
<1>3. evidence'[exec[e].plan] = Evidence(exec[e].sha, exec[e].written)
  BY <1>2 DEF WriteEvidence, TypeOK
<1>4. Evidence(exec[e].sha, exec[e].written).state = "whole"
  BY DEF Evidence
<1>5. SameJob(e) /\ OthersWait(e) /\ exec'[e].pc = "evidenced"
  BY <1>1, GoesOn DEF WriteEvidence, SameJob, OthersWait
<1> QED
  BY <1>1, <1>2, <1>3, <1>4, <1>5 DEF WriteEvidence, TypeOK, git

LEMMA SaveStep ==
  ASSUME TypeOK, NEW e \in Executors, SaveRun(e)
  PROVE  /\ exec[e].pc = "evidenced" /\ exec'[e] = Idle /\ OthersWait(e)
         /\ exec[e].plan \in Plans
         /\ \A r \in Runs :
              \/ run'[r] = run[r]
              \/ run'[r] = [status |-> "completed",
                            refs |-> exec[e].view.refs \cup {exec[e].plan}]
         /\ UNCHANGED << evidence, crashes, index, commits, work >>
<1>1. exec[e].pc = "evidenced" /\ exec[e].pc # "idle"
  BY DEF SaveRun, At
<1>2. exec[e].plan \in Plans
  BY <1>1, BusyJob, JobFields
<1>3. exec'[e] = Idle /\ OthersWait(e)
  BY RaisesIdle DEF SaveRun, Raises, OthersWait
<1> QED
  BY <1>1, <1>2, <1>3 DEF SaveRun, TypeOK, git

LEMMA CrashStep ==
  ASSUME TypeOK, NEW e \in Executors, Crash(e)
  PROVE  /\ exec'[e] = Idle /\ OthersWait(e) /\ crashes' > 0
         /\ UNCHANGED << run, evidence, index, commits, work >>
<1>1. exec'[e] = Idle /\ OthersWait(e)
  BY RaisesIdle DEF Crash, Raises, OthersWait
<1>2. crashes' > 0
  BY DeployAssumption DEF Crash, TypeOK
<1> QED
  BY <1>1, <1>2 DEF Crash, git

-----------------------------------------------------------------------------
(* Any number of executors. *)

(* The evidence of a plan, once opened, is never gone; it is torn only     *)
(* while somebody writes it or after a kill.                               *)
Writing(p) == \E e \in Executors : exec[e].pc = "writing" /\ exec[e].plan = p

TornInv ==
  \A p \in Plans : evidence[p].state = "torn" => crashes > 0 \/ Writing(p)

Opened(ev, p) == ev[p].state # "absent"

OpenedInv ==
  /\ \A r \in Runs : \A p \in run[r].refs : Opened(evidence, p)
  /\ \A e \in Executors : exec[e].pc # "idle" =>
       /\ \A p \in exec[e].view.refs : Opened(evidence, p)
       /\ exec[e].pc = "evidenced" => Opened(evidence, exec[e].plan)

LEMMA StepKeepsTornInv == TypeOK /\ TornInv /\ [Next]_vars => TornInv'
<1> SUFFICES ASSUME TypeOK, TornInv, [Next]_vars, NEW p \in Plans,
                    evidence'[p].state = "torn"
             PROVE  crashes' > 0 \/ Writing(p)'
  BY DEF TornInv
<1>1. CASE UNCHANGED << run, evidence, exec, crashes >>
  BY <1>1 DEF TornInv, Writing
<1>2. ASSUME NEW e \in Executors, evidence'[p] = evidence[p], crashes' = crashes,
             OthersWait(e), exec[e].pc # "writing"
      PROVE  crashes' > 0 \/ Writing(p)'
  BY <1>2 DEF TornInv, Writing, OthersWait
<1>3. ASSUME NEW e \in Executors, NEW q \in Plans, Start(e, q)
      PROVE  crashes' > 0 \/ Writing(p)'
  BY <1>2, <1>3, StartJob DEF Start, At
<1>4. ASSUME NEW e \in Executors, WorkStep(e) PROVE crashes' > 0 \/ Writing(p)'
  BY <1>2, <1>4, Works DEF Working
<1>5. ASSUME NEW e \in Executors, OpenEvidence(e)
      PROVE  crashes' > 0 \/ Writing(p)'
  <2>1. CASE exec[e].plan = p
    BY <1>5, <2>1, OpenStep DEF Writing, SameJob
  <2>2. CASE exec[e].plan # p
    BY <1>2, <1>5, <2>2, OpenStep
  <2> QED
    BY <2>1, <2>2
<1>6. ASSUME NEW e \in Executors, WriteEvidence(e)
      PROVE  crashes' > 0 \/ Writing(p)'
  <2>1. exec[e].plan # p /\ evidence'[p] = evidence[p]
    BY <1>6, WriteStep
  <2>2. crashes > 0 \/ Writing(p)
    BY <2>1 DEF TornInv
  <2> QED
    BY <1>6, <2>1, <2>2, WriteStep DEF Writing, OthersWait
<1>7. ASSUME NEW e \in Executors, SaveRun(e) PROVE crashes' > 0 \/ Writing(p)'
  BY <1>2, <1>7, SaveStep
<1>8. ASSUME NEW e \in Executors, Crash(e) PROVE crashes' > 0 \/ Writing(p)'
  BY <1>8, CrashStep
<1> QED
  BY <1>1, <1>3, <1>4, <1>5, <1>6, <1>7, <1>8, StepTable

(* Whatever is opened stays so, for every executor's job as well. *)
LEMMA StepKeepsOpenedInv == TypeOK /\ OpenedInv /\ [Next]_vars => OpenedInv'
<1> SUFFICES ASSUME TypeOK, OpenedInv, [Next]_vars PROVE OpenedInv'
  OBVIOUS
<1> DEFINE Still == \A p \in Plans : Opened(evidence, p) => Opened(evidence', p)
           RunsFine == \A r \in Runs : \A p \in run'[r].refs : Opened(evidence', p)
           Fine(e) == exec'[e].pc # "idle" =>
                        /\ \A p \in exec'[e].view.refs : Opened(evidence', p)
                        /\ exec'[e].pc = "evidenced" => Opened(evidence', exec'[e].plan)
<1>1. /\ \A r \in Runs : run[r].refs \subseteq Plans
      /\ \A e \in Executors : exec[e].pc # "idle" =>
           exec[e].view.refs \subseteq Plans /\ exec[e].plan \in Plans
  BY BusyJob, JobFields DEF TypeOK, TaskViews
<1>2. ASSUME Still, NEW e \in Executors, OthersWait(e), Fine(e), RunsFine
      PROVE  OpenedInv'
  <2>1. ASSUME NEW d \in Executors \ {e} PROVE Fine(d)
    BY <1>1, <1>2, <2>1 DEF OpenedInv, OthersWait
  <2> QED
    BY <1>2, <2>1 DEF OpenedInv
<1>3. ASSUME Still, run' = run PROVE RunsFine
  BY <1>1, <1>3 DEF OpenedInv
<1>4. CASE UNCHANGED << run, evidence, exec, crashes >>
  BY <1>4 DEF OpenedInv, Opened
<1>5. ASSUME evidence' = evidence PROVE Still
  BY <1>5 DEF Opened
<1>6. ASSUME NEW e \in Executors, NEW q \in Plans, Start(e, q) PROVE OpenedInv'
  <2>1. Still /\ RunsFine
    BY <1>3, <1>5, <1>6, StartJob
  <2>2. Fine(e)
    BY <1>6, StartJob DEF OpenedInv, Opened
  <2> QED
    BY <1>2, <1>6, <2>1, <2>2, StartJob
<1>7. ASSUME NEW e \in Executors, WorkStep(e) PROVE OpenedInv'
  <2>1. Still /\ RunsFine
    BY <1>3, <1>5, <1>7, Works
  <2>2. exec[e].pc # "idle"
    BY <1>7, Works, WorkingSteps
  <2>3. CASE exec'[e] = Idle
    BY <1>2, <1>7, <2>1, <2>3, Works, Constants
  <2>4. CASE SameJob(e) /\ (exec'[e].pc = "evidenced" => Opened(evidence, exec[e].plan))
    <3>1. Fine(e)
      BY <1>1, <2>1, <2>2, <2>4 DEF OpenedInv, SameJob
    <3> QED
      BY <1>2, <1>7, <2>1, <3>1, Works
  <2> QED
    BY <1>7, <2>3, <2>4, Works DEF Opened, Working
<1>8. ASSUME NEW e \in Executors, OpenEvidence(e) \/ WriteEvidence(e)
      PROVE  OpenedInv'
  <2>1. /\ exec[e].pc # "idle" /\ SameJob(e) /\ OthersWait(e)
        /\ exec[e].plan \in Plans /\ UNCHANGED run
        /\ Opened(evidence', exec[e].plan)
        /\ \A p \in Plans \ {exec[e].plan} : evidence'[p] = evidence[p]
    BY <1>8, OpenStep, WriteStep, Constants DEF Opened
  <2>2. Still
    BY <2>1 DEF Opened
  <2>3. Fine(e)
    BY <1>1, <2>1, <2>2 DEF OpenedInv, SameJob
  <2> QED
    BY <1>2, <1>3, <2>1, <2>2, <2>3
<1>9. ASSUME NEW e \in Executors, SaveRun(e) PROVE OpenedInv'
  <2>1. Still /\ exec[e].pc # "idle"
    BY <1>5, <1>9, SaveStep
  <2>2. /\ \A p \in exec[e].view.refs : Opened(evidence', p)
        /\ Opened(evidence', exec[e].plan)
    BY <1>1, <1>9, <2>1, SaveStep DEF OpenedInv
  <2>3. RunsFine
    <3>1. SUFFICES ASSUME NEW r \in Runs, NEW p \in run'[r].refs
                   PROVE  Opened(evidence', p)
      OBVIOUS
    <3>2. CASE run'[r] = run[r]
      BY <1>1, <2>1, <3>1, <3>2 DEF OpenedInv
    <3>3. CASE run'[r] = [status |-> "completed",
                          refs |-> exec[e].view.refs \cup {exec[e].plan}]
      BY <2>2, <3>1, <3>3
    <3> QED
      BY <1>9, <3>2, <3>3, SaveStep
  <2>4. Fine(e)
    BY <1>9, SaveStep, Constants
  <2> QED
    BY <1>2, <1>9, <2>1, <2>3, <2>4, SaveStep
<1>10. ASSUME NEW e \in Executors, Crash(e) PROVE OpenedInv'
  <2>1. Still /\ RunsFine /\ Fine(e)
    BY <1>3, <1>5, <1>10, CrashStep, Constants
  <2> QED
    BY <1>2, <1>10, <2>1, CrashStep
<1> QED
  BY <1>4, <1>6, <1>7, <1>8, <1>9, <1>10, StepTable

(* The number of the commit that an executor has read. *)
LEMMA ShaStep ==
  ASSUME TypeOK, [Next]_vars, NEW d \in Executors,
         exec'[d].pc \in {"parsed", "writing"}
  PROVE  \/ exec'[d].sha = Len(commits)
         \/ exec[d].pc \in {"parsed", "writing"} /\ exec'[d].sha = exec[d].sha
<1> DEFINE Goal == \/ exec'[d].sha = Len(commits)
                   \/ /\ exec[d].pc \in {"parsed", "writing"}
                      /\ exec'[d].sha = exec[d].sha
           Late == exec'[d].pc \in {"parsed", "writing"}
<1>1. CASE exec'[d] = exec[d]
  BY <1>1
<1>2. ASSUME NEW e \in Executors, OthersWait(e), e # d PROVE Goal
  BY <1>1, <1>2 DEF OthersWait
<1>3. ASSUME NEW p \in Plans, Start(d, p) PROVE ~ Late
  BY <1>3, StartJob
<1>4. ASSUME exec'[d] = Idle PROVE ~ Late
  BY <1>4, Constants
<1>5. ASSUME FindEvidence(d) \/ VerifyCheckout(d) \/ GitAdd(d) \/ GitCommit(d)
      PROVE  ~ Late
  <2>1. exec[d].pc # "idle"
    BY <1>5 DEF FindEvidence, VerifyCheckout, GitAdd, GitCommit, At
  <2>2. {"evidenced", "approved", "verified", "staged", "committed"} \subseteq Steps
    BY DEF Steps
  <2>3. \/ Raises(d)
        \/ \E pc \in {"evidenced", "approved", "verified", "staged", "committed"} :
             Goes(d, pc)
    BY <1>5 DEF FindEvidence, VerifyCheckout, GitAdd, GitCommit
  <2> QED
    BY <1>4, <2>1, <2>2, <2>3, GoesOn, RaisesIdle
<1>6. ASSUME CopyPage(d) PROVE ~ Late
  <2>1. exec[d].pc # "idle"
    BY <1>6 DEF CopyPage, Check, Write, Hash, At
  <2>2. exec[d].plan.path \in Paths
    BY <2>1, BusyJob, JobFields, PlanFields
  <2>3. {"verified", "page checked", "page opened", "page copied", "page hashed"}
           \subseteq Working
    BY DEF Working
  <2>4. \/ exec'[d] = Idle
        \/ exec'[d].pc \in {"page checked", "page opened", "page copied",
                             "page hashed"}
    BY <1>6, <2>2, <2>3, CopyWorks DEF CopyPage
  <2> QED
    BY <1>4, <2>4
<1>7. ASSUME CopyWorkflow(d) PROVE ~ Late
  <2>1. Workflow \in Paths
    BY Constants
  <2>2. {"page hashed", "workflow checked", "workflow opened",
         "workflow copied", "copied"} \subseteq Working
    BY DEF Working
  <2>3. \/ exec'[d] = Idle
        \/ exec'[d].pc \in {"workflow checked", "workflow opened",
                             "workflow copied", "copied"}
    BY <1>7, <2>1, <2>2, CopyWorks DEF CopyWorkflow
  <2> QED
    BY <1>4, <2>3
<1>8. ASSUME RevParseHead(d) PROVE Goal
  <2>1. exec[d] \in Jobs
    BY <1>8, BusyJob DEF RevParseHead, At
  <2>2. exec'[d] = [exec[d] EXCEPT !.pc = "parsed", !.sha = Len(commits)]
    BY <1>8 DEF RevParseHead, TypeOK
  <2> QED
    BY <2>1, <2>2 DEF Jobs
<1>9. ASSUME OpenEvidence(d) PROVE Goal
  BY <1>9, OpenStep
<1>10. ASSUME WriteEvidence(d) PROVE ~ Late
  BY <1>10, WriteStep
<1>11. ASSUME SaveRun(d) \/ Crash(d) PROVE ~ Late
  BY <1>4, <1>11, SaveStep, CrashStep
<1>12. ASSUME WorkStep(d) PROVE Goal
  BY <1>5, <1>6, <1>7, <1>8, <1>12 DEF WorkStep
<1>13. ASSUME NEW e \in Executors, NEW p \in Plans, Start(e, p) PROVE Goal
  BY <1>2, <1>3, <1>13, StartJob
<1>14. ASSUME NEW e \in Executors,
              WorkStep(e) \/ OpenEvidence(e) \/ WriteEvidence(e) \/ SaveRun(e)
                \/ Crash(e)
       PROVE  Goal
  <2>1. OthersWait(e)
    BY <1>14, Works, OpenStep, WriteStep, SaveStep, CrashStep
  <2> QED
    BY <1>2, <1>9, <1>10, <1>11, <1>12, <1>14, <2>1
<1> HIDE DEF Goal
<1>15. Goal
  BY <1>1, <1>13, <1>14, StepTable DEF Goal
<1> QED
  BY <1>15 DEF Goal

LEMMA CommitsGrow ==
  ASSUME TypeOK, [Next]_vars
  PROVE  commits' = commits \/ commits' = Append(commits, index)
BY DEF Next, Execute, Start, FindEvidence, VerifyCheckout, CopyPage,
       CopyWorkflow, Check, Write, Hash, GitAdd, GitCommit, RevParseHead,
       OpenEvidence, WriteEvidence, SaveRun, Crash, EditBundle, EditCheckout,
       vars, git

LEMMA StepKeepsShaOK == TypeOK /\ ShaOK /\ [Next]_vars => ShaOK'
<1> SUFFICES ASSUME TypeOK, ShaOK, [Next]_vars, NEW d \in Executors,
                    exec'[d].pc \in {"parsed", "writing"}
             PROVE  exec'[d].sha \in DOMAIN commits'
  BY DEF ShaOK
<1>1. /\ Len(commits) \in DOMAIN commits
      /\ DOMAIN commits \subseteq DOMAIN commits'
  <2>1. commits # << >> /\ commits \in Seq(Trees)
    BY DEF TypeOK
  <2>2. Len(commits) \in DOMAIN commits
    BY <2>1
  <2> QED
    BY <2>2, CommitsGrow, AppendsTree
<1>2. exec'[d].sha \in DOMAIN commits
  BY <1>1, ShaStep DEF ShaOK
<1> QED
  BY <1>1, <1>2

LEMMA AlwaysTyped == Spec => [](TypeOK /\ ShaOK)
<1>1. Init => TypeOK /\ ShaOK
  BY InitTypeOK, Constants DEF Init, ShaOK
<1>2. TypeOK /\ ShaOK /\ [Next]_vars => (TypeOK /\ ShaOK)'
  BY StepKeepsTypeOK, StepKeepsShaOK
<1> QED
  BY <1>1, <1>2, PTL DEF Spec

(* The deployment stays well typed; in particular, every evidence names a  *)
(* commit that the branch has.                                             *)
THEOREM DeployTypeCorrect == Spec => []TypeOK
BY AlwaysTyped, PTL

(* For any number of executors, kills and edits: the evidence of a         *)
(* recorded deployment is whole, unless an executor is writing it again or *)
(* one was killed.                                                         *)
THEOREM RecordedEvidenceAlwaysRestored == Spec => []RecordedEvidenceRestored
<1>1. Init => TornInv /\ OpenedInv
  <2>1. Init => TornInv
    BY Constants DEF Init, TornInv
  <2>2. Init => OpenedInv
    BY Constants DEF Init, OpenedInv
  <2> QED
    BY <2>1, <2>2
<1>2. TypeOK /\ TornInv /\ OpenedInv /\ [Next]_vars => (TornInv /\ OpenedInv)'
  BY StepKeepsTornInv, StepKeepsOpenedInv
<1>3. TypeOK /\ TornInv /\ OpenedInv => RecordedEvidenceRestored
  <2>1. SUFFICES ASSUME TypeOK, TornInv, OpenedInv, NEW r \in Runs,
                        NEW p \in run[r].refs, evidence[p].state # "whole"
                 PROVE  /\ evidence[p].state = "torn"
                        /\ crashes > 0 \/ Writing(p)
    BY DEF RecordedEvidenceRestored, Writing, At
  <2>2. p \in Plans
    BY <2>1 DEF TypeOK, TaskViews
  <2>3. evidence[p] \in EvidenceStates
    BY <2>1, <2>2 DEF TypeOK
  <2>4. evidence[p].state = "torn"
    BY <2>1, <2>3, Constants DEF EvidenceStates, OpenedInv, Opened
  <2> QED
    BY <2>1, <2>2, <2>4 DEF TornInv
<1> QED
  BY <1>1, <1>2, <1>3, AlwaysTyped, PTL DEF Spec

-----------------------------------------------------------------------------
(* One executor.  Evidence that it found absent stays absent until it      *)
(* opens it itself; whole evidence is never opened again.                  *)

OneExecutor == \A d, e \in Executors : d = e

Whole(ev, p) == ev[p].state = "whole"

(* What a job knows of the evidence. *)
Knows(j, ev) ==
  /\ \A p \in j.view.refs : Whole(ev, p)
  /\ j.pc \in Working => ev[j.plan].state = "absent"
  /\ j.pc = "writing" => ev[j.plan].state = "torn"
  /\ j.pc = "evidenced" => Whole(ev, j.plan)

WholeInv ==
  /\ \A e \in Executors : exec[e].pc # "idle" => Knows(exec[e], evidence)
  /\ CompletedRunHasEvidence

LEMMA StepKeepsWholeInv ==
  ASSUME OneExecutor, TypeOK, WholeInv, [Next]_vars
  PROVE  WholeInv'
<1> DEFINE Still == \A p \in Plans : Whole(evidence, p) => Whole(evidence', p)
<1>1. /\ \A r \in Runs : run[r].refs \subseteq Plans
      /\ \A e \in Executors : exec[e].pc # "idle" =>
           exec[e].view.refs \subseteq Plans /\ exec[e].plan \in Plans
  BY BusyJob, JobFields DEF TypeOK, TaskViews
<1>2. ASSUME Still, run' = run PROVE CompletedRunHasEvidence'
  BY <1>1, <1>2 DEF WholeInv, CompletedRunHasEvidence, Whole
<1>3. ASSUME CompletedRunHasEvidence', NEW e \in Executors,
             exec'[e].pc # "idle" => Knows(exec'[e], evidence')
      PROVE  WholeInv'
  BY <1>3 DEF WholeInv, OneExecutor
<1>4. ASSUME evidence' = evidence PROVE Still
  BY <1>4 DEF Whole
<1>5. CASE UNCHANGED << run, evidence, exec, crashes >>
  BY <1>2, <1>4, <1>5 DEF WholeInv
<1>6. ASSUME NEW e \in Executors, NEW p \in Plans, Start(e, p) PROVE WholeInv'
  <2>1. /\ exec'[e].pc = "started" /\ exec'[e].view = run[p.run]
        /\ p.run \in Runs /\ UNCHANGED << run, evidence >>
    BY <1>6, StartJob
  <2>2. Knows(exec'[e], evidence')
    BY <2>1 DEF Knows, WholeInv, CompletedRunHasEvidence, Whole, Working
  <2> QED
    BY <1>2, <1>3, <1>4, <2>1, <2>2
<1>7. ASSUME NEW e \in Executors, WorkStep(e) PROVE WholeInv'
  <2>1. CompletedRunHasEvidence' /\ evidence' = evidence
    BY <1>2, <1>4, <1>7, Works
  <2>2. exec[e].pc # "idle" /\ Knows(exec[e], evidence)
    BY <1>7, Works, WorkingSteps DEF WholeInv
  <2>3. CASE exec'[e] = Idle
    BY <1>3, <2>1, <2>3, Constants
  <2>4. CASE SameJob(e) /\ exec[e].pc \in Working /\ exec'[e].pc \in Working
    <3>1. Knows(exec'[e], evidence')
      BY <2>1, <2>2, <2>4 DEF Knows, SameJob, Working
    <3> QED
      BY <1>3, <2>1, <3>1
  <2>5. CASE /\ SameJob(e) /\ exec'[e].pc = "approved"
             /\ evidence[exec[e].plan].state = "absent"
    <3>1. Knows(exec'[e], evidence')
      BY <2>1, <2>2, <2>5 DEF Knows, SameJob
    <3> QED
      BY <1>3, <2>1, <3>1
  <2>6. CASE /\ SameJob(e) /\ exec'[e].pc = "evidenced"
             /\ evidence[exec[e].plan].state = "whole"
    <3>1. Knows(exec'[e], evidence')
      BY <2>1, <2>2, <2>6 DEF Knows, SameJob, Working, Whole
    <3> QED
      BY <1>3, <2>1, <3>1
  <2> QED
    BY <1>7, <2>3, <2>4, <2>5, <2>6, Works
<1>8. ASSUME NEW e \in Executors, OpenEvidence(e) \/ WriteEvidence(e)
      PROVE  WholeInv'
  <2>1. /\ exec[e].pc \in {"parsed", "writing"} /\ exec[e].pc # "idle"
        /\ SameJob(e) /\ exec[e].plan \in Plans /\ UNCHANGED run
        /\ \/ exec'[e].pc = "writing" /\ evidence'[exec[e].plan].state = "torn"
           \/ exec'[e].pc = "evidenced" /\ Whole(evidence', exec[e].plan)
        /\ \A p \in Plans \ {exec[e].plan} : evidence'[p] = evidence[p]
    BY <1>8, OpenStep, WriteStep, Constants DEF Whole
  <2>2. Knows(exec[e], evidence)
    BY <2>1 DEF WholeInv
  <2>3. ~ Whole(evidence, exec[e].plan)
    BY <2>1, <2>2 DEF Knows, Whole, Working
  <2>4. Still
    BY <2>1, <2>3 DEF Whole
  <2>5. Knows(exec'[e], evidence')
    BY <1>1, <2>1, <2>2, <2>4 DEF Knows, SameJob, Working
  <2> QED
    BY <1>2, <1>3, <2>1, <2>4, <2>5
<1>9. ASSUME NEW e \in Executors, SaveRun(e) PROVE WholeInv'
  <2>1. /\ exec[e].pc = "evidenced" /\ exec[e].pc # "idle"
        /\ exec'[e] = Idle /\ evidence' = evidence
    BY <1>9, SaveStep
  <2>2. \A p \in exec[e].view.refs \cup {exec[e].plan} : Whole(evidence', p)
    BY <2>1 DEF WholeInv, Knows
  <2>3. ASSUME NEW r \in Runs
        PROVE  /\ run'[r].status = "completed" => run'[r].refs # {}
               /\ \A p \in run'[r].refs : Whole(evidence', p)
    <3>1. CASE run'[r] = run[r]
      BY <2>1, <3>1 DEF WholeInv, CompletedRunHasEvidence, Whole
    <3>2. CASE run'[r] = [status |-> "completed",
                          refs |-> exec[e].view.refs \cup {exec[e].plan}]
      BY <2>2, <3>2
    <3> QED
      BY <1>9, <3>1, <3>2, SaveStep
  <2>4. CompletedRunHasEvidence'
    BY <2>3 DEF CompletedRunHasEvidence, Whole
  <2> QED
    BY <1>3, <2>1, <2>4, Constants
<1>10. ASSUME NEW e \in Executors, Crash(e) PROVE WholeInv'
  BY <1>2, <1>3, <1>4, <1>10, CrashStep, Constants
<1> QED
  BY <1>5, <1>6, <1>7, <1>8, <1>9, <1>10, StepTable

LEMMA AlwaysWholeInv == ASSUME OneExecutor PROVE Spec => []WholeInv
<1>1. Init => WholeInv
  BY Constants DEF Init, WholeInv, CompletedRunHasEvidence
<1>2. TypeOK /\ WholeInv /\ [Next]_vars => WholeInv'
  BY StepKeepsWholeInv
<1> QED
  BY <1>1, <1>2, DeployTypeCorrect, PTL DEF Spec

(* One executor, killed at any moment and any number of times: a task is   *)
(* completed by a deployment only with evidence that can be read.          *)
THEOREM CompletedRunAlwaysHasEvidence ==
  ASSUME OneExecutor PROVE Spec => []CompletedRunHasEvidence
<1>1. WholeInv => CompletedRunHasEvidence
  BY DEF WholeInv
<1> QED
  BY <1>1, AlwaysWholeInv, PTL

(* One executor: whatever it was killed at before, no step of it commits   *)
(* for a plan whose evidence can be read already.                          *)
THEOREM EvidencedPlanNeverCommittedAgain ==
  ASSUME OneExecutor PROVE Spec => EvidencedPlanNotCommittedAgain
<1>1. WholeInv =>
        [\A e \in Executors :
           At(e, "staged") /\ commits' # commits /\ exec'[e].pc = "committed" =>
             evidence[exec[e].plan].state # "whole"]_vars
  BY DEF WholeInv, Knows, Working, At
<1> QED
  BY <1>1, AlwaysWholeInv, PTL DEF EvidencedPlanNotCommittedAgain

-----------------------------------------------------------------------------
(* One executor and the checkout.  What it has hashed is in the working    *)
(* tree, then in the index, then in the commit; the index differs from     *)
(* HEAD in its plan's paths only, because it was clean when it began.      *)

Copying ==
  { "verified", "page checked", "page opened", "page copied", "page hashed",
    "workflow checked", "workflow opened", "workflow copied", "copied" }

PageHashed ==
  { "page hashed", "workflow checked", "workflow opened", "workflow copied",
    "copied" }

Has(tree, j) ==
  tree[j.plan.path] = j.written.page /\ tree[Workflow] = j.written.workflow

OnlyPlanned(tree, parent, p) ==
  {f \in Paths : tree[f] # parent[f]} \subseteq {p.path, Workflow}

Last(branch) == branch[Len(branch)]

(* What a job knows of the checkout. *)
Tells(j, tree, staged, branch) ==
  /\ j.pc \in PageHashed => tree[j.plan.path] = j.written.page
  /\ j.pc = "copied" => Has(tree, j)
  /\ j.pc \in Copying => staged = Last(branch)
  /\ j.pc = "staged" => Has(staged, j) /\ OnlyPlanned(staged, Last(branch), j.plan)
  /\ j.pc \in {"committed", "parsed", "writing"} => Has(Last(branch), j)
  /\ j.pc \in {"parsed", "writing"} => j.sha = Len(branch)

TreeInv ==
  /\ \A e \in Executors :
       exec[e].pc # "idle" => Tells(exec[e], work, index, commits)
  /\ EvidenceTellsTruth
  /\ CommitsOnlyPlannedPaths

(* The steps that change neither the branch nor the evidence. *)
LEMMA QuietTree ==
  ASSUME OneExecutor, TypeOK, TreeInv, NEW e \in Executors,
         UNCHANGED << commits, evidence >>,
         exec'[e].pc # "idle" => Tells(exec'[e], work', index', commits)
  PROVE  TreeInv'
<1>1. EvidenceTellsTruth' /\ CommitsOnlyPlannedPaths'
  BY DEF TreeInv, EvidenceTellsTruth, CommitsOnlyPlannedPaths
<1> QED
  BY <1>1 DEF TreeInv, OneExecutor

(* The steps that copy the files. *)
LEMMA CopyTree ==
  ASSUME OneExecutor, TypeOK, TreeInv, NEW e \in Executors,
         CopyPage(e) \/ CopyWorkflow(e)
  PROVE  TreeInv'
<1> DEFINE p == exec[e].plan
<1>1. exec[e].pc # "idle"
  BY DEF CopyPage, CopyWorkflow, Check, Write, Hash, At
<1>2. p \in Plans /\ p.path \in Paths /\ p.path # Workflow
  BY <1>1, BusyJob, JobFields, PlanFields, DeployAssumption
<1>3. Tells(exec[e], work, index, commits) /\ Workflow \in Paths
  BY <1>1, Constants DEF TreeInv
<1>4. ASSUME UNCHANGED << index, commits, evidence >>,
             exec'[e].pc # "idle" => Tells(exec'[e], work', index, commits)
      PROVE  TreeInv'
  BY <1>4, QuietTree
<1>5. ASSUME exec'[e] = Idle, UNCHANGED << index, commits, evidence >>
      PROVE  TreeInv'
  BY <1>4, <1>5, Constants
<1>6. /\ \A pc \in Copying : pc \in Steps
      /\ \A pc \in Copying : pc \notin {"staged", "committed", "parsed", "writing"}
  BY DEF Copying, Steps
<1>7. ASSUME NEW from \in Copying, NEW to \in Copying, NEW content, NEW planned,
             Check(e, from, content, planned, to),
             to \in PageHashed => from \in PageHashed, to # "copied"
      PROVE  TreeInv'
  <2>1. UNCHANGED << index, commits, evidence, work >> /\ exec[e].pc = from
    BY <1>7 DEF Check, git, At
  <2>2. CASE Goes(e, to)
    <3>1. /\ exec'[e].pc = to /\ exec'[e].plan = p
          /\ exec'[e].written = exec[e].written
      BY <1>1, <1>6, <2>2, GoesOn
    <3>2. Tells(exec'[e], work', index, commits)
      BY <1>3, <1>6, <1>7, <2>1, <3>1 DEF Tells
    <3> QED
      BY <1>4, <2>1, <3>2
  <2>3. CASE Raises(e)
    BY <1>5, <2>1, <2>3, RaisesIdle
  <2> QED
    BY <1>7, <2>2, <2>3 DEF Check
<1>8. ASSUME NEW from \in Copying, NEW to \in Copying, NEW content, NEW path \in Paths,
             Write(e, from, path, content, to),
             to \in PageHashed => from \in PageHashed /\ path = Workflow,
             to # "copied"
      PROVE  TreeInv'
  <2>1. UNCHANGED << index, commits, evidence >> /\ exec[e].pc = from
    BY <1>8 DEF Write, At
  <2>2. path = Workflow => work'[p.path] = work[p.path]
    BY <1>2, <1>8 DEF Write, TypeOK, Trees
  <2>3. /\ exec'[e].pc = to /\ exec'[e].plan = p
        /\ exec'[e].written = exec[e].written
    BY <1>1, <1>6, <1>8, GoesOn DEF Write
  <2>4. Tells(exec'[e], work', index, commits)
    BY <1>3, <1>6, <1>8, <2>1, <2>2, <2>3 DEF Tells
  <2> QED
    BY <1>4, <2>1, <2>4
<1>9. ASSUME Hash(e, "page copied", "page", p.path, "page hashed") PROVE TreeInv'
  <2>1. UNCHANGED << index, commits, evidence, work >> /\ exec[e].pc = "page copied"
    BY <1>9 DEF Hash, At, git
  <2>2. {"page copied", "page hashed"} \subseteq Copying
    BY DEF Copying
  <2>3. /\ exec'[e].pc = "page hashed" /\ exec'[e].plan = p
        /\ exec'[e].written.page = work[p.path]
    <3>1. "page copied" \in Steps /\ "page hashed" \in Steps
      BY DEF Steps
    <3>2. ASSUME NEW path \in Paths,
                 Hash(e, "page copied", "page", path, "page hashed")
          PROVE  /\ exec'[e].pc = "page hashed"
                 /\ exec'[e].plan = exec[e].plan
                 /\ exec'[e].written.page = work[path]
      BY <3>1, <3>2, HashDone
    <3> QED
      BY <1>2, <1>9, <3>2
  <2>4. Tells(exec'[e], work', index, commits)
    BY <1>3, <2>1, <2>2, <2>3 DEF Tells, PageHashed
  <2> QED
    BY <1>4, <2>1, <2>4
<1>10. ASSUME Hash(e, "workflow copied", "workflow", Workflow, "copied")
       PROVE  TreeInv'
  <2>1. /\ UNCHANGED << index, commits, evidence, work >>
        /\ exec[e].pc = "workflow copied"
    BY <1>10 DEF Hash, At, git
  <2>2. {"workflow copied", "copied"} \subseteq Copying \cap PageHashed
    BY DEF Copying, PageHashed
  <2>3. /\ exec'[e].pc = "copied" /\ exec'[e].plan = p
        /\ exec'[e].written.workflow = work[Workflow]
        /\ exec'[e].written.page = exec[e].written.page
    <3>1. "workflow copied" \in Steps /\ "copied" \in Steps
      BY DEF Steps
    <3> QED
      BY <1>3, <1>10, <3>1, HashDone
  <2>4. Tells(exec'[e], work', index, commits)
    BY <1>3, <2>1, <2>2, <2>3 DEF Tells, Has
  <2> QED
    BY <1>4, <2>1, <2>4
<1>11. CASE CopyPage(e)
  <2>1. /\ {"verified", "page checked", "page opened", "page copied"}
             \subseteq Copying
        /\ "page checked" \notin PageHashed /\ "page opened" \notin PageHashed
        /\ "page copied" \notin PageHashed
    BY DEF Copying, PageHashed
  <2>2. ASSUME NEW content, NEW planned,
               Check(e, "verified", content, planned, "page checked")
        PROVE  TreeInv'
    BY <1>7, <2>1, <2>2
  <2>3. Write(e, "page checked", p.path, Partial, "page opened") => TreeInv'
    BY <1>2, <1>8, <2>1
  <2>4. Write(e, "page opened", p.path, source[p].page, "page copied") => TreeInv'
    BY <1>2, <1>8, <2>1
  <2> QED
    BY <1>9, <1>11, <2>2, <2>3, <2>4 DEF CopyPage
<1>12. CASE CopyWorkflow(e)
  <2>1. /\ {"page hashed", "workflow checked", "workflow opened",
            "workflow copied"} \subseteq Copying
        /\ "page hashed" \in PageHashed /\ "workflow checked" \in PageHashed
        /\ "workflow opened" \in PageHashed
    BY DEF Copying, PageHashed
  <2>2. ASSUME NEW content, NEW planned,
               Check(e, "page hashed", content, planned, "workflow checked")
        PROVE  TreeInv'
    BY <1>7, <2>1, <2>2
  <2>3. Write(e, "workflow checked", Workflow, Partial, "workflow opened")
          => TreeInv'
    BY <1>3, <1>8, <2>1
  <2>4. Write(e, "workflow opened", Workflow, source[p].workflow,
              "workflow copied") => TreeInv'
    BY <1>3, <1>8, <2>1
  <2> QED
    BY <1>10, <1>12, <2>2, <2>3, <2>4 DEF CopyWorkflow
<1> QED
  BY <1>11, <1>12

(* The commit has what was staged, and the branch grows by it alone.       *)
LEMMA CommitTree ==
  ASSUME OneExecutor, TypeOK, TreeInv, NEW e \in Executors, GitCommit(e)
  PROVE  TreeInv'
<1>1. exec[e].pc = "staged" /\ exec[e].pc # "idle" /\ "committed" \in Steps
  BY DEF GitCommit, At, Steps
<1>2. Tells(exec[e], work, index, commits) /\ exec[e].plan \in Plans
  BY <1>1, BusyJob, JobFields DEF TreeInv
<1>3. CASE Raises(e) /\ UNCHANGED commits
  <2>1. exec'[e].pc = "idle"
    BY <1>3, RaisesIdle, Constants
  <2> QED
    BY <1>3, <2>1, QuietTree DEF GitCommit
<1>4. CASE commits' = Append(commits, index) /\ Goes(e, "committed")
  <2>1. /\ Len(commits') = Len(commits) + 1 /\ Len(commits) \in Nat
        /\ Last(commits') = index
        /\ DOMAIN commits = 1 .. Len(commits)
        /\ \A i \in DOMAIN commits : commits'[i] = commits[i]
    BY <1>4, AppendsTree DEF Last
  <2>2. /\ exec'[e].pc = "committed" /\ exec'[e].plan = exec[e].plan
        /\ exec'[e].written = exec[e].written
    BY <1>1, <1>4, GoesOn
  <2>3. Tells(exec'[e], work', index', commits')
    BY <1>1, <1>2, <2>1, <2>2 DEF Tells, Has, Copying, PageHashed
  <2>4. EvidenceTellsTruth'
    <3>1. SUFFICES ASSUME NEW p \in Plans, evidence[p].state = "whole"
                   PROVE  commits'[evidence[p].sha] = commits[evidence[p].sha]
      BY DEF GitCommit, EvidenceTellsTruth, TreeInv
    <3>2. evidence[p].sha \in DOMAIN commits
      BY <3>1 DEF TypeOK
    <3> QED
      BY <2>1, <3>2
  <2>5. CommitsOnlyPlannedPaths'
    <3>1. SUFFICES ASSUME NEW i \in 2 .. Len(commits')
                   PROVE  \E p \in Plans : OnlyPlanned(commits'[i], commits'[i - 1], p)
      BY DEF CommitsOnlyPlannedPaths, OnlyPlanned
    <3>2. CASE i \in 2 .. Len(commits)
      <4>1. commits'[i] = commits[i] /\ commits'[i - 1] = commits[i - 1]
        BY <2>1, <3>2
      <4>2. \E p \in Plans : OnlyPlanned(commits[i], commits[i - 1], p)
        BY <3>2 DEF TreeInv, CommitsOnlyPlannedPaths, OnlyPlanned
      <4> QED
        BY <4>1, <4>2
    <3>3. CASE i = Len(commits) + 1
      <4>1. commits # << >> /\ commits \in Seq(Trees)
        BY DEF TypeOK
      <4>2. Len(commits) \in DOMAIN commits
        BY <4>1
      <4>3. commits'[i] = index /\ commits'[i - 1] = Last(commits)
        BY <2>1, <3>3, <4>2 DEF Last
      <4> QED
        BY <1>1, <1>2, <4>3 DEF Tells
    <3> QED
      BY <2>1, <3>1, <3>2, <3>3
  <2> QED
    BY <2>3, <2>4, <2>5 DEF TreeInv, OneExecutor
<1> QED
  BY <1>3, <1>4 DEF GitCommit

LEMMA StepKeepsTreeInv ==
  ASSUME OneExecutor, TypeOK, TreeInv, [Next]_vars
  PROVE  TreeInv'
<1>1. ASSUME NEW e \in Executors, exec'[e].pc \in {"idle", "started"},
             UNCHANGED << commits, evidence >>
      PROVE  TreeInv'
  <2>1. Tells(exec'[e], work', index', commits)
    BY <1>1 DEF Tells, PageHashed, Copying
  <2> QED
    BY <1>1, <2>1, QuietTree
<1>2. ASSUME NEW e \in Executors, NEW p \in Plans, Start(e, p) PROVE TreeInv'
  BY <1>1, <1>2, StartJob
<1>3. ASSUME NEW e \in Executors, FindEvidence(e) PROVE TreeInv'
  <2>1. exec[e].pc = "started" /\ {"evidenced", "approved"} \subseteq Steps
    BY <1>3 DEF FindEvidence, At, Steps
  <2>2. exec'[e].pc \in {"idle", "evidenced", "approved"}
    BY <1>3, <2>1, GoesOn, RaisesIdle, Constants DEF FindEvidence
  <2>3. Tells(exec'[e], work', index', commits)
    BY <2>2 DEF Tells, PageHashed, Copying
  <2> QED
    BY <1>3, <2>3, QuietTree DEF FindEvidence, git
<1>4. ASSUME NEW e \in Executors, VerifyCheckout(e) PROVE TreeInv'
  <2>1. /\ exec[e].pc # "idle" /\ "verified" \in Steps
        /\ UNCHANGED << commits, evidence, index, work >>
    BY <1>4 DEF VerifyCheckout, At, Steps, git
  <2>2. CASE Raises(e)
    BY <1>1, <2>1, <2>2, RaisesIdle, Constants
  <2>3. CASE Goes(e, "verified") /\ ~ Dirty
    <3>1. exec'[e].pc = "verified" /\ index = Last(commits)
      BY <2>1, <2>3, GoesOn DEF Dirty, HEAD, Last
    <3>2. Tells(exec'[e], work', index', commits)
      BY <2>1, <3>1 DEF Tells, PageHashed
    <3> QED
      BY <2>1, <3>2, QuietTree
  <2> QED
    BY <1>4, <2>2, <2>3 DEF VerifyCheckout
<1>5. ASSUME NEW e \in Executors, CopyPage(e) \/ CopyWorkflow(e) PROVE TreeInv'
  BY <1>5, CopyTree
<1>6. ASSUME NEW e \in Executors, GitAdd(e) PROVE TreeInv'
  <2>1. /\ exec[e].pc = "copied" /\ exec[e].pc # "idle" /\ "staged" \in Steps
        /\ UNCHANGED << commits, evidence, work >>
    BY <1>6 DEF GitAdd, At, Steps
  <2>2. /\ Tells(exec[e], work, index, commits)
        /\ exec[e].plan \in Plans /\ exec[e].plan.path \in Paths
        /\ Workflow \in Paths
    BY <2>1, BusyJob, JobFields, PlanFields, Constants DEF TreeInv
  <2>3. /\ exec'[e].pc = "staged" /\ exec'[e].plan = exec[e].plan
        /\ exec'[e].written = exec[e].written
    BY <1>6, <2>1, GoesOn DEF GitAdd
  <2>4. Has(work, exec[e]) /\ index = Last(commits)
    BY <2>1, <2>2 DEF Tells, Copying
  <2>5. Has(index', exec'[e])
    BY <1>6, <2>2, <2>3, <2>4 DEF GitAdd, Has
  <2>6. OnlyPlanned(index', Last(commits), exec'[e].plan)
    BY <1>6, <2>3, <2>4 DEF GitAdd, OnlyPlanned
  <2>7. Tells(exec'[e], work', index', commits)
    BY <2>3, <2>5, <2>6 DEF Tells, PageHashed, Copying
  <2> QED
    BY <2>1, <2>7, QuietTree
<1>7. ASSUME NEW e \in Executors, GitCommit(e) PROVE TreeInv'
  BY <1>7, CommitTree
<1>8. ASSUME NEW e \in Executors, RevParseHead(e) PROVE TreeInv'
  <2>1. /\ exec[e].pc = "committed" /\ exec[e] \in Jobs
        /\ UNCHANGED << commits, evidence, index, work >>
    BY <1>8, BusyJob DEF RevParseHead, At, git
  <2>2. exec'[e] = [exec[e] EXCEPT !.pc = "parsed", !.sha = Len(commits)]
    BY <1>8 DEF RevParseHead, TypeOK
  <2>3. /\ exec'[e].pc = "parsed" /\ exec'[e].sha = Len(commits)
        /\ exec'[e].plan = exec[e].plan /\ exec'[e].written = exec[e].written
    BY <2>1, <2>2 DEF Jobs
  <2>4. Tells(exec[e], work, index, commits)
    BY <2>1 DEF TreeInv
  <2>5. Tells(exec'[e], work', index', commits)
    BY <2>1, <2>3, <2>4 DEF Tells, Has, PageHashed, Copying
  <2> QED
    BY <2>1, <2>5, QuietTree
<1>9. ASSUME NEW e \in Executors, OpenEvidence(e) \/ WriteEvidence(e)
      PROVE  TreeInv'
  <2> DEFINE q == exec[e].plan
  <2>1. /\ exec[e].pc \in {"parsed", "writing"} /\ exec[e].pc # "idle"
        /\ q \in Plans /\ UNCHANGED << commits, index, work >>
        /\ \A p \in Plans \ {q} : evidence'[p] = evidence[p]
    BY <1>9, OpenStep, WriteStep
  <2>2. Tells(exec[e], work, index, commits)
    BY <2>1 DEF TreeInv
  <2>3. CASE OpenEvidence(e)
    <3>1. /\ exec'[e].pc = "writing" /\ exec'[e].plan = q
          /\ exec'[e].sha = exec[e].sha /\ exec'[e].written = exec[e].written
          /\ evidence'[q].state # "whole"
      BY <2>3, OpenStep, Constants DEF SameJob
    <3>2. Tells(exec'[e], work', index', commits')
      BY <2>1, <2>2, <3>1 DEF Tells, Has, PageHashed, Copying
    <3>3. EvidenceTellsTruth'
      BY <2>1, <3>1 DEF TreeInv, EvidenceTellsTruth
    <3>4. CommitsOnlyPlannedPaths'
      BY <2>1 DEF TreeInv, CommitsOnlyPlannedPaths
    <3> QED
      BY <3>2, <3>3, <3>4 DEF TreeInv, OneExecutor
  <2>4. CASE WriteEvidence(e)
    <3>1. /\ exec[e].pc = "writing" /\ exec'[e].pc = "evidenced"
          /\ evidence'[q] = Evidence(exec[e].sha, exec[e].written)
      BY <2>4, WriteStep
    <3>2. Tells(exec'[e], work', index', commits')
      BY <3>1 DEF Tells, PageHashed, Copying
    <3>3. /\ evidence'[q].sha = Len(commits)
          /\ evidence'[q].written = exec[e].written
          /\ Has(Last(commits), exec[e])
      BY <2>2, <3>1 DEF Evidence, Tells
    <3>4. EvidenceTellsTruth'
      BY <2>1, <3>3 DEF TreeInv, EvidenceTellsTruth, Has, Last
    <3>5. CommitsOnlyPlannedPaths'
      BY <2>1 DEF TreeInv, CommitsOnlyPlannedPaths
    <3> QED
      BY <3>2, <3>4, <3>5 DEF TreeInv, OneExecutor
  <2> QED
    BY <1>9, <2>3, <2>4
<1>10. ASSUME NEW e \in Executors, SaveRun(e) \/ Crash(e) PROVE TreeInv'
  BY <1>1, <1>10, SaveStep, CrashStep, Constants
<1>11. ASSUME UNCHANGED << index, commits, evidence, exec >>,
              \A p \in Plans : work'[p.path] = work[p.path],
              work'[Workflow] = work[Workflow]
       PROVE  TreeInv'
  <2>1. ASSUME NEW e \in Executors, exec[e].pc # "idle"
        PROVE  Tells(exec'[e], work', index', commits')
    <3>1. exec[e].plan \in Plans /\ Tells(exec[e], work, index, commits)
      BY <2>1, BusyJob, JobFields DEF TreeInv
    <3> QED
      BY <1>11, <3>1 DEF Tells, Has
  <2> QED
    BY <1>11, <2>1 DEF TreeInv, EvidenceTellsTruth, CommitsOnlyPlannedPaths
<1>12. ASSUME NEW p \in Plans, NEW file \in {"page", "workflow"},
              EditBundle(p, file)
       PROVE  TreeInv'
  BY <1>11, <1>12 DEF EditBundle, git
<1>13. ASSUME EditCheckout PROVE TreeInv'
  <2>1. /\ \A p \in Plans : p.path # Notes /\ p.path \in Paths
        /\ Workflow # Notes /\ Workflow \in Paths
    BY DeployAssumption, PlanFields, Constants
  <2> QED
    BY <1>11, <1>13, <2>1 DEF EditCheckout, TypeOK, Trees
<1>14. CASE UNCHANGED vars
  BY <1>11, <1>14 DEF vars, git
<1> QED
  BY <1>2, <1>3, <1>4, <1>5, <1>6, <1>7, <1>8, <1>9, <1>10, <1>12, <1>13,
     <1>14 DEF Next, Execute

LEMMA AlwaysTreeInv == ASSUME OneExecutor PROVE Spec => []TreeInv
<1>1. Init => TreeInv
  <2>1. SUFFICES ASSUME Init PROVE TreeInv
    OBVIOUS
  <2>2. \A e \in Executors : exec[e].pc = "idle"
    BY <2>1, Constants DEF Init
  <2>3. EvidenceTellsTruth
    BY <2>1, Constants DEF Init, EvidenceTellsTruth
  <2>4. Len(commits) = 1
    BY <2>1 DEF Init
  <2>5. CommitsOnlyPlannedPaths
    BY <2>4 DEF CommitsOnlyPlannedPaths
  <2> QED
    BY <2>2, <2>3, <2>5 DEF TreeInv
<1>2. TypeOK /\ TreeInv /\ [Next]_vars => TreeInv'
  BY StepKeepsTreeInv
<1> QED
  BY <1>1, <1>2, DeployTypeCorrect, PTL DEF Spec

(* One executor, whoever edits bundles and checkout meanwhile: the commit  *)
(* that an evidence names has the files that it lists as written.          *)
THEOREM EvidenceAlwaysTellsTruth ==
  ASSUME OneExecutor PROVE Spec => []EvidenceTellsTruth
<1>1. TreeInv => EvidenceTellsTruth
  BY DEF TreeInv
<1> QED
  BY <1>1, AlwaysTreeInv, PTL

(* One executor: whatever its owner or a kill has left in the checkout,    *)
(* each commit changes the two paths of one approved plan and no other.    *)
THEOREM AlwaysCommitsOnlyPlannedPaths ==
  ASSUME OneExecutor PROVE Spec => []CommitsOnlyPlannedPaths
<1>1. TreeInv => CommitsOnlyPlannedPaths
  BY DEF TreeInv
<1> QED
  BY <1>1, AlwaysTreeInv, PTL
=============================================================================
