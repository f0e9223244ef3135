--------------------------- MODULE RunbookRelease ---------------------------
(***************************************************************************)
(* The release documents of a runbook.                                     *)
(*                                                                         *)
(* A runbook is a fixed list of companies, its stages.  A client starts    *)
(* runs for the stages, has two reports written for each run, and then has *)
(* the documents of the runbook written: operating packet, smoke example,  *)
(* progress report, closeout packet, release readiness smoke and release   *)
(* candidate audit (runbook_*.py, release_candidate_audit.py).  The later  *)
(* ones are made from the earlier ones as they are on disk, and none is    *)
(* made from the runs again: what the audit says of the runs has passed    *)
(* through four files.                                                     *)
(*                                                                         *)
(* Each document has one path per runbook, whatever runs it was written    *)
(* for, and is written by truncating it.  Several servers share the        *)
(* workspace and each may be killed at any step.                           *)
(***************************************************************************)
EXTENDS Naturals, Sequences

CONSTANTS
  Servers,     \* the server processes sharing the workspace
  Runs,        \* the runs that may be started
  Stages,      \* the stages of the runbook
  StageOf,     \* the stage that each run's company stands for
  RunIdLists,  \* the lists of run ids that clients pass
  MaxCrashes   \* bound on the kills of a behaviour

Members(ids) == {ids[i] : i \in DOMAIN ids}

(* A list of run ids names each run once. *)
ASSUME ReleaseAssumption ==
  /\ StageOf \in [Runs -> Stages]
  /\ \A ids \in RunIdLists :
       /\ ids \in Seq(Runs)
       /\ \A i, j \in DOMAIN ids : ids[i] = ids[j] => i = j
  /\ MaxCrashes \in Nat

VARIABLES
  damaged,   \* the runs whose records are such that their audit has errors
  started,   \* the runs that have been saved
  files,     \* the documents: absent, torn, or whole with their contents
  server,    \* what each server is doing
  crashes    \* how many kills have happened

vars == << damaged, started, files, server, crashes >>

-----------------------------------------------------------------------------
(* The documents.  What matters of a document is for which runs it was     *)
(* written and whether it found nothing amiss.                             *)

RunbookDocuments ==
  { "operating_packet", "smoke_example", "progress_report",
    "closeout_packet", "release_smoke", "candidate_audit" }

RunReports == {"brief", "quality"}

(* A runbook document has one path, a run's report one for each run. *)
FileOf(document, ids) ==
  IF document \in RunReports THEN << document, ids[1] >> ELSE << document >>

Files == {<< document >> : document \in RunbookDocuments}
           \cup RunReports \X Runs

Absent == [state |-> "absent"]
Torn   == [state |-> "torn"]
Whole(ids, ready) == [state |-> "whole", ids |-> ids, ready |-> ready]

(* No stage is missing: each has a run in the list, completed or not       *)
(* (missing_stage_ids; the companies of the runbook never block a task).   *)
Covers(ids) == Stages \subseteq {StageOf[r] : r \in Members(ids)}

-----------------------------------------------------------------------------
(* What the tools do, step by step.  A step loads the runs of the list,    *)
(* reads a document that must be there (reread) or may be missing (read),  *)
(* and looks at its run ids or its verdict (checks), reads the reports of  *)
(* the runs (review), or writes a document.                                *)

Step(op, document, checks) ==
  [op |-> op, document |-> document, checks |-> checks]

LoadRuns                  == Step("load", "runs", {})
Review                    == Step("review", "reports", {})
Write(document)           == Step("write", document, {})
Read(document, checks)    == Step("read", document, checks)
Reread(document, checks)  == Step("reread", document, checks)

create_runbook_operating_packet_files == << Write("operating_packet") >>

create_runbook_smoke_example_files ==
  << Write("operating_packet"), Reread("operating_packet", {}),
     Write("smoke_example") >>

create_runbook_progress_report_files == << LoadRuns, Write("progress_report") >>

(* A mutant: the progress report is not written for this list first. *)
closeout_from_old_progress ==
  << LoadRuns, Reread("progress_report", {"ready"}), LoadRuns, Review,
     Write("closeout_packet") >>

(* The progress report is written for this list and read back; its run ids *)
(* are not compared with the list.                                         *)
create_runbook_closeout_packet_files ==
  << LoadRuns, Write("progress_report"), Reread("progress_report", {"ready"}),
     LoadRuns, Review, Write("closeout_packet") >>

create_runbook_release_readiness_smoke_files ==
  << Read("operating_packet", {}), Read("smoke_example", {}),
     Read("progress_report", {"ids"}),
     Read("closeout_packet", {"ids", "ready"}),
     Write("release_smoke") >>

(* The checks of the package and of the tool manifest are about the        *)
(* installed program, not about the workspace, and taken as passed.        *)
create_release_candidate_audit_files ==
  << Read("release_smoke", {"ids", "ready"}), Write("candidate_audit") >>

create_cross_role_run_brief_files == << LoadRuns, Write("brief") >>

create_cross_role_task_quality_report_files == << LoadRuns, Write("quality") >>

Program ==
  [ operating_packet |-> create_runbook_operating_packet_files,
    smoke_example    |-> create_runbook_smoke_example_files,
    progress_report  |-> create_runbook_progress_report_files,
    closeout_packet  |-> create_runbook_closeout_packet_files,
    release_smoke    |-> create_runbook_release_readiness_smoke_files,
    candidate_audit  |-> create_release_candidate_audit_files,
    brief            |-> create_cross_role_run_brief_files,
    quality          |-> create_cross_role_task_quality_report_files ]

(* The lists that a tool is called with: none for the packet and the       *)
(* example, one run for its reports.                                       *)
ListsFor(tool) ==
  CASE tool \in {"operating_packet", "smoke_example"} -> {<< >>}
    [] tool \in RunReports -> {<< r >> : r \in Runs}
    [] OTHER -> RunIdLists

-----------------------------------------------------------------------------
(* A server holds the call, its list, the number of the next step, whether *)
(* it has found nothing amiss so far, and whether a file is open.          *)

Idle == [tool |-> "none"]

Serving(tool, ids, at, fine, open) ==
  [tool |-> tool, ids |-> ids, at |-> at, fine |-> fine, open |-> open]

Busy(s) == server[s] # Idle

Current(s) == Program[server[s].tool][server[s].at]

Path(s) == FileOf(Current(s).document, server[s].ids)

ReportsOf(ids) == RunReports \X Members(ids)

(* The step raises: a run that is not there, a document that cannot be     *)
(* read or, read back, is not there.                                       *)
Raises(s) ==
  LET step == Current(s)
      ids  == server[s].ids
  IN  \/ step.op = "load" /\ ~ (Members(ids) \subseteq started)
      \/ step.op \in {"read", "reread"} /\ files[Path(s)] = Torn
      \/ step.op = "reread" /\ files[Path(s)] = Absent
      \/ step.op = "review" /\ \E f \in ReportsOf(ids) : files[f] = Torn

(* A mutant: a missing quality report is not a finding, nor a missing brief. *)
ReviewedIfReported(ids) ==
  \A r \in Members(ids) :
    files[<< "quality", r >>] # Absent => files[<< "quality", r >>].ready

(* Every run of the list has a brief, and a quality report without errors. *)
Reviewed(ids) ==
  /\ \A f \in ReportsOf(ids) : files[f] # Absent
  /\ \A r \in Members(ids) : files[<< "quality", r >>].ready

(* The step has no findings. *)
FindsNothing(s) ==
  LET step     == Current(s)
      document == files[Path(s)]
  IN  /\ step.op \in {"read", "reread"} =>
           /\ document # Absent
           /\ "ids" \in step.checks => document.ids = server[s].ids
           /\ "ready" \in step.checks => document.ready
      /\ step.op = "review" => Reviewed(server[s].ids)

(* What is written: the progress report says whether a stage is missing,   *)
(* the quality report whether the audit of the run has errors, the other   *)
(* documents of a list whether there were findings.                        *)
Contents(document, ids, fine) ==
  Whole(ids,
        CASE document \in {"operating_packet", "smoke_example", "brief"} -> TRUE
          [] document = "progress_report" -> Covers(ids)
          [] document = "quality" -> Members(ids) \cap damaged = {}
          [] OTHER -> fine)

-----------------------------------------------------------------------------
Init ==
  /\ damaged \in SUBSET Runs
  /\ started = {}
  /\ files = [f \in Files |-> Absent]
  /\ server = [s \in Servers |-> Idle]
  /\ crashes = 0

(* start_company_goal (RunStartup): the run is there, its work may go on.  *)
StartRun(r) ==
  /\ started' = started \cup {r}
  /\ UNCHANGED << damaged, files, server, crashes >>

Call(s, tool, ids) ==
  /\ ~ Busy(s)
  /\ server' = [server EXCEPT ![s] = Serving(tool, ids, 1, TRUE, FALSE)]
  /\ UNCHANGED << damaged, started, files, crashes >>

Raise(s) ==
  /\ Busy(s)
  /\ Raises(s)
  /\ server' = [server EXCEPT ![s] = Idle]
  /\ UNCHANGED << damaged, started, files, crashes >>

Look(s) ==
  /\ Busy(s)
  /\ Current(s).op # "write"
  /\ ~ Raises(s)
  /\ LET job == server[s]
     IN  server' = [server EXCEPT ![s] =
                      Serving(job.tool, job.ids, job.at + 1,
                              job.fine /\ FindsNothing(s), FALSE)]
  /\ UNCHANGED << damaged, started, files, crashes >>

(* Opening a file for writing truncates it. *)
OpenFile(s) ==
  /\ Busy(s)
  /\ Current(s).op = "write" /\ ~ server[s].open
  /\ files' = [files EXCEPT ![Path(s)] = Torn]
  /\ server' = [server EXCEPT ![s].open = TRUE]
  /\ UNCHANGED << damaged, started, crashes >>

(* The last step of every tool writes its document; the answer follows.    *)
WriteFile(s) ==
  /\ Busy(s)
  /\ Current(s).op = "write" /\ server[s].open
  /\ LET job == server[s]
     IN  /\ files' = [files EXCEPT ![Path(s)] =
                        Contents(Current(s).document, job.ids, job.fine)]
         /\ server' = [server EXCEPT ![s] =
                         IF job.at = Len(Program[job.tool]) THEN Idle
                         ELSE Serving(job.tool, job.ids, job.at + 1,
                                      job.fine, FALSE)]
  /\ UNCHANGED << damaged, started, crashes >>

Kill(s) ==
  /\ Busy(s)
  /\ crashes < MaxCrashes
  /\ crashes' = crashes + 1
  /\ server' = [server EXCEPT ![s] = Idle]
  /\ UNCHANGED << damaged, started, files >>

ServerStep(s) == Raise(s) \/ Look(s) \/ OpenFile(s) \/ WriteFile(s)

Next ==
  \/ \E r \in Runs : StartRun(r)
  \/ \E s \in Servers, tool \in DOMAIN Program :
       \E ids \in ListsFor(tool) : Call(s, tool, ids)
  \/ \E s \in Servers : ServerStep(s) \/ Kill(s)

Spec == Init /\ [][Next]_vars

-----------------------------------------------------------------------------
(* Type invariant of the documents. *)
Lists == RunIdLists \cup {<< r >> : r \in Runs} \cup {<< >>}

DocumentStates ==
  {Absent, Torn} \cup [state : {"whole"}, ids : Lists, ready : BOOLEAN]

TypeOK ==
  /\ damaged \subseteq Runs /\ started \subseteq Runs
  /\ files \in [Files -> DocumentStates]
  /\ DOMAIN server = Servers
  /\ \A s \in Servers :
       \/ server[s] = Idle
       \/ /\ server[s] \in [tool : DOMAIN Program, ids : Lists, at : 1 .. 6,
                            fine : BOOLEAN, open : BOOLEAN]
          /\ server[s].ids \in ListsFor(server[s].tool)
          /\ server[s].at \in DOMAIN Program[server[s].tool]
          /\ server[s].open => Current(s).op = "write"
  /\ crashes \in 0 .. MaxCrashes

(* The documents that give a verdict on a list of runs. *)
Verdicts == {<< "closeout_packet" >>, << "release_smoke" >>,
             << "candidate_audit" >>}

Ready(f) == files[f].state = "whole" /\ files[f].ready

(* Whatever lists several clients pass, in whatever order they have the    *)
(* shared documents rewritten, and wherever a server is killed: a closeout *)
(* packet, smoke or audit that says it is ready names runs that exist,     *)
(* that have both reports and whose audit has no errors.                   *)
ReadyRunsReviewed ==
  \A f \in Verdicts : Ready(f) =>
    /\ Members(files[f].ids) \subseteq started \ damaged
    /\ \A report \in ReportsOf(files[f].ids) : files[report] # Absent

(* The runs of a ready document have a run for every stage of the runbook. *)
(* docs/COMPLETION_ROADMAP.md:1493-1500: the closeout packet "refreshes    *)
(* and links the runbook progress report" and reports the missing stages.  *)
(* It holds for one server; with two, the progress report that is read     *)
(* back may be the one that the other server has just written.             *)
ReadyCoversStages == \A f \in Verdicts : Ready(f) => Covers(files[f].ids)
=============================================================================
