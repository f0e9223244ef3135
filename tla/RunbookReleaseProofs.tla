------------------------ MODULE RunbookReleaseProofs ------------------------
(***************************************************************************)
(* Proofs about RunbookRelease, for any servers, runs, lists and kills,    *)
(* and about the ReleaseGate that drives it.                               *)
(*                                                                         *)
(* A document that says it is ready rests on reviews that do not go away   *)
(* and, with one server, on a list with a run for every stage.  The gate   *)
(* reports its own installation only: the proof follows the environment    *)
(* along the numbered steps of the plan.                                   *)
(***************************************************************************)
EXTENDS ReleaseGate, TLAPS

-----------------------------------------------------------------------------
(* Where a server is in its tool: what the tables of steps say, read once. *)
StepFacts(s) ==
  LET t == server[s].tool
      n == server[s].at
      c == Current(s)
  IN  /\ Len(Program[t]) \in 1 .. 6 /\ DOMAIN Program[t] = 1 .. Len(Program[t])
      /\ n \in 1 .. Len(Program[t])
      /\ c.op # "write" => n < Len(Program[t])
      /\ t = "closeout_packet" =>
           /\ n \in 1 .. 6
           /\ n = 1 => c = LoadRuns
           /\ n = 2 => c = Write("progress_report")
           /\ n = 3 => c = Reread("progress_report", {"ready"})
           /\ n = 4 => c = LoadRuns
           /\ n = 5 => c = Review
           /\ n = 6 => c = Write("closeout_packet")
      /\ t = "release_smoke" =>
           /\ n \in 1 .. 5
           /\ n = 4 => c = Read("closeout_packet", {"ids", "ready"})
           /\ n \in 1 .. 4 => c.op = "read"
           /\ n = 5 => c = Write("release_smoke")
      /\ t = "candidate_audit" =>
           /\ n \in 1 .. 2
           /\ n = 1 => c = Read("release_smoke", {"ids", "ready"})
           /\ n = 2 => c = Write("candidate_audit")
      /\ t = "quality" /\ c.op = "write" => c = Write("quality") /\ n = 2
      /\ t = "brief" /\ c.op = "write" => c = Write("brief") /\ n = 2
      /\ t \in {"operating_packet", "smoke_example", "progress_report"}
           /\ c.op = "write" =>
           /\ c.document \in
                {"operating_packet", "smoke_example", "progress_report"}
           /\ c = Write(c.document)

LEMMA StepTable ==
  ASSUME TypeOK, NEW s \in Servers, Busy(s)
  PROVE  StepFacts(s)
<1> DEFINE t == server[s].tool
           n == server[s].at
<1>1. t \in DOMAIN Program /\ n \in DOMAIN Program[t]
  BY DEF TypeOK, Busy
<1>2. Current(s) = Program[t][n]
  BY DEF Current
<1>3. CASE t = "closeout_packet"
  <2>1. Program[t] = create_runbook_closeout_packet_files
    BY <1>3 DEF Program
  <2>2. Len(Program[t]) = 6 /\ DOMAIN Program[t] = 1 .. 6
    BY <2>1 DEF create_runbook_closeout_packet_files
  <2>3. n \in 1 .. 6
    BY <1>1, <2>2
  <2>4. /\ n = 1 => Current(s) = LoadRuns
        /\ n = 2 => Current(s) = Write("progress_report")
        /\ n = 3 => Current(s) = Reread("progress_report", {"ready"})
        /\ n = 4 => Current(s) = LoadRuns
        /\ n = 5 => Current(s) = Review
        /\ n = 6 => Current(s) = Write("closeout_packet")
    BY <1>2, <2>1 DEF create_runbook_closeout_packet_files
  <2>5. Current(s).op # "write" => n < 6
    BY <2>3, <2>4 DEF Write, Step
  <2> QED BY <1>3, <2>2, <2>3, <2>4, <2>5 DEF StepFacts
<1>4. CASE t = "release_smoke"
  <2>1. Program[t] = create_runbook_release_readiness_smoke_files
    BY <1>4 DEF Program
  <2>2. Len(Program[t]) = 5 /\ DOMAIN Program[t] = 1 .. 5
    BY <2>1 DEF create_runbook_release_readiness_smoke_files
  <2> QED BY <1>1, <1>2, <1>4, <2>1, <2>2
          DEF StepFacts, create_runbook_release_readiness_smoke_files,
              LoadRuns, Review, Read, Reread, Write, Step
<1>5. CASE t = "candidate_audit"
  <2>1. Program[t] = create_release_candidate_audit_files
    BY <1>5 DEF Program
  <2>2. Len(Program[t]) = 2 /\ DOMAIN Program[t] = 1 .. 2
    BY <2>1 DEF create_release_candidate_audit_files
  <2> QED BY <1>1, <1>2, <1>5, <2>1, <2>2
          DEF StepFacts, create_release_candidate_audit_files,
              LoadRuns, Review, Read, Reread, Write, Step
<1>6. CASE t = "quality"
  <2>1. Program[t] = create_cross_role_task_quality_report_files
    BY <1>6 DEF Program
  <2> QED BY <1>1, <1>2, <1>6, <2>1
          DEF StepFacts, create_cross_role_task_quality_report_files,
              LoadRuns, Write, Step
<1>7. CASE t = "brief"
  <2>1. Program[t] = create_cross_role_run_brief_files
    BY <1>7 DEF Program
  <2> QED BY <1>1, <1>2, <1>7, <2>1
          DEF StepFacts, create_cross_role_run_brief_files,
              LoadRuns, Write, Step
<1>8. CASE t = "progress_report"
  <2>1. Program[t] = create_runbook_progress_report_files
    BY <1>8 DEF Program
  <2> QED BY <1>1, <1>2, <1>8, <2>1
          DEF StepFacts, create_runbook_progress_report_files,
              LoadRuns, Write, Step
<1>9. CASE t = "operating_packet"
  <2>1. Program[t] = create_runbook_operating_packet_files
    BY <1>9 DEF Program
  <2> QED BY <1>1, <1>2, <1>9, <2>1
          DEF StepFacts, create_runbook_operating_packet_files, Write, Step
<1>10. CASE t = "smoke_example"
  <2>1. Program[t] = create_runbook_smoke_example_files
    BY <1>10 DEF Program
  <2> QED BY <1>1, <1>2, <1>10, <2>1
          DEF StepFacts, create_runbook_smoke_example_files,
              Reread, Write, Step
<1> QED BY <1>1, <1>3, <1>4, <1>5, <1>6, <1>7, <1>8, <1>9, <1>10 DEF Program

(* A list has a first run where a report is written for it, so that every  *)
(* document that is written is one of the files.                           *)
LEMMA PathIsFile ==
  ASSUME TypeOK, NEW s \in Servers, Busy(s), Current(s).op = "write"
  PROVE  /\ Path(s) \in Files
         /\ Current(s).document \in RunReports =>
              \E r \in Runs : /\ server[s].ids = << r >>
                            /\ Path(s) = << Current(s).document, r >>
         /\ Current(s).document \notin RunReports =>
              Path(s) = << Current(s).document >>
<1> DEFINE t == server[s].tool
           d == Current(s).document
<1>1. StepFacts(s)
  BY StepTable
<1>2. t \in DOMAIN Program /\ server[s].ids \in ListsFor(t)
  BY DEF TypeOK, Busy
<1>3. CASE t \in RunReports
  <2>1. d = t /\ server[s].at = 2
    BY <1>1, <1>3 DEF StepFacts, RunReports, Write, Step
  <2>2. PICK r \in Runs : server[s].ids = << r >>
    BY <1>2, <1>3 DEF ListsFor, RunReports
  <2> QED BY <1>3, <2>1, <2>2 DEF Path, FileOf, Files
<1>4. CASE t \notin RunReports
  <2>1. t = "closeout_packet" => d \in {"progress_report", "closeout_packet"}
    BY <1>1 DEF StepFacts, LoadRuns, Reread, Review, Write, Step
  <2>2. t = "release_smoke" => d = "release_smoke"
    BY <1>1 DEF StepFacts, Write, Step
  <2>3. t = "candidate_audit" => d = "candidate_audit"
    BY <1>1 DEF StepFacts, Read, Write, Step
  <2>4. t \in {"operating_packet", "smoke_example", "progress_report"} =>
          d \in {"operating_packet", "smoke_example", "progress_report"}
    BY <1>1 DEF StepFacts
  <2>5. d \in RunbookDocuments
    <3>1. t \in {"closeout_packet", "release_smoke", "candidate_audit",
                "operating_packet", "smoke_example", "progress_report"}
      BY <1>2, <1>4 DEF Program, RunReports
    <3> QED BY <3>1, <2>1, <2>2, <2>3, <2>4 DEF RunbookDocuments
  <2>6. d \notin RunReports
    BY <2>5 DEF RunbookDocuments, RunReports
  <2> QED BY <2>5, <2>6 DEF Path, FileOf, Files
<1> QED BY <1>3, <1>4

LEMMA InitTypes == Init => TypeOK
<1> SUFFICES ASSUME Init PROVE TypeOK
  OBVIOUS
<1> QED BY ReleaseAssumption DEF Init, TypeOK, DocumentStates, Absent

LEMMA WrittenIsDocument ==
  ASSUME TypeOK, NEW s \in Servers, Busy(s)
  PROVE  Contents(Current(s).document, server[s].ids, server[s].fine)
           \in DocumentStates
<1>1. server[s].ids \in Lists /\ server[s].fine \in BOOLEAN
  BY DEF TypeOK, Busy
<1>2. (Members(server[s].ids) \cap damaged = {}) \in BOOLEAN
      /\ Covers(server[s].ids) \in BOOLEAN
  BY DEF Covers
<1>3. ASSUME NEW ready \in BOOLEAN
      PROVE  Whole(server[s].ids, ready) \in DocumentStates
  BY <1>1 DEF Whole, DocumentStates
<1> QED BY <1>1, <1>2, <1>3 DEF Contents

(* What one server does leaves the others typed. *)
JobTyped(job) ==
  \/ job = Idle
  \/ /\ job \in [tool : DOMAIN Program, ids : Lists, at : 1 .. 6,
                 fine : BOOLEAN, open : BOOLEAN]
     /\ job.ids \in ListsFor(job.tool)
     /\ job.at \in DOMAIN Program[job.tool]
     /\ job.open => Program[job.tool][job.at].op = "write"

LEMMA TypesByJob ==
  TypeOK <=> /\ damaged \subseteq Runs /\ started \subseteq Runs
             /\ files \in [Files -> DocumentStates]
             /\ DOMAIN server = Servers
             /\ \A s \in Servers : JobTyped(server[s])
             /\ crashes \in 0 .. MaxCrashes
  BY DEF TypeOK, JobTyped, Current

LEMMA FirstStep ==
  ASSUME NEW tool \in DOMAIN Program
  PROVE  1 \in DOMAIN Program[tool]
  BY DEF Program, create_runbook_operating_packet_files,
         create_runbook_smoke_example_files,
         create_runbook_progress_report_files,
         create_runbook_closeout_packet_files,
         create_runbook_release_readiness_smoke_files,
         create_release_candidate_audit_files,
         create_cross_role_run_brief_files,
         create_cross_role_task_quality_report_files

LEMMA TypedJob ==
  ASSUME NEW tool \in DOMAIN Program, NEW ids \in ListsFor(tool), ids \in Lists,
         NEW at \in 1 .. 6, at \in DOMAIN Program[tool], NEW fine \in BOOLEAN
  PROVE  JobTyped(Serving(tool, ids, at, fine, FALSE))
<1> DEFINE job == Serving(tool, ids, at, fine, FALSE)
<1>1. job \in [tool : DOMAIN Program, ids : Lists, at : 1 .. 6,
              fine : BOOLEAN, open : BOOLEAN]
  BY DEF Serving
<1>2. job.tool = tool /\ job.ids = ids /\ job.at = at /\ ~ job.open
  BY DEF Serving
<1> QED BY <1>1, <1>2 DEF JobTyped

LEMMA NextInRange ==
  \A n \in 1 .. 6, last \in 1 .. 6 :
    n \in 1 .. last /\ n # last => n + 1 \in 1 .. 6 /\ n + 1 \in 1 .. last
  OBVIOUS

LEMMA NextTypes == TypeOK /\ [Next]_vars => TypeOK'
<1> SUFFICES ASSUME TypeOK, [Next]_vars
             PROVE  /\ damaged' \subseteq Runs /\ started' \subseteq Runs
                    /\ files' \in [Files -> DocumentStates]
                    /\ DOMAIN server' = Servers
                    /\ \A s \in Servers : JobTyped(server'[s])
                    /\ crashes' \in 0 .. MaxCrashes
  BY DEF TypeOK, JobTyped, Current
<1>1. /\ damaged \subseteq Runs /\ started \subseteq Runs
      /\ files \in [Files -> DocumentStates]
      /\ DOMAIN server = Servers
      /\ \A s \in Servers : JobTyped(server[s])
      /\ crashes \in 0 .. MaxCrashes
  BY TypesByJob
<1>2. CASE UNCHANGED vars
  BY <1>1, <1>2 DEF vars
<1>3. CASE \E r \in Runs : StartRun(r)
  BY <1>1, <1>3 DEF StartRun
<1>4. CASE \E s \in Servers, tool \in DOMAIN Program :
             \E ids \in ListsFor(tool) : Call(s, tool, ids)
  <2> PICK s \in Servers, tool \in DOMAIN Program :
             \E ids \in ListsFor(tool) : Call(s, tool, ids)
    BY <1>4
  <2> PICK ids \in ListsFor(tool) : Call(s, tool, ids)
    OBVIOUS
  <2> DEFINE job == Serving(tool, ids, 1, TRUE, FALSE)
  <2>1. ids \in Lists
    BY DEF ListsFor, Lists
  <2>2. 1 \in DOMAIN Program[tool] /\ 1 \in 1 .. 6 /\ TRUE \in BOOLEAN
    BY FirstStep
  <2>3. JobTyped(job)
    BY <2>1, <2>2, TypedJob, Zenon
  <2>4. server' = [server EXCEPT ![s] = job]
    BY DEF Call
  <2> QED BY <1>1, <2>3, <2>4 DEF Call
<1>5. CASE \E s \in Servers : ServerStep(s) \/ Kill(s)
  <2> PICK s \in Servers : ServerStep(s) \/ Kill(s)
    BY <1>5
  <2> DEFINE job == server[s]
  <2>1. Busy(s) /\ StepFacts(s)
    BY StepTable DEF ServerStep, Raise, Look, OpenFile, WriteFile, Kill
  <2>2. /\ job \in [tool : DOMAIN Program, ids : Lists, at : 1 .. 6,
                    fine : BOOLEAN, open : BOOLEAN]
        /\ job.ids \in ListsFor(job.tool)
        /\ job.open => Current(s).op = "write"
    BY <1>1, <2>1 DEF JobTyped, Busy, Current
  <2> DEFINE last == Len(Program[job.tool])
  <2>3. /\ last \in 1 .. 6 /\ DOMAIN Program[job.tool] = 1 .. last
        /\ job.at \in 1 .. last
        /\ Current(s).op # "write" => job.at < last
    BY <2>1 DEF StepFacts
  <2>10. job.at # last =>
          job.at + 1 \in 1 .. 6 /\ job.at + 1 \in DOMAIN Program[job.tool]
    <3> HIDE DEF last
    <3> QED BY <2>2, <2>3, NextInRange
  <2>4. JobTyped(Idle)
    BY DEF JobTyped
  <2>5. CASE Raise(s)
    BY <1>1, <2>4, <2>5 DEF Raise
  <2>6. CASE Look(s)
    <3> DEFINE fine == job.fine /\ FindsNothing(s)
               next == Serving(job.tool, job.ids, job.at + 1, fine, FALSE)
    <3>1. fine \in BOOLEAN
      BY DEF FindsNothing
    <3>9. Current(s).op # "write"
      BY <2>6 DEF Look
    <3>2. job.at # last
      <4> HIDE DEF last
      <4> QED BY <2>2, <2>3, <3>9
    <3>3. JobTyped(next)
      <4>1. /\ job.tool \in DOMAIN Program /\ job.ids \in ListsFor(job.tool)
            /\ job.ids \in Lists
        BY <2>2
      <4> HIDE DEF fine
      <4> QED BY <2>10, <3>1, <3>2, <4>1, TypedJob, Zenon
    <3>4. server' = [server EXCEPT ![s] = next]
      BY <2>6 DEF Look
    <3> HIDE DEF next
    <3> QED BY <1>1, <2>6, <3>3, <3>4 DEF Look
  <2>7. CASE OpenFile(s)
    <3>1. Path(s) \in Files
      BY <2>1, <2>7, PathIsFile DEF OpenFile
    <3>2. server' = [server EXCEPT ![s] = [job EXCEPT !.open = TRUE]]
      BY <2>7 DEF OpenFile
    <3>3. JobTyped([job EXCEPT !.open = TRUE])
      BY <1>1, <2>1, <2>7 DEF JobTyped, OpenFile, Busy, Current
    <3>4. Torn \in DocumentStates
      BY DEF DocumentStates
    <3> QED BY <1>1, <2>7, <3>1, <3>2, <3>3, <3>4 DEF OpenFile
  <2>8. CASE WriteFile(s)
    <3> DEFINE done == IF job.at = last THEN Idle
                       ELSE Serving(job.tool, job.ids, job.at + 1,
                                    job.fine, FALSE)
    <3>1. Contents(Current(s).document, job.ids, job.fine) \in DocumentStates
      BY <2>1, WrittenIsDocument
    <3>2. server' = [server EXCEPT ![s] = done]
      BY <2>8 DEF WriteFile
    <3>3. JobTyped(done)
      <4>1. CASE job.at = last
        BY <2>4, <4>1
      <4>2. CASE job.at # last
        <5>2. JobTyped(Serving(job.tool, job.ids, job.at + 1, job.fine, FALSE))
          <6>2. /\ job.tool \in DOMAIN Program /\ job.ids \in ListsFor(job.tool)
                /\ job.ids \in Lists /\ job.fine \in BOOLEAN
            BY <2>2
          <6> QED BY <2>10, <4>2, <6>2, TypedJob, Zenon
        <5> QED BY <4>2, <5>2
      <4> QED BY <4>1, <4>2
    <3> QED BY <1>1, <2>8, <3>1, <3>2, <3>3 DEF WriteFile
  <2>9. CASE Kill(s)
    <3>1. crashes' \in 0 .. MaxCrashes
      BY <1>1, <2>9, ReleaseAssumption DEF Kill
    <3> QED BY <1>1, <2>4, <2>9, <3>1 DEF Kill
  <2> QED BY <2>5, <2>6, <2>7, <2>8, <2>9 DEF ServerStep
<1> QED BY <1>2, <1>3, <1>4, <1>5 DEF Next

(* TypeOK for any servers, runs, lists and kills: each server is at a step *)
(* of its tool, and what is on disk is one of the documents.               *)
THEOREM ReleaseTypeCorrect == Spec => []TypeOK
  BY InitTypes, NextTypes, PTL DEF Spec

-----------------------------------------------------------------------------
(* ReadyRunsReviewed is not inductive: a server carries a verdict from the *)
(* document that it has read to the one that it writes.                    *)

(* What a ready document says of its runs; it stays true. *)
WellReviewed(ids) ==
  /\ Members(ids) \subseteq started \ damaged
  /\ \A report \in ReportsOf(ids) : files[report] # Absent

QualityTellsDamage ==
  \A r \in Runs : Ready(<< "quality", r >>) => r \notin damaged

(* The server writes a verdict next, and has found nothing amiss. *)
Approves(s) ==
  /\ Busy(s) /\ server[s].fine
  /\ \/ server[s].tool = "closeout_packet" /\ server[s].at = 6
     \/ server[s].tool = "release_smoke" /\ server[s].at = 5
     \/ server[s].tool = "candidate_audit" /\ server[s].at = 2

ReviewInv ==
  /\ QualityTellsDamage
  /\ ReadyRunsReviewed
  /\ \A s \in Servers :
       /\ Busy(s) /\ server[s].tool = "closeout_packet" /\ server[s].at > 1 =>
            Members(server[s].ids) \subseteq started
       /\ Approves(s) => WellReviewed(server[s].ids)

(* A tool that gives a verdict writes it last. *)
LEMMA CloseoutLength == Len(Program["closeout_packet"]) = 6
  BY DEF Program, create_runbook_closeout_packet_files

LEMMA JudgesLast ==
  ASSUME NEW s \in Servers, TypeOK, Busy(s), Current(s).op = "write",
         Current(s).document \in
           {"closeout_packet", "release_smoke", "candidate_audit"}
  PROVE  \/ server[s].tool = "closeout_packet" /\ server[s].at = 6
         \/ server[s].tool = "release_smoke" /\ server[s].at = 5
         \/ server[s].tool = "candidate_audit" /\ server[s].at = 2
<1> DEFINE t == server[s].tool
<1>1. StepFacts(s) /\ t \in DOMAIN Program
  BY StepTable DEF TypeOK, Busy
<1>2. t = "closeout_packet" => server[s].at = 6
  BY <1>1 DEF StepFacts, LoadRuns, Reread, Review, Write, Step
<1>3. t = "release_smoke" => server[s].at = 5
  BY <1>1 DEF StepFacts
<1>4. t = "candidate_audit" => server[s].at = 2
  BY <1>1 DEF StepFacts, Read, Step
<1>5. t \in {"closeout_packet", "release_smoke", "candidate_audit"}
  BY <1>1 DEF StepFacts, Program, Write, Step
<1> QED BY <1>2, <1>3, <1>4, <1>5

LEMMA ListMembers ==
  ASSUME NEW ids \in Lists
  PROVE  Members(ids) \subseteq Runs /\ ReportsOf(ids) \subseteq Files
<1>1. Members(ids) \subseteq Runs
  BY ReleaseAssumption DEF Lists, Members
<1> QED BY <1>1 DEF ReportsOf, Files

LEMMA NeverAbsentAgain ==
  ASSUME TypeOK, [Next]_vars, NEW f \in Files, files[f] # Absent
  PROVE  files'[f] # Absent
<1>1. Torn # Absent
  BY DEF Torn, Absent
<1>2. \A ids, ready : Whole(ids, ready) # Absent
  BY DEF Whole, Absent
<1>3. ASSUME NEW s \in Servers, OpenFile(s) PROVE files'[f] # Absent
  BY <1>1, <1>3 DEF TypeOK, OpenFile
<1>4. ASSUME NEW s \in Servers, WriteFile(s) PROVE files'[f] # Absent
  <2> DEFINE new == Contents(Current(s).document, server[s].ids, server[s].fine)
  <2>1. new # Absent
    BY <1>2 DEF Contents
  <2>2. files' = [files EXCEPT ![Path(s)] = new]
    BY <1>4 DEF WriteFile
  <2> HIDE DEF new
  <2> QED BY <2>1, <2>2 DEF TypeOK
<1> QED BY <1>3, <1>4 DEF Next, ServerStep, StartRun, Call, Raise, Look, Kill, vars

LEMMA ReviewStays ==
  ASSUME TypeOK, [Next]_vars, NEW ids \in Lists, WellReviewed(ids)
  PROVE  WellReviewed(ids)'
<1>1. started \subseteq started' /\ damaged' = damaged
  BY DEF Next, ServerStep, StartRun, Call, Raise, Look, OpenFile, WriteFile,
         Kill, vars
<1>2. \A report \in ReportsOf(ids) : files'[report] # Absent
  BY ListMembers, NeverAbsentAgain DEF WellReviewed
<1> QED BY <1>1, <1>2 DEF WellReviewed, ReportsOf

LEMMA ReviewStep == TypeOK /\ ReviewInv /\ [Next]_vars => ReviewInv'
<1> SUFFICES ASSUME TypeOK, ReviewInv, [Next]_vars PROVE ReviewInv'
  OBVIOUS
<1>1. TypeOK'
  BY NextTypes
<1>2. \A ids \in Lists : WellReviewed(ids) => WellReviewed(ids)'
  BY ReviewStays
<1>3. started \subseteq started' /\ damaged' = damaged
  BY DEF Next, ServerStep, StartRun, Call, Raise, Look, OpenFile, WriteFile,
         Kill, vars
<1>4. \A f \in Verdicts : Ready(f) => files[f].ids \in Lists
  <2>1. \A f \in Verdicts : f \in Files
    BY DEF Verdicts, Files, RunbookDocuments
  <2> QED BY <2>1 DEF TypeOK, Ready, DocumentStates, Absent, Torn
<1>5. \A s \in Servers : Busy(s) => server[s].ids \in Lists
  BY DEF TypeOK, Busy
(* What holds of documents and servers that the step leaves as they are.   *)
<1>6. \A f \in Verdicts, ids \in Lists :
        Ready(f) /\ files[f].ids = ids => WellReviewed(ids)'
  BY <1>2 DEF ReviewInv, ReadyRunsReviewed, WellReviewed
<1>7. ASSUME files' = files PROVE QualityTellsDamage' /\ ReadyRunsReviewed'
  <2>1. QualityTellsDamage'
    BY <1>3, <1>7 DEF ReviewInv, QualityTellsDamage, Ready
  <2>2. ASSUME NEW f \in Verdicts, Ready(f)' PROVE WellReviewed(files[f].ids)'
    <3> DEFINE ids == files[f].ids
    <3>1. Ready(f) /\ ids \in Lists /\ files'[f].ids = ids
      BY <1>4, <1>7, <2>2 DEF Ready
    <3> QED BY <1>6, <1>7, <3>1 DEF WellReviewed
  <2> QED BY <2>1, <2>2 DEF ReadyRunsReviewed, WellReviewed
<1> DEFINE JobInv(s) ==
      /\ Busy(s) /\ server[s].tool = "closeout_packet" /\ server[s].at > 1 =>
           Members(server[s].ids) \subseteq started
      /\ Approves(s) => WellReviewed(server[s].ids)
<1> DEFINE Same(s) == /\ server'[s].tool = server[s].tool
                      /\ server'[s].ids = server[s].ids
                      /\ server'[s].at = server[s].at
                      /\ server'[s].fine = server[s].fine
<1>8. ASSUME NEW s \in Servers, Busy(s)' => Busy(s) /\ Same(s)
      PROVE  JobInv(s)'
  <2>1. JobInv(s)
    BY DEF ReviewInv
  <2>2. \A ids \in Lists : Approves(s) /\ server[s].ids = ids =>
          WellReviewed(ids)'
    BY <1>2, <2>1
  <2>3. Approves(s)' => /\ Approves(s) /\ server[s].ids \in Lists
                        /\ server'[s].ids = server[s].ids
    BY <1>5, <1>8 DEF Approves
  <2>4. Approves(s)' => WellReviewed(server[s].ids)'
    BY <2>2, <2>3 DEF WellReviewed
  <2> QED BY <1>3, <1>8, <2>1, <2>4
<1>9. ASSUME NEW s \in Servers, server'[s] = Idle PROVE JobInv(s)'
  BY <1>9 DEF Busy, Approves
<1>10. CASE UNCHANGED vars \/ \E r \in Runs : StartRun(r)
  <2>1. files' = files /\ server' = server
    BY <1>10 DEF StartRun, vars
  <2>2. \A s \in Servers : JobInv(s)'
    BY <1>8, <2>1 DEF Busy
  <2> QED BY <1>7, <2>1, <2>2 DEF ReviewInv
<1>11. ASSUME NEW s \in Servers, NEW tool \in DOMAIN Program,
              NEW ids \in ListsFor(tool), Call(s, tool, ids)
       PROVE  ReviewInv'
  <2>1. files' = files /\ server'[s] = Serving(tool, ids, 1, TRUE, FALSE)
    BY <1>11 DEF Call, TypeOK
  <2>2. JobInv(s)'
    BY <2>1 DEF Serving, Approves
  <2>3. ASSUME NEW o \in Servers, o # s PROVE JobInv(o)'
    <3>1. server'[o] = server[o]
      BY <1>11, <2>3 DEF Call, TypeOK
    <3> QED BY <1>8, <3>1 DEF Busy
  <2> QED BY <1>7, <2>1, <2>2, <2>3 DEF ReviewInv
<1>12. ASSUME NEW s \in Servers, ServerStep(s) \/ Kill(s) PROVE ReviewInv'
  <2>1. Busy(s) /\ StepFacts(s) /\ JobInv(s)
    BY <1>12, StepTable
       DEF ServerStep, Raise, Look, OpenFile, WriteFile, Kill, ReviewInv
  <2>2. ASSUME NEW o \in Servers, o # s PROVE JobInv(o)'
    <3>1. server'[o] = server[o]
      BY <1>12, <2>2 DEF ServerStep, Raise, Look, OpenFile, WriteFile, Kill, TypeOK
    <3> QED BY <1>8, <3>1 DEF Busy
  <2>3. SUFFICES QualityTellsDamage' /\ ReadyRunsReviewed' /\ JobInv(s)'
    BY <2>2 DEF ReviewInv
  <2>4. CASE Raise(s) \/ Kill(s)
    <3>1. files' = files /\ server'[s] = Idle
      BY <2>4 DEF Raise, Kill, TypeOK
    <3> QED BY <1>7, <1>9, <3>1
  <2>5. CASE Look(s)
    <3> DEFINE job == server[s]
    <3>1. /\ files' = files
          /\ server'[s] = Serving(job.tool, job.ids, job.at + 1,
                                  job.fine /\ FindsNothing(s), FALSE)
      BY <2>5 DEF Look, TypeOK
    <3>2. /\ server'[s].tool = job.tool /\ server'[s].ids = job.ids
          /\ server'[s].at = job.at + 1
          /\ server'[s].fine => job.fine /\ FindsNothing(s)
      <4> DEFINE fine == job.fine /\ FindsNothing(s)
      <4>1. server'[s] = Serving(job.tool, job.ids, job.at + 1, fine, FALSE)
        BY <3>1
      <4>2. fine => job.fine /\ FindsNothing(s)
        OBVIOUS
      <4> HIDE DEF fine
      <4> QED BY <4>1, <4>2 DEF Serving
    <3>3. job.ids \in Lists /\ ~ Raises(s)
      BY <1>5, <2>1, <2>5 DEF Look
    <3>4. job.tool = "closeout_packet" => Members(job.ids) \subseteq started
      <4>1. job.tool = "closeout_packet" /\ job.at = 1 =>
              Members(job.ids) \subseteq started
        <5>1. job.tool = "closeout_packet" /\ job.at = 1 =>
                Current(s).op = "load"
          BY <2>1 DEF StepFacts, LoadRuns, Step
        <5> QED BY <3>3, <5>1 DEF Raises
      <4>2. job.tool = "closeout_packet" => job.at = 1 \/ job.at > 1
        BY <2>1 DEF StepFacts
      <4> QED BY <2>1, <4>1, <4>2
    <3>5. ASSUME job.tool = "closeout_packet", job.at = 5, FindsNothing(s)
          PROVE  WellReviewed(job.ids)
      <4>1. Current(s).op = "review"
        BY <2>1, <3>5 DEF StepFacts, Review, Step
      <4>2. Reviewed(job.ids) /\ \A f \in ReportsOf(job.ids) : files[f] # Torn
        BY <3>3, <3>5, <4>1 DEF FindsNothing, Raises
      <4>3. \A r \in Members(job.ids) : Ready(<< "quality", r >>) /\ r \in Runs
        <5>1. \A r \in Members(job.ids) :
                << "quality", r >> \in ReportsOf(job.ids) \cap Files /\ r \in Runs
          BY <3>3, ListMembers DEF ReportsOf, RunReports
        <5> QED BY <4>2, <5>1 DEF Ready, Reviewed, TypeOK, DocumentStates
      <4> QED BY <3>4, <3>5, <4>2, <4>3
              DEF WellReviewed, Reviewed, ReviewInv, QualityTellsDamage
    <3>6. ASSUME NEW f \in Verdicts, NEW document,
                 Current(s) = Read(document, {"ids", "ready"}),
                 f = << document >>, document \notin RunReports, FindsNothing(s)
          PROVE  WellReviewed(job.ids)
      <4>1. Path(s) = f /\ files[f] # Torn /\ files[f] # Absent
        BY <3>3, <3>6 DEF Path, FileOf, Read, Step, Raises, FindsNothing
      <4>2. files[f].ids = job.ids /\ files[f].ready
        BY <3>6, <4>1 DEF Read, Step, FindsNothing
      <4>3. f \in Files
        BY DEF Verdicts, Files, RunbookDocuments
      <4>4. Ready(f)
        BY <4>1, <4>2, <4>3 DEF Ready, TypeOK, DocumentStates
      <4> QED BY <4>2, <4>4 DEF ReviewInv, ReadyRunsReviewed, WellReviewed
    <3>7. Approves(s)' => WellReviewed(job.ids)
      <4>1. CASE job.tool = "closeout_packet" /\ job.at = 5
        BY <3>2, <3>5, <4>1 DEF Approves
      <4>2. CASE job.tool = "release_smoke" /\ job.at = 4
        <5>1. Current(s) = Read("closeout_packet", {"ids", "ready"})
          BY <2>1, <4>2 DEF StepFacts
        <5> QED BY <3>2, <3>6, <5>1 DEF Approves, Verdicts, RunReports
      <4>3. CASE job.tool = "candidate_audit" /\ job.at = 1
        <5>1. Current(s) = Read("release_smoke", {"ids", "ready"})
          BY <2>1, <4>3 DEF StepFacts
        <5> QED BY <3>2, <3>6, <5>1 DEF Approves, Verdicts, RunReports
      <4> QED BY <2>1, <3>2, <4>1, <4>2, <4>3 DEF Approves, StepFacts
    <3>8. Approves(s)' => WellReviewed(server[s].ids)'
      BY <1>2, <3>2, <3>3, <3>7 DEF WellReviewed
    <3> QED BY <1>3, <1>7, <3>1, <3>2, <3>4, <3>8
  <2>6. CASE OpenFile(s)
    <3>1. files' = [files EXCEPT ![Path(s)] = Torn] /\ Path(s) \in Files
      BY <2>1, <2>6, PathIsFile DEF OpenFile
    <3>2. \A f \in Files : Ready(f)' => Ready(f) /\ files'[f] = files[f]
      BY <3>1 DEF Ready, Torn, TypeOK
    <3>3. QualityTellsDamage'
      <4>1. \A r \in Runs : << "quality", r >> \in Files
        BY DEF Files, RunReports
      <4> QED BY <1>3, <3>2, <4>1 DEF ReviewInv, QualityTellsDamage
    <3>4. ReadyRunsReviewed'
      <4>1. \A f \in Verdicts : f \in Files
        BY DEF Verdicts, Files, RunbookDocuments
      <4>2. ASSUME NEW f \in Verdicts, Ready(f)'
            PROVE  WellReviewed(files[f].ids)'
        <5> DEFINE ids == files[f].ids
        <5>1. Ready(f) /\ ids \in Lists /\ files'[f].ids = ids
          BY <1>4, <3>2, <4>1, <4>2
        <5> QED BY <1>6, <5>1 DEF WellReviewed
      <4> QED BY <4>2 DEF ReadyRunsReviewed, WellReviewed
    <3>5. Busy(s)' => Busy(s) /\ Same(s)
      BY <2>1, <2>6 DEF OpenFile, TypeOK, Busy
    <3> QED BY <1>8, <3>3, <3>4, <3>5
  <2>7. CASE WriteFile(s)
    <3> DEFINE job == server[s]
               d == Current(s).document
               new == Contents(d, job.ids, job.fine)
    <3>1. /\ files' = [files EXCEPT ![Path(s)] = new]
          /\ Path(s) \in Files /\ job.ids \in Lists /\ Current(s).op = "write"
      BY <1>5, <2>1, <2>7, PathIsFile DEF WriteFile
    <3>2. /\ d \in RunReports => \E r \in Runs :
               job.ids = << r >> /\ Path(s) = << d, r >>
          /\ d \notin RunReports => Path(s) = << d >>
      BY <2>1, <3>1, PathIsFile
    <3>3. \A f \in Files \ {Path(s)} : files'[f] = files[f]
      BY <3>1 DEF TypeOK
    <3>4. files'[Path(s)] = new
      BY <3>1 DEF TypeOK
    <3>5. QualityTellsDamage'
      <4>1. ASSUME NEW r \in Runs, Ready(<< "quality", r >>)'
            PROVE  r \notin damaged'
        <5> DEFINE f == << "quality", r >>
        <5>1. f \in Files
          BY DEF Files, RunReports
        <5>2. CASE f # Path(s)
          BY <1>3, <3>3, <4>1, <5>1, <5>2 DEF Ready, ReviewInv, QualityTellsDamage
        <5>3. CASE f = Path(s)
          <6>1. d = "quality" /\ job.ids = << r >>
            BY <3>2, <5>3
          <6>2. new = Whole(<< r >>, Members(<< r >>) \cap damaged = {})
            BY <6>1 DEF Contents
          <6>3. r \in Members(<< r >>)
            BY DEF Members
          <6>4. files'[f].ready
            BY <4>1 DEF Ready
          <6>5. Members(<< r >>) \cap damaged = {}
            <7> DEFINE sound == Members(<< r >>) \cap damaged = {}
            <7>1. files'[f] = Whole(<< r >>, sound)
              BY <3>4, <5>3, <6>2
            <7> HIDE DEF sound
            <7>2. sound
              BY <6>4, <7>1 DEF Whole
            <7> QED BY <7>2 DEF sound
          <6> QED BY <1>3, <6>3, <6>5
        <5> QED BY <5>2, <5>3
      <4> QED BY <4>1 DEF QualityTellsDamage
    <3>6. ReadyRunsReviewed'
      <4>1. ASSUME NEW f \in Verdicts, Ready(f)'
            PROVE  WellReviewed(files[f].ids)'
        <5>1. f \in Files
          BY DEF Verdicts, Files, RunbookDocuments
        <5>2. CASE f # Path(s)
          <6> DEFINE ids == files[f].ids
          <6>1. Ready(f) /\ ids \in Lists /\ files'[f].ids = ids
            BY <1>4, <3>3, <4>1, <5>1, <5>2 DEF Ready
          <6> QED BY <1>6, <6>1 DEF WellReviewed
        <5>3. CASE f = Path(s)
          <6>1. f = << d >> /\ d \in {"closeout_packet", "release_smoke",
                                     "candidate_audit"}
            BY <3>2, <5>3 DEF Verdicts
          <6>2. new = Whole(job.ids, job.fine)
            BY <6>1 DEF Contents
          <6>3. job.fine /\ files'[f].ids = job.ids
            BY <3>4, <4>1, <5>3, <6>2 DEF Ready, Whole
          <6>4. Approves(s)
            BY <2>1, <3>1, <6>1, <6>3, JudgesLast DEF Approves
          <6> QED BY <1>2, <2>1, <3>1, <6>3, <6>4 DEF WellReviewed
        <5> QED BY <5>2, <5>3
      <4> QED BY <4>1 DEF ReadyRunsReviewed, WellReviewed
    <3>7. JobInv(s)'
      <4>1. \/ server'[s] = Idle
            \/ /\ server'[s] = Serving(job.tool, job.ids, job.at + 1,
                                       job.fine, FALSE)
               /\ job.at # Len(Program[job.tool])
        BY <2>7 DEF WriteFile, TypeOK
      <4>2. CASE /\ server'[s] = Serving(job.tool, job.ids, job.at + 1,
                                         job.fine, FALSE)
                 /\ job.at # Len(Program[job.tool])
        <5>1. server'[s].tool = job.tool /\ server'[s].ids = job.ids
              /\ server'[s].at = job.at + 1
          BY <4>2 DEF Serving
        <5>2. job.tool = "closeout_packet" => job.at = 2
          <6>1. job.tool = "closeout_packet" => job.at # 6
            BY <4>2, CloseoutLength
          <6> QED BY <2>1, <3>1, <6>1
                  DEF StepFacts, LoadRuns, Reread, Review, Step
        <5>3. job.tool = "release_smoke" => job.at = 5
          BY <2>1, <3>1 DEF StepFacts
        <5>4. job.tool = "candidate_audit" => job.at = 2
          BY <2>1, <3>1 DEF StepFacts, Read, Step
        <5>5. ~ Approves(s)'
          BY <5>1, <5>2, <5>3, <5>4 DEF Approves
        <5> QED BY <1>3, <2>1, <5>1, <5>2, <5>5
      <4> QED BY <1>9, <4>1, <4>2
    <3> QED BY <3>5, <3>6, <3>7
  <2> QED BY <1>12, <2>4, <2>5, <2>6, <2>7 DEF ServerStep
<1> QED BY <1>10, <1>11, <1>12 DEF Next

LEMMA InitReviewed == Init => ReviewInv
  BY DEF Init, ReviewInv, QualityTellsDamage, ReadyRunsReviewed, Verdicts,
         Files, RunbookDocuments, RunReports, Ready, Absent, Busy, Approves

(* Whatever lists the clients of any number of servers pass, and wherever  *)
(* these are killed, a closeout packet, smoke or audit that says it is     *)
(* ready is about runs that exist, have both reports, and whose audit has  *)
(* no errors.                                                              *)
THEOREM ReadyRunsAlwaysReviewed == Spec => []ReadyRunsReviewed
<1>1. TypeOK /\ ReviewInv /\ [Next]_vars => (TypeOK /\ ReviewInv)'
  BY NextTypes, ReviewStep
<1>2. ReviewInv => ReadyRunsReviewed
  BY DEF ReviewInv
<1> QED BY InitTypes, InitReviewed, <1>1, <1>2, PTL DEF Spec

-----------------------------------------------------------------------------
(* With one server the progress report that the closeout reads back is the *)
(* one that it has just written: nobody else is there to write it.         *)
OneServer == \A s, t \in Servers : s = t

CoverInv ==
  /\ ReadyCoversStages
  /\ \A s \in Servers :
       /\ /\ Busy(s)
          /\ server[s].tool = "closeout_packet" /\ server[s].at = 3
          => files[<< "progress_report" >>] =
               Whole(server[s].ids, Covers(server[s].ids))
       /\ /\ Busy(s) /\ server[s].fine
          /\ server[s].tool = "closeout_packet" /\ server[s].at \in {4, 5}
          => Covers(server[s].ids)
       /\ Approves(s) => Covers(server[s].ids)

LEMMA CoverStep ==
  ASSUME OneServer
  PROVE  TypeOK /\ CoverInv /\ [Next]_vars => CoverInv'
<1> SUFFICES ASSUME TypeOK, CoverInv, [Next]_vars PROVE CoverInv'
  OBVIOUS
<1> DEFINE JobInv(s) ==
      /\ /\ Busy(s)
         /\ server[s].tool = "closeout_packet" /\ server[s].at = 3
         => files[<< "progress_report" >>] =
              Whole(server[s].ids, Covers(server[s].ids))
      /\ /\ Busy(s) /\ server[s].fine
         /\ server[s].tool = "closeout_packet" /\ server[s].at \in {4, 5}
         => Covers(server[s].ids)
      /\ Approves(s) => Covers(server[s].ids)
<1>1. CASE UNCHANGED vars \/ \E r \in Runs : StartRun(r)
  <2>1. files' = files /\ server' = server
    BY <1>1 DEF StartRun, vars
  <2> QED BY <2>1 DEF CoverInv, ReadyCoversStages, Ready, Busy, Approves
<1>2. ASSUME files' = files PROVE ReadyCoversStages'
  BY <1>2 DEF CoverInv, ReadyCoversStages, Ready
<1>3. ASSUME NEW s \in Servers, NEW tool \in DOMAIN Program,
             NEW ids \in ListsFor(tool), Call(s, tool, ids)
      PROVE  CoverInv'
  <2>1. files' = files /\ server'[s] = Serving(tool, ids, 1, TRUE, FALSE)
    BY <1>3 DEF Call, TypeOK
  <2>2. JobInv(s)'
    BY <2>1 DEF Serving, Approves
  <2> QED BY <1>2, <2>1, <2>2, OneServer DEF CoverInv, OneServer
<1>4. ASSUME NEW s \in Servers, ServerStep(s) \/ Kill(s) PROVE CoverInv'
  <2> DEFINE job == server[s]
  <2>1. Busy(s) /\ StepFacts(s) /\ JobInv(s)
    BY <1>4, StepTable
       DEF ServerStep, Raise, Look, OpenFile, WriteFile, Kill, CoverInv
  <2>2. SUFFICES ReadyCoversStages' /\ JobInv(s)'
    BY DEF CoverInv, OneServer
  <2>3. CASE Raise(s) \/ Kill(s)
    <3>1. files' = files /\ server'[s] = Idle
      BY <2>3 DEF Raise, Kill, TypeOK
    <3> QED BY <1>2, <3>1 DEF Busy, Approves
  <2>4. CASE Look(s)
    <3> DEFINE fine == job.fine /\ FindsNothing(s)
    <3>1. /\ files' = files
          /\ server'[s] = Serving(job.tool, job.ids, job.at + 1, fine, FALSE)
      BY <2>4 DEF Look, TypeOK
    <3>2. /\ server'[s].tool = job.tool /\ server'[s].ids = job.ids
          /\ server'[s].at = job.at + 1 /\ server'[s].fine = fine
      <4> HIDE DEF fine
      <4> QED BY <3>1 DEF Serving
    <3>3. fine => job.fine /\ FindsNothing(s)
      OBVIOUS
    <3> HIDE DEF fine
    <3>4. ASSUME job.tool = "closeout_packet", job.at = 3, fine
          PROVE  Covers(job.ids)
      <4>1. /\ Path(s) = << "progress_report" >>
            /\ Current(s).op = "reread" /\ "ready" \in Current(s).checks
        BY <2>1, <3>4 DEF StepFacts, Reread, Step, Path, FileOf, RunReports
      <4>2. files[Path(s)].ready
        BY <3>3, <3>4, <4>1 DEF FindsNothing
      <4> DEFINE covers == Covers(job.ids)
      <4>3. files[Path(s)] = Whole(job.ids, covers)
        BY <2>1, <3>4, <4>1
      <4> HIDE DEF covers
      <4>4. covers
        BY <4>2, <4>3 DEF Whole
      <4> QED BY <4>4 DEF covers
    <3>5. ASSUME NEW f \in Verdicts, NEW document,
                 Current(s) = Read(document, {"ids", "ready"}),
                 f = << document >>, document \notin RunReports, fine
          PROVE  Covers(job.ids)
      <4>1. ~ Raises(s) /\ FindsNothing(s)
        BY <2>4, <3>3, <3>5 DEF Look
      <4>2. Path(s) = f /\ files[f] # Torn /\ files[f] # Absent
        BY <3>5, <4>1 DEF Path, FileOf, Read, Step, Raises, FindsNothing
      <4>3. files[f].ids = job.ids /\ files[f].ready
        BY <3>5, <4>1, <4>2 DEF Read, Step, FindsNothing
      <4>4. f \in Files
        BY DEF Verdicts, Files, RunbookDocuments
      <4>5. Ready(f)
        BY <4>2, <4>3, <4>4 DEF Ready, TypeOK, DocumentStates
      <4> QED BY <4>3, <4>5 DEF CoverInv, ReadyCoversStages
    <3>6. Approves(s)' => Covers(job.ids)
      <4>1. CASE job.tool = "closeout_packet" /\ job.at = 5
        BY <2>1, <3>2, <3>3, <4>1 DEF Approves
      <4>2. CASE job.tool = "release_smoke" /\ job.at = 4
        <5>1. Current(s) = Read("closeout_packet", {"ids", "ready"})
          BY <2>1, <4>2 DEF StepFacts
        <5> QED BY <3>2, <3>5, <5>1 DEF Approves, Verdicts, RunReports
      <4>3. CASE job.tool = "candidate_audit" /\ job.at = 1
        <5>1. Current(s) = Read("release_smoke", {"ids", "ready"})
          BY <2>1, <4>3 DEF StepFacts
        <5> QED BY <3>2, <3>5, <5>1 DEF Approves, Verdicts, RunReports
      <4> QED BY <2>1, <3>2, <4>1, <4>2, <4>3 DEF Approves, StepFacts
    <3>7. job.tool = "closeout_packet" =>
            /\ job.at # 2
            /\ job.at = 4 /\ fine => Covers(job.ids)
      <4>1. Current(s).op # "write"
        BY <2>4 DEF Look
      <4> QED BY <2>1, <3>3, <4>1 DEF StepFacts, Write, Step
    <3>8. job.tool = "closeout_packet" => job.at \in 1 .. 6
      BY <2>1 DEF StepFacts
    <3>9. server'[s].tool = "closeout_packet" => server'[s].at # 3
      BY <3>2, <3>7, <3>8
    <3>10. /\ server'[s].fine /\ server'[s].tool = "closeout_packet"
           /\ server'[s].at \in {4, 5}
           => Covers(server'[s].ids)
      BY <3>2, <3>4, <3>7, <3>8
    <3>11. Approves(s)' => Covers(server'[s].ids)
      BY <3>2, <3>6
    <3> QED BY <1>2, <3>1, <3>9, <3>10, <3>11
  <2>5. CASE OpenFile(s)
    <3>1. files' = [files EXCEPT ![Path(s)] = Torn] /\ Path(s) \in Files
      BY <2>1, <2>5, PathIsFile DEF OpenFile
    <3>2. \A f \in Files : Ready(f)' => Ready(f) /\ files'[f] = files[f]
      BY <3>1 DEF Ready, Torn, TypeOK
    <3>3. \A f \in Verdicts : f \in Files
      BY DEF Verdicts, Files, RunbookDocuments
    <3>4. /\ server'[s].tool = job.tool /\ server'[s].ids = job.ids
          /\ server'[s].at = job.at /\ server'[s].fine = job.fine
      BY <2>1, <2>5 DEF OpenFile, TypeOK, Busy
    <3>5. job.tool = "closeout_packet" => job.at # 3
      BY <2>1, <2>5 DEF OpenFile, StepFacts, Reread, Step
    <3>6. ReadyCoversStages'
      BY <3>2, <3>3 DEF CoverInv, ReadyCoversStages
    <3>7. JobInv(s)'
      BY <2>1, <3>4, <3>5 DEF Approves
    <3> QED BY <3>6, <3>7
  <2>6. CASE WriteFile(s)
    <3> DEFINE d == Current(s).document
               new == Contents(d, job.ids, job.fine)
    <3>1. /\ files' = [files EXCEPT ![Path(s)] = new]
          /\ Path(s) \in Files /\ Current(s).op = "write"
      BY <2>1, <2>6, PathIsFile DEF WriteFile
    <3>2. /\ d \in RunReports => \E r \in Runs :
               job.ids = << r >> /\ Path(s) = << d, r >>
          /\ d \notin RunReports => Path(s) = << d >>
      BY <2>1, <3>1, PathIsFile
    <3>3. /\ \A f \in Files \ {Path(s)} : files'[f] = files[f]
          /\ files'[Path(s)] = new
      BY <3>1 DEF TypeOK
    <3>4. ReadyCoversStages'
      <4>1. ASSUME NEW f \in Verdicts, Ready(f)'
            PROVE  Covers(files'[f].ids)
        <5>1. f \in Files
          BY DEF Verdicts, Files, RunbookDocuments
        <5>2. CASE f # Path(s)
          BY <3>3, <4>1, <5>1, <5>2 DEF Ready, CoverInv, ReadyCoversStages
        <5>3. CASE f = Path(s)
          <6>1. f = << d >> /\ d \in {"closeout_packet", "release_smoke",
                                     "candidate_audit"}
            BY <3>2, <5>3 DEF Verdicts
          <6>2. new = Whole(job.ids, job.fine)
            BY <6>1 DEF Contents
          <6>3. job.fine /\ files'[f].ids = job.ids
            BY <3>3, <4>1, <5>3, <6>2 DEF Ready, Whole
          <6>4. Approves(s)
            BY <2>1, <3>1, <6>1, <6>3, JudgesLast DEF Approves
          <6> QED BY <2>1, <6>3, <6>4
        <5> QED BY <5>2, <5>3
      <4> QED BY <4>1 DEF ReadyCoversStages
    <3>5. JobInv(s)'
      <4>1. \/ server'[s] = Idle
            \/ /\ server'[s] = Serving(job.tool, job.ids, job.at + 1,
                                       job.fine, FALSE)
               /\ job.at # Len(Program[job.tool])
        BY <2>6 DEF WriteFile, TypeOK
      <4>2. CASE /\ server'[s] = Serving(job.tool, job.ids, job.at + 1,
                                         job.fine, FALSE)
                 /\ job.at # Len(Program[job.tool])
        <5>1. server'[s].tool = job.tool /\ server'[s].ids = job.ids
              /\ server'[s].at = job.at + 1
          BY <4>2 DEF Serving
        <5>2. job.tool = "closeout_packet" =>
                job.at = 2 /\ d = "progress_report"
          <6>1. job.tool = "closeout_packet" => job.at # 6
            BY <4>2, CloseoutLength
          <6>2. job.tool = "closeout_packet" => job.at = 2
            BY <2>1, <3>1, <6>1
               DEF StepFacts, LoadRuns, Reread, Review, Step
          <6>3. job.tool = "closeout_packet" =>
                  Current(s) = Write("progress_report")
            BY <2>1, <6>2 DEF StepFacts
          <6> QED BY <6>2, <6>3 DEF Write, Step
        <5>3. job.tool = "release_smoke" => job.at = 5
          BY <2>1, <3>1 DEF StepFacts
        <5>4. job.tool = "candidate_audit" => job.at = 2
          BY <2>1, <3>1 DEF StepFacts, Read, Step
        <5>5. ~ Approves(s)'
          BY <5>1, <5>2, <5>3, <5>4 DEF Approves
        <5>6. d = "progress_report" =>
                files'[<< "progress_report" >>] =
                  Whole(job.ids, Covers(job.ids))
          BY <3>2, <3>3 DEF Contents, RunReports
        <5> QED BY <5>1, <5>2, <5>5, <5>6
      <4> QED BY <4>1, <4>2 DEF Busy, Approves
    <3> QED BY <3>4, <3>5
  <2> QED BY <1>4, <2>3, <2>4, <2>5, <2>6 DEF ServerStep
<1> QED BY <1>1, <1>3, <1>4 DEF Next

LEMMA InitCovers == Init => CoverInv
  BY DEF Init, CoverInv, ReadyCoversStages, Verdicts, Files, RunbookDocuments,
         RunReports, Ready, Absent, Busy, Approves

(* With one server, however often it is killed, a ready document is about  *)
(* runs for all stages of the runbook.                                     *)
THEOREM ReadyAlwaysCoversStages ==
  ASSUME OneServer
  PROVE  Spec => []ReadyCoversStages
<1>1. TypeOK /\ CoverInv /\ [Next]_vars => (TypeOK /\ CoverInv)'
  BY NextTypes, CoverStep
<1>2. CoverInv => ReadyCoversStages
  BY DEF CoverInv
<1> QED BY InitTypes, InitCovers, <1>1, <1>2, PTL DEF Spec

-----------------------------------------------------------------------------
(* The plan of the release readiness gate: its commands are the first nine *)
(* steps and the last; between them it makes up runs, has documents        *)
(* written and writes its result.                                          *)
DocumentSteps ==
  [op : {"save", "report", "call"}, name : {"run"} \cup DOMAIN Program,
   ids : {<< >>, RELEASE_RUN_IDS}
           \cup {<< RELEASE_RUN_IDS[i] >> : i \in 1 .. 4}]

Middle == _run_release_readiness_artifacts

FirstSteps ==
  << Command("source_suite"), Command("remove_venv"), Command("create_venv"),
     Command("upgrade_pip"), Command("install_edition"), Command("run_suite"),
     Command("installed_mcp_stdio_smoke"), Command("workroom_git_status"),
     Command("kernel_git_status") >>

LastSteps == << WriteResult, Command("finally_remove_venv") >>

LEMMA ProgramNames ==
  DOMAIN Program = {"operating_packet", "smoke_example", "progress_report",
                    "closeout_packet", "release_smoke", "candidate_audit",
                    "brief", "quality"}
BY DEF Program

LEMMA MiddleSteps == Middle \in Seq(DocumentSteps)
<1>1. \A i \in 1 .. 4 : MockRun(RELEASE_RUN_IDS[i]) \in Seq(DocumentSteps)
  <2> SUFFICES ASSUME NEW i \in 1 .. 4
               PROVE  MockRun(RELEASE_RUN_IDS[i]) \in Seq(DocumentSteps)
    OBVIOUS
  <2>1. /\ SaveRun(RELEASE_RUN_IDS[i]) \in DocumentSteps
        /\ Report("brief", RELEASE_RUN_IDS[i]) \in DocumentSteps
        /\ Report("quality", RELEASE_RUN_IDS[i]) \in DocumentSteps
    BY ProgramNames DEF DocumentSteps, SaveRun, Report
  <2> QED
    BY <2>1 DEF MockRun
<1>2. _write_mock_runs \in Seq(DocumentSteps)
  BY <1>1 DEF _write_mock_runs
<1>3. /\ CallOf("operating_packet", << >>) \in DocumentSteps
      /\ CallOf("smoke_example", << >>) \in DocumentSteps
      /\ CallOf("progress_report", RELEASE_RUN_IDS) \in DocumentSteps
      /\ CallOf("closeout_packet", RELEASE_RUN_IDS) \in DocumentSteps
      /\ CallOf("release_smoke", RELEASE_RUN_IDS) \in DocumentSteps
      /\ CallOf("candidate_audit", RELEASE_RUN_IDS) \in DocumentSteps
  BY ProgramNames DEF DocumentSteps, CallOf
<1> QED
  BY <1>2, <1>3 DEF Middle, _run_release_readiness_artifacts

LEMMA ThreeParts ==
  ASSUME NEW S, NEW first \in Seq(S), NEW middle \in Seq(S), NEW last \in Seq(S),
         NEW whole, whole = first \o middle \o last
  PROVE  /\ DOMAIN whole = 1 .. Len(whole)
         /\ Len(whole) = Len(first) + Len(middle) + Len(last)
         /\ \A i \in 1 .. Len(first) : whole[i] = first[i]
         /\ \A i \in 1 .. Len(middle) : whole[i + Len(first)] = middle[i]
         /\ \A i \in 1 .. Len(last) :
              whole[i + Len(first) + Len(middle)] = last[i]
<1> DEFINE front == first \o middle
<1>1. /\ front \in Seq(S) /\ Len(front) = Len(first) + Len(middle)
      /\ \A i \in 1 .. Len(first) : front[i] = first[i]
      /\ \A i \in 1 .. Len(middle) : front[i + Len(first)] = middle[i]
  OBVIOUS
<1> HIDE DEF front
<1>2. /\ whole \in Seq(S) /\ Len(whole) = Len(front) + Len(last)
      /\ \A i \in 1 .. Len(front) : whole[i] = front[i]
      /\ \A i \in 1 .. Len(last) : whole[i + Len(front)] = last[i]
  BY <1>1 DEF front
<1> QED
  BY <1>1, <1>2

(* The steps by number. *)
LEMMA GatePlan ==
  LET plan == run_release_readiness_gate
      n    == LastStep
  IN  /\ n \in Nat /\ n > 10 /\ DOMAIN plan = 1 .. n
      /\ \A i \in 1 .. 9 : plan[i] = FirstSteps[i]
      /\ \A i \in 10 .. n - 1 :
           plan[i].op # "command" /\ plan[i].name # "installed_mcp_stdio_smoke"
      /\ plan[n] = Command("finally_remove_venv")
<1> DEFINE plan == run_release_readiness_gate
           m    == Len(Middle)
<1>1. /\ plan = FirstSteps \o Middle \o LastSteps
      /\ Len(FirstSteps) = 9 /\ Len(LastSteps) = 2
  BY DEF run_release_readiness_gate, _run_fresh_install_suite, FirstSteps,
         LastSteps, Middle
<1>2. m \in Nat /\ \A i \in 1 .. m : Middle[i] \in DocumentSteps
  BY MiddleSteps
<1>3. \E S : FirstSteps \in Seq(S) /\ Middle \in Seq(S) /\ LastSteps \in Seq(S)
  <2> DEFINE S == DocumentSteps \cup {FirstSteps[i] : i \in 1 .. 9}
                    \cup {LastSteps[i] : i \in 1 .. 2}
  <2>1. FirstSteps \in Seq(S)
    BY DEF FirstSteps
  <2>2. LastSteps \in Seq(S)
    BY DEF LastSteps
  <2>3. Middle \in Seq(S)
    BY MiddleSteps
  <2> QED
    BY <2>1, <2>2, <2>3
<1> HIDE DEF plan, m
<1>4. /\ DOMAIN plan = 1 .. Len(plan) /\ Len(plan) = m + 11
      /\ \A i \in 1 .. 9 : plan[i] = FirstSteps[i]
      /\ \A i \in 1 .. m : plan[i + 9] = Middle[i]
      /\ \A i \in 1 .. 2 : plan[i + 9 + m] = LastSteps[i]
  <2>1. PICK S : FirstSteps \in Seq(S) /\ Middle \in Seq(S) /\ LastSteps \in Seq(S)
    BY <1>3
  <2>2. /\ DOMAIN plan = 1 .. Len(plan)
        /\ Len(plan) = Len(FirstSteps) + Len(Middle) + Len(LastSteps)
        /\ \A i \in 1 .. Len(FirstSteps) : plan[i] = FirstSteps[i]
        /\ \A i \in 1 .. Len(Middle) : plan[i + Len(FirstSteps)] = Middle[i]
        /\ \A i \in 1 .. Len(LastSteps) :
             plan[i + Len(FirstSteps) + Len(Middle)] = LastSteps[i]
    <3> HIDE DEF FirstSteps, Middle, LastSteps
    <3>1. plan = FirstSteps \o Middle \o LastSteps
      BY <1>1
    <3> QED
      BY <2>1, <3>1, ThreeParts
  <2>3. Len(FirstSteps) = 9 /\ Len(LastSteps) = 2 /\ Len(Middle) = m /\ m \in Nat
    BY <1>1, <1>2 DEF m
  <2> HIDE DEF FirstSteps, Middle, LastSteps
  <2>4. Len(plan) = m + 11
    BY <2>2, <2>3
  <2>5. \A i \in 1 .. 2 : plan[i + 9 + m] = LastSteps[i]
    BY <2>2, <2>3
  <2> QED
    BY <2>2, <2>3, <2>4, <2>5
<1>5. ASSUME NEW i \in 10 .. m + 10
      PROVE  plan[i].op # "command" /\ plan[i].name # "installed_mcp_stdio_smoke"
  <2>1. CASE i \in 10 .. m + 9
    <3>1. i - 9 \in 1 .. m /\ (i - 9) + 9 = i
      BY <1>2, <2>1
    <3>2. plan[i] \in DocumentSteps
      BY <1>2, <1>4, <3>1
    <3> QED
      BY <3>2, ProgramNames DEF DocumentSteps
  <2>2. CASE i = m + 10
    <3>1. plan[i] = LastSteps[1]
      BY <1>2, <1>4, <2>2
    <3> QED
      BY <3>1 DEF LastSteps, WriteResult
  <2> QED
    BY <1>2, <2>1, <2>2
<1>6. plan[m + 11] = Command("finally_remove_venv")
  <2>1. plan[m + 11] = LastSteps[2]
    BY <1>2, <1>4
  <2> QED
    BY <2>1 DEF LastSteps
<1>7. LastStep = m + 11
  BY <1>4 DEF LastStep, plan
<1> QED
  BY <1>2, <1>4, <1>5, <1>6, <1>7 DEF plan

LEMMA GateCommands ==
  /\ \A i \in 1 .. 9 : FirstSteps[i].op = "command"
  /\ FirstSteps[1].name = "source_suite" /\ FirstSteps[2].name = "remove_venv"
  /\ FirstSteps[3].name = "create_venv" /\ FirstSteps[4].name = "upgrade_pip"
  /\ FirstSteps[5].name = "install_edition" /\ FirstSteps[6].name = "run_suite"
  /\ FirstSteps[7].name = "installed_mcp_stdio_smoke"
  /\ FirstSteps[8].name = "workroom_git_status"
  /\ FirstSteps[9].name = "kernel_git_status"
BY DEF FirstSteps, Command

LEMMA SmokeStep == StepNamed("installed_mcp_stdio_smoke") = 7
<1> DEFINE plan == run_release_readiness_gate
           smoke == "installed_mcp_stdio_smoke"
<1>1. /\ LastStep \in Nat /\ LastStep > 10 /\ DOMAIN plan = 1 .. LastStep
      /\ \A i \in 1 .. 9 : plan[i] = FirstSteps[i]
      /\ \A i \in 10 .. LastStep - 1 : plan[i].name # smoke
      /\ plan[LastStep] = Command("finally_remove_venv")
  BY GatePlan
<1> HIDE DEF plan
<1>2. 7 \in DOMAIN plan /\ plan[7].name = smoke
  BY <1>1, GateCommands
<1>3. ASSUME NEW i \in DOMAIN plan, i # 7 PROVE plan[i].name # smoke
  <2>1. CASE i \in 1 .. 9
    <3>1. i \in {1, 2, 3, 4, 5, 6, 8, 9}
      BY <1>3, <2>1
    <3> QED
      BY <1>1, <2>1, <3>1, GateCommands
  <2>2. CASE i \in 10 .. LastStep - 1
    BY <1>1, <2>2
  <2>3. CASE i = LastStep
    BY <1>1, <2>3 DEF Command
  <2> QED
    BY <1>1, <1>3, <2>1, <2>2, <2>3
<1> QED
  BY <1>2, <1>3 DEF StepNamed, plan

-----------------------------------------------------------------------------
(* The environment of an attempt.  From its creation to the smoke it holds *)
(* nothing of an earlier attempt, and the package only in an environment   *)
(* that was made; then nothing changes it until the end.                   *)
Installed == {"run_suite", "installed_mcp_stdio_smoke"}

OwnVenv == [made |-> "now", package |-> "now"]

GateInv ==
  /\ DOMAIN gate = {"at", "opened", "passed", "killed"}
  /\ gate.at \in 0 .. LastStep
  /\ venv \in [made : {"never", "now", "earlier"},
               package : {"never", "now", "earlier"}]
  /\ gate.at \in 0 .. 6 => gate.passed \cap Installed = {}
  /\ gate.at \in 3 .. 7 =>
       /\ venv.made \in {"never", "now"} /\ venv.package \in {"never", "now"}
       /\ venv.package = "now" => venv.made = "now"
  /\ gate.passed \cap Installed # {} => venv = OwnVenv

(* A command of the attempt, by the number of its step. *)
LEMMA CommandStep ==
  ASSUME GateInv, RunCommand
  PROVE  GateInv'
<1> DEFINE name == Todo.name
<1>1. /\ gate.at \in 1 .. 9 /\ name = FirstSteps[gate.at].name
  <2>1. /\ gate.at \in 1 .. LastStep /\ gate.at # LastStep
        /\ Todo.op = "command" /\ LastStep \in Nat
    BY GatePlan DEF GateInv, RunCommand, At, Running
  <2>2. gate.at \notin 10 .. LastStep - 1
    BY <2>1, GatePlan DEF Todo
  <2>3. gate.at \in 1 .. 9
    BY <2>1, <2>2
  <2> QED
    BY <2>3, GatePlan DEF Todo
<1>2. PICK passed \in BOOLEAN :
        /\ passed => MayPass(name)
        /\ name = "remove_venv" => passed
        /\ venv' \in VenvAfter(name, passed)
        /\ gate' = [gate EXCEPT !.at = StepAfter(name, passed),
                                !.passed = IF passed
                                           THEN @ \cup ({name} \cap Reported)
                                           ELSE @]
  BY DEF RunCommand
<1> HIDE DEF name
<1>3. /\ DOMAIN gate' = DOMAIN gate
      /\ gate'.at = StepAfter(name, passed)
      /\ gate'.passed = IF passed THEN gate.passed \cup ({name} \cap Reported)
                        ELSE gate.passed
  BY <1>2 DEF GateInv
<1>4. /\ LastStep \in Nat /\ LastStep > 10
  BY GatePlan
<1>5. /\ gate.at \in 0 .. LastStep
      /\ venv \in [made : {"never", "now", "earlier"},
                  package : {"never", "now", "earlier"}]
      /\ gate.at \in 0 .. 6 => gate.passed \cap Installed = {}
      /\ gate.at \in 3 .. 7 =>
           /\ venv.made \in {"never", "now"} /\ venv.package \in {"never", "now"}
           /\ venv.package = "now" => venv.made = "now"
      /\ gate.passed \cap Installed # {} => venv = OwnVenv
  BY DEF GateInv
<1>6. /\ gate.at = 1 => name = "source_suite"
      /\ gate.at = 2 => name = "remove_venv"
      /\ gate.at = 3 => name = "create_venv"
      /\ gate.at = 4 => name = "upgrade_pip"
      /\ gate.at = 5 => name = "install_edition"
      /\ gate.at = 6 => name = "run_suite"
      /\ gate.at = 7 => name = "installed_mcp_stdio_smoke"
      /\ gate.at = 8 => name = "workroom_git_status"
      /\ gate.at = 9 => name = "kernel_git_status"
  BY <1>1, GateCommands
<1>7. gate'.at = IF gate.at \in {3, 4, 5} /\ ~ passed THEN 7 ELSE gate.at + 1
  BY <1>1, <1>3, <1>6, SmokeStep DEF StepAfter
<1>8. /\ name \notin Installed => gate'.passed \cap Installed = gate.passed \cap Installed
      /\ ~ passed => gate'.passed = gate.passed
  BY <1>3
<1>9. CASE gate.at \in {1, 8, 9}
  <2>1. venv' = venv
    BY <1>2, <1>6, <1>9 DEF VenvAfter
  <2>2. name \notin Installed
    BY <1>6, <1>9 DEF Installed
  <2> QED
    BY <1>3, <1>4, <1>5, <1>7, <1>8, <1>9, <2>1, <2>2 DEF GateInv
<1>10. CASE gate.at = 2
  <2>1. venv' = NoVenv
    BY <1>2, <1>6, <1>10 DEF VenvAfter
  <2>2. name \notin Installed
    BY <1>6, <1>10 DEF Installed
  <2> QED
    BY <1>3, <1>4, <1>5, <1>7, <1>8, <1>10, <2>1, <2>2 DEF GateInv, NoVenv
<1>11. CASE gate.at = 3
  <2>1. venv' \in {venv, NoVenv, [NoVenv EXCEPT !.made = "now"]}
    BY <1>2, <1>6, <1>11 DEF VenvAfter
  <2>2. /\ venv' \in [made : {"never", "now"}, package : {"never", "now"}]
        /\ venv'.package = "now" => venv'.made = "now"
    BY <1>5, <1>11, <2>1 DEF NoVenv
  <2>3. name \notin Installed
    BY <1>6, <1>11 DEF Installed
  <2> QED
    BY <1>3, <1>4, <1>5, <1>7, <1>8, <1>11, <2>2, <2>3 DEF GateInv
<1>12. CASE gate.at = 4
  <2>1. venv' = venv
    BY <1>2, <1>6, <1>12 DEF VenvAfter
  <2>2. name \notin Installed
    BY <1>6, <1>12 DEF Installed
  <2> QED
    BY <1>3, <1>4, <1>5, <1>7, <1>8, <1>12, <2>1, <2>2 DEF GateInv
<1>13. CASE gate.at = 5
  <2>1. /\ venv' \in {venv, [venv EXCEPT !.package = "now"]}
        /\ ~ passed => venv' = venv
        /\ passed => venv.made # "never"
    BY <1>2, <1>6, <1>13 DEF VenvAfter, MayPass
  <2>2. /\ venv' \in [made : {"never", "now"}, package : {"never", "now"}]
        /\ venv'.package = "now" => venv'.made = "now"
    BY <1>5, <1>13, <2>1
  <2>3. name \notin Installed
    BY <1>6, <1>13 DEF Installed
  <2> QED
    BY <1>3, <1>4, <1>5, <1>7, <1>8, <1>13, <2>2, <2>3 DEF GateInv
<1>14. CASE gate.at \in {6, 7}
  <2>1. venv' = venv
    BY <1>2, <1>6, <1>14 DEF VenvAfter
  <2>2. passed => venv = OwnVenv
    BY <1>2, <1>5, <1>6, <1>14 DEF MayPass, OwnVenv
  <2>3. gate'.passed \cap Installed # {} => venv' = OwnVenv
    BY <1>5, <1>8, <2>1, <2>2
  <2> QED
    BY <1>3, <1>4, <1>5, <1>7, <1>14, <2>1, <2>3 DEF GateInv
<1> QED
  BY <1>1, <1>9, <1>10, <1>11, <1>12, <1>13, <1>14

LEMMA GateInvStep == GateInv /\ [GateNext]_gateVars => GateInv'
<1> SUFFICES ASSUME GateInv, [GateNext]_gateVars PROVE GateInv'
  OBVIOUS
<1>1. LastStep \in Nat /\ LastStep > 10
  BY GatePlan
<1>2. ASSUME venv' = venv, DOMAIN gate' = DOMAIN gate, gate'.passed = gate.passed,
             \/ gate'.at = gate.at
             \/ gate'.at \in 11 .. LastStep
      PROVE  GateInv'
  BY <1>1, <1>2 DEF GateInv, OwnVenv
<1>3. ASSUME gate' \in {Off(TRUE), Off(FALSE)}, venv' \in {venv, NoVenv}
      PROVE  GateInv'
  BY <1>1, <1>3 DEF GateInv, Off, NoVenv, OwnVenv
<1>4. CASE UNCHANGED gateVars
  BY <1>2, <1>4 DEF gateVars
<1>5. CASE StartGate
  <2>1. /\ gate' = [Off(FALSE) EXCEPT !.at = 1]
        /\ venv' = [made |-> Earlier(venv.made), package |-> Earlier(venv.package)]
    BY <1>5 DEF StartGate
  <2>2. DOMAIN gate' = DOMAIN gate /\ gate'.at = 1 /\ gate'.passed = {}
    BY <2>1 DEF GateInv, Off
  <2>3. /\ Earlier(venv.made) \in {"never", "now", "earlier"}
        /\ Earlier(venv.package) \in {"never", "now", "earlier"}
    BY DEF GateInv, Earlier
  <2>4. venv' \in [made : {"never", "now", "earlier"},
                  package : {"never", "now", "earlier"}]
    BY <2>1, <2>3
  <2> QED
    BY <1>1, <2>2, <2>4 DEF GateInv
<1>6. CASE RunCommand
  BY <1>6, CommandStep
<1>7. ASSUME At("save") \/ At("report") \/ At("call") \/ At("result")
      PROVE  gate.at \in 10 .. LastStep - 1
  <2>1. gate.at \in 1 .. LastStep /\ Todo.op # "command"
    BY <1>1, <1>7 DEF At, Running, GateInv
  <2>2. gate.at \notin 1 .. 9
    BY <2>1, GatePlan, GateCommands DEF Todo
  <2>3. gate.at # LastStep
    BY <2>1, GatePlan DEF Todo, Command
  <2> QED
    BY <1>1, <2>1, <2>2, <2>3
<1>8. ASSUME gate' \in {Advanced, [gate EXCEPT !.opened = TRUE]}, venv' = venv,
             At("save") \/ At("report") \/ At("call") \/ At("result")
      PROVE  GateInv'
  <2>1. /\ DOMAIN gate' = DOMAIN gate /\ gate'.passed = gate.passed
        /\ gate'.at \in {gate.at, gate.at + 1}
    BY <1>8 DEF Advanced, GateInv
  <2> QED
    BY <1>1, <1>2, <1>7, <1>8, <2>1
<1>9. CASE SaveMockRun \/ OpenReport \/ FillReport
  BY <1>8, <1>9 DEF SaveMockRun, OpenReport, FillReport
<1>10. CASE CallTool \/ ToolReturns
  BY <1>8, <1>10 DEF CallTool, ToolReturns
<1>11. CASE OpenResult \/ FillResult
  BY <1>8, <1>11 DEF OpenResult, FillResult
<1>12. CASE ToolStep
  <2>1. /\ venv' = venv
        /\ gate' \in {[gate EXCEPT !.at = LastStep, !.opened = FALSE], gate}
    BY <1>12 DEF ToolStep
  <2>2. /\ DOMAIN gate' = DOMAIN gate /\ gate'.passed = gate.passed
        /\ gate'.at \in {LastStep, gate.at}
    BY <2>1 DEF GateInv
  <2> QED
    BY <1>1, <1>2, <2>1, <2>2
<1>13. CASE RemoveVenv
  BY <1>3, <1>13 DEF RemoveVenv
<1>14. CASE KillGate
  BY <1>3, <1>14 DEF KillGate
<1> QED
  BY <1>4, <1>5, <1>6, <1>9, <1>10, <1>11, <1>12, <1>13, <1>14
     DEF GateNext, GateStep

(* Whatever an earlier attempt left behind, and wherever it was killed:    *)
(* the suite and the smoke of the installed package are only reported as   *)
(* passed when they ran in an environment, and with a package, that the    *)
(* same attempt made.                                                      *)
THEOREM GateAlwaysTestsOwnInstall == GateSpec => []TestsOwnInstall
<1>1. GateInit => GateInv
  <2> SUFFICES ASSUME GateInit PROVE GateInv
    OBVIOUS
  <2>1. gate = Off(FALSE) /\ venv = NoVenv
    BY DEF GateInit
  <2> QED
    BY <2>1, GatePlan DEF GateInv, Off, NoVenv
<1>2. GateInv => TestsOwnInstall
  BY DEF GateInv, TestsOwnInstall, Installed, OwnVenv
<1> QED
  BY <1>1, <1>2, GateInvStep, PTL DEF GateSpec
=============================================================================
