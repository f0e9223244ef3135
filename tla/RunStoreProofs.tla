--------------------------- MODULE RunStoreProofs ---------------------------
(***************************************************************************)
(* Theorems about the run store.                                           *)
(*                                                                         *)
(* Any number of servers, any number of kills: the run on disk is a run    *)
(* (StoreTypeCorrect), every tool's result in it stands with the results   *)
(* it rests on (SavedRunAlwaysClosed), and its files are never missing     *)
(* (RecordedFilesAlwaysRestored).  This needs no lock, because a save      *)
(* replaces the whole run by one view and one result: the invariants say   *)
(* that each view is closed, can bear the result that is to be added to    *)
(* it, and has its files.                                                  *)
(*                                                                         *)
(* One server, killed and called again: what was acknowledged stays        *)
(* recorded (AckedIsAlwaysSaved), its files stay whole                     *)
(* (RecordedFilesAlwaysWhole), the status of a task agrees with its report *)
(* (StatusAlwaysTellsVerdict), and the run is an evidence chain            *)
(* (StoreImplementsChain), which takes nothing back (StoreKeepsResults).   *)
(* Here the view of the server is the run.                                 *)
(***************************************************************************)
EXTENDS RunStore, CompanyToolsProofs

-----------------------------------------------------------------------------
(* The calls. *)

(* What a call records: the kind of a route, or one of three that none has.*)
RecordsRoute(call) == call \in Tools /\ HonorsRoute(call)

LEMMA OwnKinds ==
  /\ WorkResult \notin Kinds /\ Evidence \notin Kinds /\ OperationPlan \notin Kinds
  /\ WorkResult # Evidence /\ WorkResult # OperationPlan /\ Evidence # OperationPlan
  /\ OperationPlan \notin RefKinds
  /\ Review \in Kinds
BY DEF WorkResult, Evidence, OperationPlan, Kinds, LOCAL_ROUTES, RefKinds,
       Review, create_landing_qa_report, Handler

LEMMA CallKinds ==
  \A call \in RunCalls :
    /\ call.category \in TasksOf(RunCompany)
    /\ \/ RecordsRoute(call)
       \/ call \notin Tools /\ call.kind \in {WorkResult, Evidence, OperationPlan}
    /\ FileOf(call) \in Files
<1>1. SUFFICES ASSUME NEW call \in RunCalls
               PROVE  /\ call.category \in TasksOf(RunCompany)
                      /\ \/ RecordsRoute(call)
                         \/ /\ call \notin Tools
                            /\ call.kind \in {WorkResult, Evidence, OperationPlan}
                      /\ FileOf(call) \in Files
  OBVIOUS
<1>2. call \in Calls /\ call.category \in TasksOf(RunCompany)
  BY DEF RunCalls
<1>3. call \in Tools => RecordsRoute(call)
  BY HandlersHonorRoutes DEF RecordsRoute
<1>4. call \in DevOpsTools => call.kind \in {Evidence, OperationPlan}
  BY DEF DevOpsTools, prepare_github_pages_deploy_execution_plan,
         execute_github_pages_deploy, Handler
<1>5. ASSUME NEW c \in RecordedByHand, call = HandMade(c)
      PROVE  call.kind = WorkResult
  BY <1>5 DEF HandMade, Handler
<1>6. call \in Tools \/ call \in DevOpsTools
        \/ \E c \in RecordedByHand : call = HandMade(c)
  BY <1>2 DEF Calls
<1>7. FileOf(call) \in Files
  BY DEF Files
<1> QED
  BY <1>2, <1>3, <1>4, <1>5, <1>6, <1>7

LEMMA RecordedKind ==
  ASSUME NEW call \in RunCalls, call.kind # OperationPlan
  PROVE  call.kind \in RefKinds
BY CallKinds DEF RecordsRoute, HonorsRoute, RefKinds

-----------------------------------------------------------------------------
(* The strengthening.  A view is what its server will save, so it is held  *)
(* to what holds of the saved run; the handler has found in it the results *)
(* that its own rests on.                                                  *)

Closed(tasks) ==
  \A k \in Kinds : Recorded(tasks, k) =>
    \A needed \in LOCAL_ROUTES[k].requires : Recorded(tasks, needed)

Bears(tasks, call) == call \in Tools => Callable(tasks, call)

(* What a server holds, idle or busy. *)
Holds(held) ==
  \/ held = NoCall
  \/ /\ held.pc \in {"loaded", "writing", "written"}
     /\ held.call \in RunCalls
     /\ held.view \in [TasksOf(RunCompany) -> TaskStates]
     /\ held.status \in Statuses
     /\ Closed(held.view)
     /\ Bears(held.view, held.call)
     /\ held.pc = "written" => held.call.kind # OperationPlan

Consistent ==
  /\ saved \in [TasksOf(RunCompany) -> TaskStates]
  /\ Closed(saved)
  /\ DOMAIN server = Servers
  /\ \A s \in Servers : Holds(server[s])

DiskTypeOK ==
  /\ files \in [Files -> {"absent", "torn", "whole"}]
  /\ report \in {"none", "passed", "failed"}
  /\ acked \subseteq Files
  /\ crashes \in 0 .. MaxCrashes

IInv == Consistent /\ DiskTypeOK

LEMMA RequiresOfKind == \A k \in Kinds : Requires[k] = LOCAL_ROUTES[k].requires
BY OwnKinds DEF Requires

LEMMA IInvImplies == IInv => TypeOK /\ SavedRunClosed
<1>1. ASSUME IInv PROVE TypeOK
  BY <1>1 DEF IInv, Consistent, DiskTypeOK, Holds, TypeOK
<1>2. ASSUME IInv PROVE SavedRunClosed
  BY <1>2, RequiresOfKind DEF IInv, Consistent, Closed, SavedRunClosed
<1> QED
  BY <1>1, <1>2

(* A closed run that bears a call is closed when the call is recorded.     *)
LEMMA SaveKeepsClosed ==
  ASSUME NEW call \in RunCalls, call.kind # OperationPlan,
         NEW view \in [TasksOf(RunCompany) -> TaskStates],
         NEW status \in Statuses, Closed(view), Bears(view, call)
  PROVE  /\ AfterTool(view, call, status) \in [TasksOf(RunCompany) -> TaskStates]
         /\ \A c \in TasksOf(RunCompany) :
              AfterTool(view, call, status)[c].refs =
                IF c = call.category THEN view[c].refs \cup {call.kind}
                                     ELSE view[c].refs
         /\ Closed(AfterTool(view, call, status))
<1> DEFINE T == TasksOf(RunCompany)
           u == AfterTool(view, call, status)
<1>1. call.category \in T /\ call.kind \in RefKinds
  BY CallKinds, RecordedKind
<1>2. u = [view EXCEPT ![call.category] = task_with_result(@, call.kind, status)]
  BY DEF AfterTool
<1>3. u \in [T -> TaskStates]
  BY <1>1, <1>2, RecordOnTask
<1>4. ASSUME NEW c \in T
      PROVE  u[c].refs = IF c = call.category
                         THEN view[c].refs \cup {call.kind}
                         ELSE view[c].refs
  <2>1. u[c] = IF c = call.category
               THEN task_with_result(view[c], call.kind, status)
               ELSE view[c]
    BY <1>1, <1>2
  <2> QED
    BY <2>1 DEF task_with_result
<1>5. DOMAIN u = T /\ DOMAIN view = T
  BY <1>3
<1>6. \A k : Recorded(u, k) <=> Recorded(view, k) \/ k = call.kind
  BY <1>1, <1>4, <1>5 DEF Recorded
<1> HIDE DEF u
<1>7. ASSUME NEW k \in Kinds, Recorded(u, k),
             NEW needed \in LOCAL_ROUTES[k].requires
      PROVE  Recorded(u, needed)
  <2>1. CASE Recorded(view, k)
    BY <1>6, <1>7, <2>1 DEF Closed
  <2>2. CASE k = call.kind
    <3>1. call \in Tools /\ call.needs = LOCAL_ROUTES[k].requires
      BY <2>2, CallKinds, OwnKinds DEF RecordsRoute, HonorsRoute
    <3>2. Recorded(view, needed)
      BY <3>1, <1>7 DEF Bears, Callable
    <3> QED
      BY <3>2, <1>6
  <2> QED
    BY <2>1, <2>2, <1>6, <1>7
<1>8. Closed(u)
  BY <1>7 DEF Closed
<1> QED
  BY <1>3, <1>4, <1>8 DEF u

-----------------------------------------------------------------------------
(* One server's step leaves the others alone. *)
LEMMA OtherServers ==
  ASSUME NEW s \in Servers, NEW held, DOMAIN server = Servers,
         server' = [server EXCEPT ![s] = held],
         \A t \in Servers : Holds(server[t]), Holds(held)
  PROVE  DOMAIN server' = Servers /\ \A t \in Servers : Holds(server'[t])
<1>1. DOMAIN server' = Servers
  OBVIOUS
<1>2. \A t \in Servers : server'[t] = IF t = s THEN held ELSE server[t]
  OBVIOUS
<1> QED
  BY <1>1, <1>2

LEMMA InitIInv == Init => IInv
<1> SUFFICES ASSUME Init PROVE IInv
  OBVIOUS
<1>1. saved \in [TasksOf(RunCompany) -> TaskStates]
  BY DEF Init, Planned, TaskStates, Statuses
<1>2. \A k : ~ Recorded(saved, k)
  BY DEF Init, Planned, Recorded
<1>3. Closed(saved)
  BY <1>2 DEF Closed
<1>4. DOMAIN server = Servers /\ \A s \in Servers : Holds(server[s])
  BY DEF Init, Holds
<1>5. DiskTypeOK
  BY StoreAssumption DEF Init, DiskTypeOK
<1> QED
  BY <1>1, <1>3, <1>4, <1>5 DEF IInv, Consistent

LEMMA LoadKeeps ==
  ASSUME IInv, NEW s \in Servers, NEW call \in RunCalls, Load(s, call)
  PROVE  Consistent'
<1> DEFINE held == Serving("loaded", call, saved, StatusAfter(call))
<1>1. server' = [server EXCEPT ![s] = held] /\ saved' = saved
  BY DEF Load
<1>2. call \in Tools => Callable(saved, call)
  <2>1. SUFFICES ASSUME call \in Tools PROVE Callable(saved, call)
    OBVIOUS
  <2>2. call.kind \in Kinds
    BY <2>1, HandlersHonorRoutes DEF HonorsRoute
  <2>3. Accepts(saved, call)
    BY DEF Load
  <2> QED
    BY <2>2, <2>3, OwnKinds DEF Accepts
<1>3. Holds(held)
  BY <1>2 DEF IInv, Consistent, Serving, StatusAfter, Statuses, Holds, Bears
<1> HIDE DEF held
<1>4. DOMAIN server' = Servers /\ \A t \in Servers : Holds(server'[t])
  BY <1>1, <1>3, OtherServers DEF IInv, Consistent
<1> QED
  BY <1>1, <1>4 DEF IInv, Consistent

(* A busy server holds a run and a call. *)
LEMMA BusyHolds ==
  ASSUME IInv, NEW s \in Servers, server[s].pc # "idle"
  PROVE  /\ server[s].pc \in {"loaded", "writing", "written"}
         /\ server[s].call \in RunCalls
         /\ server[s].view \in [TasksOf(RunCompany) -> TaskStates]
         /\ server[s].status \in Statuses
         /\ Closed(server[s].view)
         /\ Bears(server[s].view, server[s].call)
         /\ server[s].pc = "written" => server[s].call.kind # OperationPlan
BY DEF IInv, Consistent, Holds, NoCall

(* A server that is done, with or without a result. *)
LEMMA StopKeeps ==
  ASSUME IInv, NEW s \in Servers,
         server' = [server EXCEPT ![s] = NoCall], UNCHANGED saved
  PROVE  Consistent'
<1>1. Holds(NoCall)
  BY DEF Holds
<1>2. DOMAIN server' = Servers /\ \A t \in Servers : Holds(server'[t])
  BY <1>1, OtherServers DEF IInv, Consistent
<1> QED
  BY <1>2 DEF IInv, Consistent

(* A server that goes on with its call. *)
LEMMA ProgressKeeps ==
  ASSUME IInv, NEW s \in Servers, server[s].pc # "idle",
         NEW pc \in {"writing", "written"}, NEW status \in Statuses,
         \/ server' = [server EXCEPT ![s].pc = pc]
         \/ server' = [server EXCEPT ![s].pc = pc, ![s].status = status],
         pc = "written" => server[s].call.kind # OperationPlan,
         UNCHANGED saved
  PROVE  Consistent'
<1>1. CASE server' = [server EXCEPT ![s].pc = pc]
  <2> DEFINE held == [server[s] EXCEPT !.pc = pc]
  <2>1. server' = [server EXCEPT ![s] = held]
    BY <1>1
  <2>2. Holds(held)
    BY BusyHolds DEF Holds
  <2> HIDE DEF held
  <2> QED
    BY <2>1, <2>2, OtherServers DEF IInv, Consistent
<1>2. CASE server' = [server EXCEPT ![s].pc = pc, ![s].status = status]
  <2> DEFINE held == [server[s] EXCEPT !.pc = pc, !.status = status]
  <2>1. server' = [server EXCEPT ![s] = held]
    BY <1>2
  <2>2. Holds(held)
    BY BusyHolds DEF Holds
  <2> HIDE DEF held
  <2> QED
    BY <2>1, <2>2, OtherServers DEF IInv, Consistent
<1> QED
  BY <1>1, <1>2

(* The run and what the servers hold, action by action. *)
LEMMA StepKeepsConsistent == IInv /\ [Next]_vars => Consistent'
<1> SUFFICES ASSUME IInv, [Next]_vars PROVE Consistent'
  OBVIOUS
<1>1. ASSUME NEW s \in Servers, NEW call \in RunCalls, Load(s, call)
      PROVE  Consistent'
  BY <1>1, LoadKeeps
<1>2. ASSUME NEW s \in Servers, Refuse(s) PROVE Consistent'
  BY <1>2, StopKeeps DEF Refuse
<1>3. ASSUME NEW s \in Servers, FindEvidence(s) PROVE Consistent'
  <2>1. server[s].pc # "idle" /\ server[s].call.kind # OperationPlan
    BY <1>3, OwnKinds DEF FindEvidence
  <2>2. server[s].status \in Statuses
    BY <2>1, BusyHolds
  <2> QED
    BY <1>3, <2>1, <2>2, ProgressKeeps DEF FindEvidence
<1>4. ASSUME NEW s \in Servers, BeginWrite(s) PROVE Consistent'
  <2>1. server[s].pc # "idle"
    BY <1>4 DEF BeginWrite
  <2>2. server[s].status \in Statuses
    BY <2>1, BusyHolds
  <2> QED
    BY <1>4, <2>1, <2>2, ProgressKeeps DEF BeginWrite
<1>5. ASSUME NEW s \in Servers, EndWrite(s) PROVE Consistent'
  <2>1. server[s].pc # "idle" /\ UNCHANGED saved
    BY <1>5 DEF EndWrite
  <2>2. server[s].status \in Statuses /\ "blocked" \in Statuses
    BY <2>1, BusyHolds DEF Statuses
  <2>3. Review # OperationPlan
    BY OwnKinds
  <2>4. CASE server' = [server EXCEPT ![s] = NoCall]
    BY <2>1, <2>4, StopKeeps
  <2>5. CASE /\ server[s].call.kind # OperationPlan
             /\ \/ server' = [server EXCEPT ![s].pc = "written"]
                \/ server' = [server EXCEPT ![s].pc = "written",
                                            ![s].status = "blocked"]
    BY <2>1, <2>2, <2>5, ProgressKeeps
  <2> QED
    BY <1>5, <2>3, <2>4, <2>5 DEF EndWrite
<1>6. ASSUME NEW s \in Servers, Save(s) PROVE Consistent'
  <2>1. server[s].pc # "idle" /\ server[s].pc = "written"
    BY <1>6 DEF Save
  <2>2. /\ server[s].call \in RunCalls
        /\ server[s].call.kind # OperationPlan
        /\ server[s].view \in [TasksOf(RunCompany) -> TaskStates]
        /\ server[s].status \in Statuses
        /\ Closed(server[s].view)
        /\ Bears(server[s].view, server[s].call)
    BY <2>1, BusyHolds
  <2>3. saved' = AfterTool(server[s].view, server[s].call, server[s].status)
    BY <1>6 DEF Save
  <2>4. saved' \in [TasksOf(RunCompany) -> TaskStates] /\ Closed(saved')
    BY <2>2, <2>3, SaveKeepsClosed
  <2>5. Holds(NoCall)
    BY DEF Holds
  <2>6. DOMAIN server' = Servers /\ \A t \in Servers : Holds(server'[t])
    BY <1>6, <2>5, OtherServers DEF Save, IInv, Consistent
  <2> QED
    BY <2>4, <2>6 DEF Consistent, Closed, Recorded
<1>7. ASSUME NEW s \in Servers, Crash(s) PROVE Consistent'
  BY <1>7, StopKeeps DEF Crash
<1>8. CASE UNCHANGED vars
  BY <1>8 DEF vars, IInv, Consistent, Closed, Recorded
<1> QED
  BY <1>1, <1>2, <1>3, <1>4, <1>5, <1>6, <1>7, <1>8 DEF Next, ServerStep

LEMMA StepKeepsDisk == IInv /\ [Next]_vars => DiskTypeOK'
<1> SUFFICES ASSUME IInv, [Next]_vars PROVE DiskTypeOK'
  OBVIOUS
<1>0. DiskTypeOK
  BY DEF IInv
<1>1. ASSUME NEW s \in Servers, NEW call \in RunCalls, Load(s, call)
      PROVE  DiskTypeOK'
  BY <1>0, <1>1 DEF Load, DiskTypeOK
<1>2. ASSUME NEW s \in Servers, Refuse(s) \/ FindEvidence(s) PROVE DiskTypeOK'
  BY <1>0, <1>2 DEF Refuse, FindEvidence, DiskTypeOK
<1>3. ASSUME NEW s \in Servers, BeginWrite(s) \/ EndWrite(s) PROVE DiskTypeOK'
  BY <1>0, <1>3 DEF BeginWrite, EndWrite, DiskTypeOK
<1>4. ASSUME NEW s \in Servers, Save(s) PROVE DiskTypeOK'
  <2>1. FileOf(server[s].call) \in Files
    BY <1>4, BusyHolds, CallKinds DEF Save
  <2> QED
    BY <1>0, <1>4, <2>1 DEF Save, DiskTypeOK
<1>5. ASSUME NEW s \in Servers, Crash(s) PROVE DiskTypeOK'
  BY <1>0, <1>5, StoreAssumption DEF Crash, DiskTypeOK
<1>6. CASE UNCHANGED vars
  BY <1>0, <1>6 DEF vars, DiskTypeOK
<1> QED
  BY <1>1, <1>2, <1>3, <1>4, <1>5, <1>6 DEF Next, ServerStep

LEMMA AlwaysIInv == Spec => []IInv
<1>1. Init => IInv
  BY InitIInv
<1>2. IInv /\ [Next]_vars => IInv'
  BY StepKeepsConsistent, StepKeepsDisk DEF IInv
<1> QED
  BY <1>1, <1>2, PTL DEF Spec

(* The store stays well typed: every save is a run, and only calls that    *)
(* record a result get as far as saving one.                               *)
THEOREM StoreTypeCorrect == Spec => []TypeOK
BY AlwaysIInv, IInvImplies, PTL

(* For any number of servers and of kills: however the saves overwrite     *)
(* each other, the run on disk never has a tool's result without the       *)
(* results that it rests on.                                               *)
THEOREM SavedRunAlwaysClosed == Spec => []SavedRunClosed
BY AlwaysIInv, IInvImplies, PTL

-----------------------------------------------------------------------------
(* Any number of servers: the files of recorded results.  A file is safe   *)
(* when it is whole, or torn by a kill or by a server that is writing it.  *)
(* What a view has recorded will be recorded again when the view is saved, *)
(* so the files of every view are held to this too.                        *)
Safe(f) ==
  /\ files[f] # "absent"
  /\ \/ files[f] = "whole"
     \/ crashes > 0
     \/ \E s \in Servers : server[s].pc = "writing" /\ FileOf(server[s].call) = f

SafeFiles == {f \in Files : Safe(f)}

SafeView(held, safe) ==
  held.pc # "idle" =>
    /\ \A f \in Files : f[2] \in held.view[f[1]].refs => f \in safe
    /\ held.pc \in {"writing", "written"} => FileOf(held.call) \in safe

SafeInv ==
  /\ SavedFiles \subseteq SafeFiles
  /\ \A s \in Servers : SafeView(server[s], SafeFiles)

(* A file of the run is the file of a result of a task. *)
LEMMA FileOfTask ==
  ASSUME NEW f \in Files
  PROVE  f[1] \in TasksOf(RunCompany) /\ f = << f[1], f[2] >>
<1>1. PICK call \in RunCalls : f = FileOf(call)
  BY DEF Files
<1>2. f = << call.category, call.kind >>
  BY <1>1 DEF FileOf
<1> QED
  BY <1>2, CallKinds

(* What is recorded after a save was recorded in the view, or is what the  *)
(* call records.                                                           *)
LEMMA RecordedAfter ==
  ASSUME NEW call \in RunCalls, call.kind # OperationPlan,
         NEW view \in [TasksOf(RunCompany) -> TaskStates],
         NEW status \in Statuses, Closed(view), Bears(view, call),
         NEW after, after = AfterTool(view, call, status),
         NEW f \in Files, f[2] \in after[f[1]].refs
  PROVE  f[2] \in view[f[1]].refs \/ f = FileOf(call)
<1>1. f[1] \in TasksOf(RunCompany) /\ f = << f[1], f[2] >>
  BY FileOfTask
<1>2. \A c \in TasksOf(RunCompany) :
        AfterTool(view, call, status)[c].refs =
          IF c = call.category THEN view[c].refs \cup {call.kind}
                               ELSE view[c].refs
  BY SaveKeepsClosed, Zenon
<1>3. after[f[1]].refs = IF f[1] = call.category
                         THEN view[f[1]].refs \cup {call.kind}
                         ELSE view[f[1]].refs
  BY <1>1, <1>2
<1> QED
  BY <1>1, <1>3 DEF FileOf

(* What one server does, the others keep. *)
LEMMA StepOfOne ==
  ASSUME IInv, NEW s \in Servers, ServerStep(s) \/ Crash(s)
  PROVE  \A x \in Servers : x # s => server'[x] = server[x]
<1>1. DOMAIN server = Servers
  BY DEF IInv, Consistent
<1> QED
  BY <1>1 DEF ServerStep, Load, Refuse, FindEvidence, BeginWrite, EndWrite,
              Save, Crash

(* A server that goes on keeps its call and its view. *)
LEMMA GoesOn ==
  ASSUME IInv, NEW s \in Servers,
         FindEvidence(s) \/ BeginWrite(s) \/ EndWrite(s)
  PROVE  \/ server'[s] = NoCall /\ ~ BeginWrite(s)
         \/ /\ server'[s].call = server[s].call
            /\ server'[s].view = server[s].view
            /\ server'[s].pc \in {"writing", "written"}
            /\ BeginWrite(s) => server'[s].pc = "writing"
<1>0. DOMAIN server = Servers /\ server[s].pc # "idle"
  BY DEF IInv, Consistent, FindEvidence, BeginWrite, EndWrite
<1>1. ASSUME NEW pc \in {"writing", "written"},
             NEW held, held = server[s],
             NEW next, next = server'[s],
             \/ next = [held EXCEPT !.pc = pc]
             \/ next = [held EXCEPT !.pc = pc, !.status = "blocked"]
      PROVE  /\ next.call = held.call
             /\ next.view = held.view
             /\ next.pc = pc
  <2>1. held.pc \in {"loaded", "writing", "written"} /\ held.call \in RunCalls
    BY <1>0, <1>1, BusyHolds
  <2>2. CASE next = [held EXCEPT !.pc = pc]
    BY <2>1, <2>2
  <2>3. CASE next = [held EXCEPT !.pc = pc, !.status = "blocked"]
    BY <2>1, <2>3
  <2> QED
    BY <1>1, <2>2, <2>3
<1>2. CASE FindEvidence(s)
  <2>1. server'[s] = [server[s] EXCEPT !.pc = "written"] /\ ~ BeginWrite(s)
    BY <1>0, <1>2 DEF FindEvidence, BeginWrite
  <2> QED
    BY <1>1, <2>1
<1>3. CASE BeginWrite(s)
  <2>1. server'[s] = [server[s] EXCEPT !.pc = "writing"]
    BY <1>0, <1>3 DEF BeginWrite
  <2> QED
    BY <1>1, <2>1
<1>4. CASE EndWrite(s)
  <2>1. /\ ~ BeginWrite(s)
        /\ \/ server'[s] = NoCall
           \/ server'[s] = [server[s] EXCEPT !.pc = "written"]
           \/ server'[s] = [server[s] EXCEPT !.pc = "written",
                                             !.status = "blocked"]
    BY <1>0, <1>4 DEF EndWrite, BeginWrite
  <2> QED
    BY <1>1, <2>1
<1> QED
  BY <1>2, <1>3, <1>4

(* A file that is safe stays safe. *)
LEMMA SafeStays ==
  ASSUME IInv, NEW s \in Servers, ServerStep(s) \/ Crash(s),
         NEW f \in Files, Safe(f)
  PROVE  Safe(f)'
<1>1. /\ files \in [Files -> {"absent", "torn", "whole"}]
      /\ crashes \in Nat /\ DOMAIN server = Servers
  BY StoreAssumption DEF IInv, DiskTypeOK, Consistent
<1>2. files'[f] # "absent"
  BY <1>1 DEF Safe, ServerStep, Load, Refuse, FindEvidence, BeginWrite,
              EndWrite, Save, Crash
<1>3. crashes' > 0 \/ (crashes' = crashes /\ ~ Crash(s))
  <2>1. CASE Crash(s)
    <3>1. crashes' = crashes + 1
      BY <2>1 DEF Crash
    <3> QED
      BY <1>1, <3>1
  <2>2. CASE ServerStep(s)
    <3>1. crashes' = crashes
      BY <2>2 DEF ServerStep, Load, Refuse, FindEvidence, BeginWrite,
                  EndWrite, Save
    <3> QED
      BY <1>1, <3>1, <2>1
  <2> QED
    BY <2>1, <2>2
<1>4. CASE crashes > 0 \/ Crash(s)
  BY <1>2, <1>3, <1>4 DEF Safe
<1>5. CASE files[f] = "whole" /\ ServerStep(s)
  <2>1. CASE BeginWrite(s) /\ FileOf(server[s].call) = f
    <3>1. server'[s].pc = "writing" /\ server'[s].call = server[s].call
      BY <2>1, GoesOn
    <3> QED
      BY <1>2, <2>1, <3>1 DEF Safe, FileOf
  <2>2. CASE ~ (BeginWrite(s) /\ FileOf(server[s].call) = f)
    <3>1. files'[f] = "whole"
      BY <1>1, <1>5, <2>2
         DEF ServerStep, Load, Refuse, FindEvidence, BeginWrite, EndWrite, Save
    <3> QED
      BY <3>1 DEF Safe
  <2> QED
    BY <2>1, <2>2
<1>6. ASSUME NEW x \in Servers, server[x].pc = "writing",
             FileOf(server[x].call) = f, ServerStep(s)
      PROVE  Safe(f)'
  <2>1. CASE x # s
    <3>1. server'[x] = server[x]
      BY <2>1, StepOfOne
    <3> QED
      BY <1>2, <1>6, <3>1 DEF Safe, FileOf
  <2>2. CASE x = s
    <3>1. EndWrite(s)
      BY <1>6, <2>2
         DEF ServerStep, Load, Refuse, FindEvidence, BeginWrite, Save
    <3>2. files'[f] = "whole"
      BY <1>1, <1>6, <2>2, <3>1 DEF EndWrite
    <3> QED
      BY <3>2 DEF Safe
  <2> QED
    BY <2>1, <2>2
<1> QED
  BY <1>4, <1>5, <1>6 DEF Safe

LEMMA SafeFilesStay ==
  ASSUME IInv, NEW s \in Servers, ServerStep(s) \/ Crash(s)
  PROVE  SafeFiles \subseteq SafeFiles'
<1>1. \A f \in Files : Safe(f) => Safe(f)'
  BY SafeStays
<1> QED
  BY <1>1 DEF SafeFiles

(* What a view rests on is safe from its load to its save. *)
LEMMA StepKeepsView ==
  ASSUME IInv, SafeInv, NEW s \in Servers, ServerStep(s) \/ Crash(s)
  PROVE  SafeView(server'[s], SafeFiles')
<1>1. DOMAIN server = Servers /\ SafeFiles \subseteq SafeFiles'
  BY SafeFilesStay DEF IInv, Consistent
<1>2. SafeView(server[s], SafeFiles')
  BY <1>1 DEF SafeInv, SafeView
<1>3. ASSUME server'[s] = NoCall PROVE SafeView(server'[s], SafeFiles')
  BY <1>3 DEF SafeView, NoCall
<1>4. ASSUME NEW call \in RunCalls, Load(s, call)
      PROVE  SafeView(server'[s], SafeFiles')
  <2>1. server'[s] = Serving("loaded", call, saved, StatusAfter(call))
    BY <1>1, <1>4 DEF Load
  <2>2. server'[s].view = saved /\ server'[s].pc = "loaded"
    BY <2>1 DEF Serving
  <2> QED
    BY <1>1, <2>2 DEF SafeInv, SavedFiles, SafeView
<1>5. CASE Refuse(s) \/ Save(s) \/ Crash(s)
  BY <1>1, <1>3, <1>5 DEF Refuse, Save, Crash
<1>6. CASE FindEvidence(s) \/ BeginWrite(s) \/ EndWrite(s)
  <2>1. server[s].pc # "idle"
    BY <1>6 DEF FindEvidence, BeginWrite, EndWrite
  <2>2. CASE server'[s] = NoCall
    BY <1>3, <2>2
  <2>3. CASE /\ server'[s].call = server[s].call
             /\ server'[s].view = server[s].view
             /\ BeginWrite(s) => server'[s].pc = "writing"
    <3>1. FileOf(server[s].call) \in Files
      BY <2>1, BusyHolds, CallKinds
    <3>2. FileOf(server[s].call) \in SafeFiles'
      <4>1. CASE FindEvidence(s) \/ EndWrite(s)
        <5>1. files'[FileOf(server[s].call)] = "whole"
          BY <3>1, <4>1 DEF FindEvidence, EndWrite, IInv, DiskTypeOK
        <5> QED
          BY <3>1, <5>1 DEF SafeFiles, Safe
      <4>2. CASE BeginWrite(s)
        <5>1. files'[FileOf(server[s].call)] = "torn"
          BY <3>1, <4>2 DEF BeginWrite, IInv, DiskTypeOK
        <5> QED
          BY <2>3, <3>1, <4>2, <5>1 DEF SafeFiles, Safe, FileOf
      <4> QED
        BY <1>6, <4>1, <4>2
    <3>3. FileOf(server'[s].call) = FileOf(server[s].call)
      BY <2>3 DEF FileOf
    <3> QED
      BY <1>2, <2>1, <2>3, <3>2, <3>3 DEF SafeView
  <2> QED
    BY <1>6, <2>2, <2>3, GoesOn
<1> QED
  BY <1>4, <1>5, <1>6 DEF ServerStep

(* A save records what its view has recorded and what its call wrote. *)
LEMMA StepKeepsSaved ==
  ASSUME IInv, SafeInv, NEW s \in Servers, ServerStep(s) \/ Crash(s)
  PROVE  SavedFiles' \subseteq SafeFiles'
<1>1. SafeFiles \subseteq SafeFiles'
  BY SafeFilesStay
<1>2. CASE Save(s)
  <2>1. /\ server[s].pc = "written" /\ server[s].pc # "idle"
        /\ saved' = AfterTool(server[s].view, server[s].call, server[s].status)
    BY <1>2 DEF Save
  <2>2. SafeView(server[s], SafeFiles)
    BY DEF SafeInv
  <2>3. /\ server[s].call \in RunCalls
        /\ server[s].call.kind # OperationPlan
        /\ server[s].view \in [TasksOf(RunCompany) -> TaskStates]
        /\ server[s].status \in Statuses
        /\ Closed(server[s].view)
        /\ Bears(server[s].view, server[s].call)
    BY <2>1, BusyHolds
  <2>4. ASSUME NEW f \in Files, f[2] \in saved'[f[1]].refs
        PROVE  f[2] \in server[s].view[f[1]].refs \/ f = FileOf(server[s].call)
    BY <2>1, <2>3, <2>4, RecordedAfter
  <2>5. ASSUME NEW f \in Files, f[2] \in saved'[f[1]].refs
        PROVE  f \in SafeFiles
    BY <2>1, <2>2, <2>4, <2>5 DEF SafeView
  <2> QED
    BY <1>1, <2>5 DEF SavedFiles
<1>3. CASE UNCHANGED saved
  BY <1>1, <1>3 DEF SafeInv, SavedFiles
<1> QED
  BY <1>2, <1>3 DEF ServerStep, Load, Refuse, FindEvidence, BeginWrite,
                    EndWrite, Crash

LEMMA StepKeepsSafe == ASSUME IInv, SafeInv, [Next]_vars PROVE SafeInv'
<1>1. ASSUME NEW s \in Servers, ServerStep(s) \/ Crash(s) PROVE SafeInv'
  <2>1. SavedFiles' \subseteq SafeFiles'
    BY <1>1, StepKeepsSaved
  <2>2. SafeView(server'[s], SafeFiles')
    BY <1>1, StepKeepsView
  <2>3. ASSUME NEW x \in Servers, x # s
        PROVE  SafeView(server'[x], SafeFiles')
    <3>1. server'[x] = server[x]
      BY <1>1, <2>3, StepOfOne
    <3>2. SafeFiles \subseteq SafeFiles'
      BY <1>1, SafeFilesStay
    <3>3. SafeView(server[x], SafeFiles)
      BY DEF SafeInv
    <3> QED
      BY <3>1, <3>2, <3>3 DEF SafeView
  <2> QED
    BY <2>1, <2>2, <2>3 DEF SafeInv
<1>2. CASE UNCHANGED vars
  <2>1. SafeFiles' = SafeFiles /\ SavedFiles' = SavedFiles /\ server' = server
    BY <1>2 DEF vars, SafeFiles, Safe, SavedFiles
  <2> QED
    BY <2>1 DEF SafeInv, SafeView
<1> QED
  BY <1>1, <1>2 DEF Next

(* For any number of servers and of kills: the files of every recorded     *)
(* result are whole, or a server is writing them again, or a kill tore     *)
(* them; they are never missing.                                           *)
THEOREM RecordedFilesAlwaysRestored == Spec => []RecordedFilesRestored
<1>1. Init => SafeInv
  <2>1. SUFFICES ASSUME Init PROVE SafeInv
    OBVIOUS
  <2>2. \A f \in Files : saved[f[1]].refs = {}
    BY <2>1, FileOfTask DEF Init, Planned
  <2>3. \A s \in Servers : server[s].pc = "idle"
    BY <2>1 DEF Init, NoCall
  <2> QED
    BY <2>2, <2>3 DEF SafeInv, SavedFiles, SafeView
<1>2. IInv /\ SafeInv /\ [Next]_vars => SafeInv'
  BY StepKeepsSafe
<1>3. IInv /\ SafeInv => RecordedFilesRestored
  BY DEF IInv, DiskTypeOK, SafeInv, SafeFiles, Safe, SavedFiles,
         RecordedFilesRestored
<1> QED
  BY <1>1, <1>2, <1>3, AlwaysIInv, PTL DEF Spec

-----------------------------------------------------------------------------
(* One server.  It holds the run that is on disk, so a save adds to it;    *)
(* and it writes only the files of results that the run does not have.     *)

OneServer == \A s, t \in Servers : s = t

(* What a busy server knows of the disk. *)
Ahead(held, run, disk) ==
  /\ held.view = run
  /\ held.pc \in {"loaded", "writing"} /\ held.call \in Tools =>
       held.call.kind \notin run[held.call.category].refs
  /\ held.pc = "writing" /\ held.call.kind = Evidence =>
       held.call.kind \notin run[held.call.category].refs
  /\ held.pc = "written" /\ held.call.kind # WorkResult =>
       disk[FileOf(held.call)] = "whole"

SoloInv ==
  /\ \A s \in Servers : server[s].pc # "idle" => Ahead(server[s], saved, files)
  /\ AckedIsSaved
  /\ RecordedFilesWhole

(* The files that a server has open belong to no recorded result.          *)
LEMMA WritesUnrecorded ==
  ASSUME IInv, SoloInv, NEW s \in Servers,
         \/ server[s].pc = "writing"
         \/ /\ server[s].pc = "loaded"
            /\ server[s].call.kind = Evidence =>
                 files[FileOf(server[s].call)] = "absent"
  PROVE  \A f \in SavedFiles : f[2] # WorkResult => f # FileOf(server[s].call)
<1> DEFINE call == server[s].call
<1>1. /\ server[s].pc # "idle" /\ call \in RunCalls
      /\ saved \in [TasksOf(RunCompany) -> TaskStates]
  BY BusyHolds DEF IInv, Consistent
<1>2. Ahead(server[s], saved, files)
  BY <1>1 DEF SoloInv
<1> HIDE DEF call
<1>3. SUFFICES ASSUME FileOf(call) \in SavedFiles, call.kind # WorkResult
               PROVE  FALSE
  BY DEF FileOf, call
<1>4. call.kind \in saved[call.category].refs /\ call.category \in TasksOf(RunCompany)
  BY <1>1, <1>3, CallKinds DEF SavedFiles, FileOf
<1>5. call.kind \in RefKinds
  BY <1>1, <1>4 DEF TaskStates
<1>6. call \in Tools \/ call.kind = Evidence
  BY <1>1, <1>3, <1>5, CallKinds, OwnKinds DEF RecordsRoute
<1>7. call \notin Tools
  BY <1>2, <1>4, BusyHolds, <1>1 DEF Ahead, call
<1>8. call.kind = Evidence
  BY <1>6, <1>7
<1>9. CASE server[s].pc = "writing"
  BY <1>2, <1>4, <1>8, <1>9 DEF Ahead, call
<1>10. CASE files[FileOf(call)] = "absent"
  <2>1. FileOf(call)[2] # WorkResult
    BY <1>3 DEF FileOf
  <2>2. files[FileOf(call)] = "whole"
    BY <1>3, <2>1 DEF SoloInv, RecordedFilesWhole
  <2> QED
    BY <1>10, <2>2
<1> QED
  BY <1>8, <1>9, <1>10 DEF call

LEMMA InitSolo == Init => SoloInv
<1> SUFFICES ASSUME Init PROVE SoloInv
  OBVIOUS
<1>1. \A s \in Servers : server[s].pc = "idle"
  BY DEF Init, NoCall
<1>2. SavedFiles = {}
  <2>1. SUFFICES ASSUME NEW f \in Files, f[2] \in saved[f[1]].refs PROVE FALSE
    BY DEF SavedFiles
  <2>2. PICK call \in RunCalls : f = FileOf(call)
    BY DEF Files
  <2>3. f[1] \in TasksOf(RunCompany)
    BY <2>2, CallKinds DEF FileOf
  <2> QED
    BY <2>1, <2>3 DEF Init, Planned
<1>3. AckedIsSaved
  BY DEF Init, AckedIsSaved
<1>4. RecordedFilesWhole
  BY <1>2 DEF RecordedFilesWhole
<1> QED
  BY <1>1, <1>3, <1>4 DEF SoloInv

(* A server that loads, stops or goes on, but leaves the disk alone.       *)
LEMMA QuietKeepsSolo ==
  ASSUME IInv, SoloInv, OneServer, NEW s \in Servers, NEW held,
         server' = [server EXCEPT ![s] = held],
         held.pc # "idle" => Ahead(held, saved, files),
         UNCHANGED << saved, files, acked >>
  PROVE  SoloInv'
<1>1. \A t \in Servers : server'[t] = held
  BY DEF OneServer, IInv, Consistent
<1>2. \A t \in Servers : server'[t].pc # "idle" => Ahead(server'[t], saved', files')
  BY <1>1
<1>3. AckedIsSaved' /\ RecordedFilesWhole'
  BY DEF SoloInv, AckedIsSaved, RecordedFilesWhole, SavedFiles
<1> QED
  BY <1>2, <1>3 DEF SoloInv

LEMMA StepKeepsSolo ==
  ASSUME OneServer, IInv, SoloInv, [Next]_vars
  PROVE  SoloInv'
<1>1. ASSUME NEW s \in Servers, NEW call \in RunCalls, Load(s, call)
      PROVE  SoloInv'
  <2> DEFINE held == Serving("loaded", call, saved, StatusAfter(call))
  <2>1. call \in Tools => Fresh(saved, call)
    <3>1. SUFFICES ASSUME call \in Tools PROVE Fresh(saved, call)
      OBVIOUS
    <3>2. call.kind \in Kinds
      BY <3>1, HandlersHonorRoutes DEF HonorsRoute
    <3>3. Accepts(saved, call)
      BY <1>1 DEF Load
    <3> QED
      BY <3>2, <3>3, OwnKinds DEF Accepts
  <2>2. Ahead(held, saved, files)
    BY <2>1 DEF Serving, Ahead, Fresh
  <2>3. server' = [server EXCEPT ![s] = held] /\ UNCHANGED << saved, files, acked >>
    BY <1>1 DEF Load
  <2> HIDE DEF held
  <2> QED
    BY <2>2, <2>3, QuietKeepsSolo
<1>2. ASSUME NEW s \in Servers, Refuse(s) \/ Crash(s) PROVE SoloInv'
  <2>1. server' = [server EXCEPT ![s] = NoCall] /\ UNCHANGED << saved, files, acked >>
    BY <1>2 DEF Refuse, Crash
  <2>2. NoCall.pc = "idle"
    BY DEF NoCall
  <2> QED
    BY <2>1, <2>2, QuietKeepsSolo
<1>3. ASSUME NEW s \in Servers, FindEvidence(s) PROVE SoloInv'
  <2> DEFINE held == [server[s] EXCEPT !.pc = "written"]
  <2>1. /\ server' = [server EXCEPT ![s] = held]
        /\ UNCHANGED << saved, files, acked >>
        /\ server[s].pc # "idle"
        /\ files[FileOf(server[s].call)] = "whole"
    BY <1>3 DEF FindEvidence
  <2>2. Ahead(server[s], saved, files)
    BY <2>1 DEF SoloInv
  <2>3. /\ held.view = server[s].view /\ held.call = server[s].call
        /\ held.pc = "written"
    BY <2>1, BusyHolds
  <2>4. Ahead(held, saved, files)
    BY <2>1, <2>2, <2>3 DEF Ahead
  <2> HIDE DEF held
  <2> QED
    BY <2>1, <2>4, QuietKeepsSolo
<1>4. ASSUME NEW s \in Servers, BeginWrite(s) PROVE SoloInv'
  <2> DEFINE held == [server[s] EXCEPT !.pc = "writing"]
  <2>1. /\ server' = [server EXCEPT ![s] = held]
        /\ UNCHANGED << saved, acked >>
        /\ server[s].pc = "loaded"
        /\ files' = [files EXCEPT ![FileOf(server[s].call)] = "torn"]
        /\ server[s].call.kind = Evidence =>
             files[FileOf(server[s].call)] = "absent"
    BY <1>4 DEF BeginWrite
  <2>2. Ahead(server[s], saved, files) /\ server[s].call \in RunCalls
    BY <2>1, BusyHolds DEF SoloInv
  <2>3. \A f \in SavedFiles : f[2] # WorkResult => f # FileOf(server[s].call)
    BY <2>1, WritesUnrecorded
  <2>4. /\ held.view = server[s].view /\ held.call = server[s].call
        /\ held.pc = "writing"
    BY <2>1, BusyHolds
  <2>5. server[s].call.kind = Evidence =>
          server[s].call.kind \notin saved[server[s].call.category].refs
    <3>1. SUFFICES ASSUME server[s].call.kind = Evidence,
                          server[s].call.kind \in saved[server[s].call.category].refs
                   PROVE  FALSE
      OBVIOUS
    <3>2. FileOf(server[s].call) \in SavedFiles
      BY <3>1, <2>2, CallKinds DEF SavedFiles, FileOf
    <3>3. FileOf(server[s].call)[2] # WorkResult
      BY <3>1, OwnKinds DEF FileOf
    <3> QED
      BY <2>3, <3>2, <3>3
  <2>6. Ahead(held, saved', files')
    BY <2>1, <2>2, <2>4, <2>5 DEF Ahead
  <2> HIDE DEF held
  <2>7. \A t \in Servers : server'[t] = held
    BY <2>1 DEF OneServer, IInv, Consistent
  <2>8. RecordedFilesWhole'
    <3>1. SavedFiles' = SavedFiles
      BY <2>1 DEF SavedFiles
    <3>2. \A f \in SavedFiles : f[2] # WorkResult => files'[f] = files[f]
      BY <2>1, <2>3 DEF SavedFiles, IInv, DiskTypeOK
    <3> QED
      BY <3>1, <3>2 DEF SoloInv, RecordedFilesWhole
  <2>9. AckedIsSaved'
    BY <2>1 DEF SoloInv, AckedIsSaved, SavedFiles
  <2> QED
    BY <2>6, <2>7, <2>8, <2>9 DEF SoloInv
<1>5. ASSUME NEW s \in Servers, EndWrite(s) PROVE SoloInv'
  <2> DEFINE call == server[s].call
  <2>1. /\ server[s].pc = "writing"
        /\ UNCHANGED << saved, acked >>
        /\ files' = [files EXCEPT ![FileOf(call)] = "whole"]
        /\ \/ server' = [server EXCEPT ![s] = NoCall]
           \/ server' = [server EXCEPT ![s].pc = "written"]
           \/ server' = [server EXCEPT ![s].pc = "written",
                                       ![s].status = "blocked"]
    BY <1>5 DEF EndWrite
  <2>2. Ahead(server[s], saved, files) /\ call \in RunCalls /\ FileOf(call) \in Files
    BY <2>1, BusyHolds, CallKinds DEF SoloInv
  <2>3. files'[FileOf(call)] = "whole"
    BY <2>1, <2>2 DEF IInv, DiskTypeOK
  <2>4. \A t \in Servers :
          \/ server'[t] = NoCall
          \/ /\ server'[t].pc = "written" /\ server'[t].call = call
             /\ server'[t].view = saved
    <3>1. \A t \in Servers : t = s
      BY DEF OneServer
    <3>2. server[s].view = saved
      BY <2>2 DEF Ahead
    <3>3. DOMAIN server = Servers
      BY DEF IInv, Consistent
    <3>4. CASE server' = [server EXCEPT ![s] = NoCall]
      BY <3>1, <3>3, <3>4
    <3>5. CASE server' = [server EXCEPT ![s].pc = "written"]
      <4> DEFINE held == [server[s] EXCEPT !.pc = "written"]
      <4>1. held.pc = "written" /\ held.call = call /\ held.view = saved
        BY <2>1, <3>2, BusyHolds
      <4>2. \A t \in Servers : server'[t] = held
        BY <3>1, <3>3, <3>5
      <4> QED
        BY <4>1, <4>2
    <3>6. CASE server' = [server EXCEPT ![s].pc = "written",
                                        ![s].status = "blocked"]
      <4> DEFINE held == [server[s] EXCEPT !.pc = "written", !.status = "blocked"]
      <4>1. held.pc = "written" /\ held.call = call /\ held.view = saved
        BY <2>1, <3>2, BusyHolds
      <4>2. \A t \in Servers : server'[t] = held
        BY <3>1, <3>3, <3>6
      <4> QED
        BY <4>1, <4>2
    <3> QED
      BY <2>1, <3>4, <3>5, <3>6
  <2> HIDE DEF call
  <2>5. \A t \in Servers : server'[t].pc # "idle" => Ahead(server'[t], saved', files')
    BY <2>1, <2>3, <2>4 DEF Ahead, NoCall
  <2>6. RecordedFilesWhole'
    <3>1. SavedFiles' = SavedFiles
      BY <2>1 DEF SavedFiles
    <3>2. \A f \in SavedFiles : files'[f] = files[f] \/ files'[f] = "whole"
      BY <2>1 DEF SavedFiles, IInv, DiskTypeOK
    <3> QED
      BY <3>1, <3>2 DEF SoloInv, RecordedFilesWhole
  <2>7. AckedIsSaved'
    BY <2>1 DEF SoloInv, AckedIsSaved, SavedFiles
  <2> QED
    BY <2>5, <2>6, <2>7 DEF SoloInv
<1>6. ASSUME NEW s \in Servers, Save(s) PROVE SoloInv'
  <2> DEFINE call == server[s].call
  <2>1. /\ server[s].pc = "written" /\ server[s].pc # "idle"
        /\ saved' = AfterTool(server[s].view, call, server[s].status)
        /\ acked' = acked \cup {FileOf(call)}
        /\ server' = [server EXCEPT ![s] = NoCall]
        /\ UNCHANGED files
    BY <1>6 DEF Save
  <2>2. Ahead(server[s], saved, files)
    BY <2>1 DEF SoloInv
  <2>3. call \in RunCalls /\ FileOf(call) \in Files
    BY <2>1, BusyHolds, CallKinds
  <2>4. \A c \in TasksOf(RunCompany) :
          saved'[c].refs = IF c = call.category THEN saved[c].refs \cup {call.kind}
                                                ELSE saved[c].refs
    <3>1. server[s].view = saved
      BY <2>2 DEF Ahead
    <3>2. /\ call.kind # OperationPlan
          /\ saved \in [TasksOf(RunCompany) -> TaskStates]
          /\ server[s].status \in Statuses
          /\ Closed(saved) /\ Bears(saved, call)
      BY <2>1, <3>1, BusyHolds
    <3>3. saved' = AfterTool(saved, call, server[s].status) /\ call \in RunCalls
      BY <2>1, <2>3, <3>1
    <3> DEFINE status == server[s].status
               after == AfterTool(saved, call, status)
    <3> HIDE DEF call, status
    <3>4. \A c \in TasksOf(RunCompany) :
            after[c].refs = IF c = call.category THEN saved[c].refs \cup {call.kind}
                                                 ELSE saved[c].refs
      BY <3>2, <3>3, SaveKeepsClosed, Zenon DEF status
    <3> HIDE DEF after
    <3> QED
      BY <3>3, <3>4 DEF after, status
  <2> HIDE DEF call
  <2>5. SavedFiles' = SavedFiles \cup {FileOf(call)}
    <3>1. ASSUME NEW f \in Files
          PROVE  f[2] \in saved'[f[1]].refs
                   <=> f[2] \in saved[f[1]].refs \/ f = FileOf(call)
      <4>1. PICK other \in RunCalls : f = FileOf(other)
        BY DEF Files
      <4>2. f = << other.category, other.kind >>
        BY <4>1 DEF FileOf
      <4>3. f[1] = other.category /\ f[2] = other.kind
        BY <4>2
      <4>4. f = FileOf(call) <=> f[1] = call.category /\ f[2] = call.kind
        BY <4>2, <4>3 DEF FileOf
      <4>5. f[1] \in TasksOf(RunCompany)
        BY <4>3, CallKinds
      <4>6. saved'[f[1]].refs = IF f[1] = call.category
                                THEN saved[f[1]].refs \cup {call.kind}
                                ELSE saved[f[1]].refs
        BY <2>4, <4>5
      <4> QED
        BY <4>4, <4>6
    <3> QED
      BY <3>1, <2>3 DEF SavedFiles
  <2>6. AckedIsSaved'
    BY <2>1, <2>5 DEF SoloInv, AckedIsSaved
  <2>7. call.kind # WorkResult => files[FileOf(call)] = "whole"
    BY <2>1, <2>2 DEF Ahead, call
  <2>8. RecordedFilesWhole'
    BY <2>1, <2>5, <2>7 DEF SoloInv, RecordedFilesWhole, FileOf
  <2>9. \A t \in Servers : server'[t].pc = "idle"
    BY <2>1 DEF OneServer, IInv, Consistent, NoCall
  <2> QED
    BY <2>6, <2>8, <2>9 DEF SoloInv
<1>7. CASE UNCHANGED vars
  BY <1>7 DEF vars, SoloInv, Ahead, AckedIsSaved, RecordedFilesWhole, SavedFiles
<1> QED
  BY <1>1, <1>2, <1>3, <1>4, <1>5, <1>6, <1>7 DEF Next, ServerStep

LEMMA AlwaysSolo == ASSUME OneServer PROVE Spec => []SoloInv
<1>1. Init => SoloInv
  BY InitSolo
<1>2. IInv /\ SoloInv /\ [Next]_vars => SoloInv'
  BY StepKeepsSolo
<1> QED
  BY <1>1, <1>2, AlwaysIInv, PTL DEF Spec

(* One server, killed any number of times: what a client was told is       *)
(* recorded is in every later run.                                         *)
THEOREM AckedIsAlwaysSaved == ASSUME OneServer PROVE Spec => []AckedIsSaved
<1>1. SoloInv => AckedIsSaved
  BY DEF SoloInv
<1> QED
  BY <1>1, AlwaysSolo, PTL

(* One server, killed any number of times: no kill tears the files of a    *)
(* recorded tool's result, because no call writes them again.              *)
THEOREM RecordedFilesAlwaysWhole ==
  ASSUME OneServer PROVE Spec => []RecordedFilesWhole
<1>1. SoloInv => RecordedFilesWhole
  BY DEF SoloInv
<1> QED
  BY <1>1, AlwaysSolo, PTL

-----------------------------------------------------------------------------
(* One server: what the QA report says.  From the end of its writing to    *)
(* the save, the server's status agrees with the report; a proposal is     *)
(* written only while the report has passed, and a plan, or the execution  *)
(* of one, only when the proposal is recorded.                             *)

Judged(held, run, said) ==
  held.pc # "idle" =>
    /\ held.call.kind \in {OperationPlan, Evidence} => Recorded(run, Proposal)
    /\ held.call.kind = Proposal /\ held.pc \in {"writing", "written"} =>
         said = "passed"
    /\ held.call.kind = Review =>
         IF held.pc = "written"
         THEN said # "none" /\ (held.status = "completed" <=> said = "passed")
         ELSE held.status = "completed"

PlanProposed(run, disk) ==
  \A f \in Files :
    f[2] = OperationPlan /\ disk[f] # "absent" => Recorded(run, Proposal)

ReviewInv ==
  /\ AtHome(saved)
  /\ PlanProposed(saved, files)
  /\ \A s \in Servers : Judged(server[s], saved, report)
  /\ "testing" \in TasksOf(RunCompany) => StatusTellsVerdict

LEMMA LandingKinds ==
  /\ {Review, Proposal} \subseteq Kinds
  /\ Review # Proposal /\ Review \notin {WorkResult, Evidence, OperationPlan}
  /\ Proposal \notin {WorkResult, Evidence, OperationPlan}
  /\ LOCAL_ROUTES[Review].category = "testing"
  /\ Review \in LOCAL_ROUTES[Proposal].requires
  /\ prepare_github_pages_deploy_execution_plan.kind = OperationPlan
  /\ Proposal \in prepare_github_pages_deploy_execution_plan.needs
BY DEF Review, Proposal, create_landing_qa_report, Handler,
       prepare_github_pages_deploy_proposal, WorkResult, Evidence,
       OperationPlan, Kinds, LOCAL_ROUTES, LocalRoute,
       prepare_github_pages_deploy_execution_plan

(* The plan is prepared by one tool, from the proposal. *)
LEMMA PlanCall ==
  ASSUME NEW call \in RunCalls, call.kind = OperationPlan
  PROVE  call = prepare_github_pages_deploy_execution_plan
<1>1. call \notin Tools
  BY CallKinds, OwnKinds DEF RecordsRoute, HonorsRoute
<1>2. \A c \in RecordedByHand : call # HandMade(c)
  BY OwnKinds DEF HandMade, Handler
<1>3. call # execute_github_pages_deploy
  BY OwnKinds DEF execute_github_pages_deploy, Handler
<1> QED
  BY <1>1, <1>2, <1>3 DEF RunCalls, Calls, DevOpsTools

(* Recording a result on the task of its call. *)
LEMMA RecordAdds ==
  ASSUME NEW call \in RunCalls, call.kind # OperationPlan,
         NEW run \in [TasksOf(RunCompany) -> TaskStates],
         NEW status \in Statuses,
         NEW after, after = AfterTool(run, call, status)
  PROVE  /\ after \in [TasksOf(RunCompany) -> TaskStates]
         /\ \A c \in TasksOf(RunCompany) :
              after[c] = IF c = call.category
                         THEN task_with_result(run[c], call.kind, status)
                         ELSE run[c]
         /\ \A k : Recorded(after, k) <=> Recorded(run, k) \/ k = call.kind
         /\ AtHome(run) => AtHome(after)
<1>1. PICK T, c, kind : /\ T = TasksOf(RunCompany)
                        /\ c = call.category /\ kind = call.kind
  OBVIOUS
<1>2. /\ c \in T /\ kind \in RefKinds
      /\ kind \in Kinds => LOCAL_ROUTES[kind].category = c
      /\ run \in [T -> TaskStates]
  BY <1>1, CallKinds, RecordedKind, OwnKinds DEF RecordsRoute, HonorsRoute
<1>3. after = [run EXCEPT ![c] = task_with_result(@, kind, status)]
  BY <1>1 DEF AfterTool
<1>4. after \in [T -> TaskStates] /\ (AtHome(run) => AtHome(after))
  <2>1. after \in [T -> TaskStates]
    BY <1>2, <1>3, RecordOnTask
  <2>2. ASSUME AtHome(run) PROVE AtHome(after)
    <3>1. /\ AtHome(run) /\ (kind \in Kinds => LOCAL_ROUTES[kind].category = c)
            => AtHome(after)
      BY <1>2, <1>3, RecordOnTask DEF AtHome
    <3> QED
      BY <1>2, <2>2, <3>1
  <2> QED
    BY <2>1, <2>2
<1>5. \A d \in T : after[d] = IF d = c THEN task_with_result(run[d], kind, status)
                                      ELSE run[d]
  BY <1>2, <1>3
<1>6. ASSUME NEW d \in T
      PROVE  after[d].refs = IF d = c THEN run[d].refs \cup {kind}
                                      ELSE run[d].refs
  <2>1. after[d] = IF d = c THEN task_with_result(run[d], kind, status) ELSE run[d]
    BY <1>5
  <2>2. task_with_result(run[d], kind, status).refs = run[d].refs \cup {kind}
    BY DEF task_with_result
  <2> QED
    BY <2>1, <2>2
<1>7. DOMAIN after = T /\ DOMAIN run = T
  BY <1>2, <1>4
<1>8. \A k : Recorded(after, k) <=> Recorded(run, k) \/ k = kind
  BY <1>2, <1>6, <1>7 DEF Recorded
<1> QED
  BY <1>1, <1>4, <1>5, <1>8

(* The only server saves the run on disk with one result more. *)
LEMMA SaveAdds ==
  ASSUME IInv, SoloInv, NEW s \in Servers, Save(s),
         NEW call, call = server[s].call, NEW status, status = server[s].status
  PROVE  /\ call \in RunCalls /\ call.kind # OperationPlan
         /\ Bears(saved, call)
         /\ \A c \in TasksOf(RunCompany) :
              saved'[c] = IF c = call.category
                          THEN task_with_result(saved[c], call.kind, status)
                          ELSE saved[c]
         /\ \A k : Recorded(saved', k) <=> Recorded(saved, k) \/ k = call.kind
         /\ AtHome(saved) => AtHome(saved')
<1>1. /\ server[s].pc = "written" /\ server[s].pc # "idle"
      /\ saved' = AfterTool(server[s].view, server[s].call, server[s].status)
  BY DEF Save
<1>2. server[s].view = saved
  BY <1>1 DEF SoloInv, Ahead
<1>3. /\ call \in RunCalls /\ call.kind # OperationPlan
      /\ saved \in [TasksOf(RunCompany) -> TaskStates]
      /\ status \in Statuses
      /\ Bears(saved, call)
  BY <1>1, <1>2, BusyHolds
<1>4. saved' = AfterTool(saved, call, status)
  BY <1>1, <1>2
<1>5. ASSUME NEW after, after = AfterTool(saved, call, status)
      PROVE  /\ \A c \in TasksOf(RunCompany) :
                  after[c] = IF c = call.category
                             THEN task_with_result(saved[c], call.kind, status)
                             ELSE saved[c]
             /\ \A k : Recorded(after, k) <=> Recorded(saved, k) \/ k = call.kind
             /\ AtHome(saved) => AtHome(after)
  <2>1. ASSUME NEW run, run = saved
        PROVE  /\ \A c \in TasksOf(RunCompany) :
                    after[c] = IF c = call.category
                               THEN task_with_result(run[c], call.kind, status)
                               ELSE run[c]
               /\ \A k : Recorded(after, k) <=> Recorded(run, k) \/ k = call.kind
               /\ AtHome(run) => AtHome(after)
    <3>1. /\ run \in [TasksOf(RunCompany) -> TaskStates]
          /\ after = AfterTool(run, call, status)
      BY <1>3, <1>5, <2>1
    <3>2. /\ call \in RunCalls /\ call.kind # OperationPlan
          /\ status \in Statuses
      BY <1>3
    <3> QED
      BY <3>1, <3>2, RecordAdds
  <2> QED
    BY <2>1
<1> QED
  BY <1>3, <1>4, <1>5

(* The file of a plan is written only when the proposal is recorded. *)
LEMMA StepKeepsPlanProposed ==
  ASSUME IInv, SoloInv, ReviewInv, NEW s \in Servers, ServerStep(s) \/ Crash(s)
  PROVE  PlanProposed(saved', files')
<1>1. CASE BeginWrite(s) \/ EndWrite(s)
  <2>1. server[s].pc # "idle" /\ UNCHANGED saved
    BY <1>1 DEF BeginWrite, EndWrite
  <2>2. server[s].call.kind = OperationPlan => Recorded(saved, Proposal)
    BY <2>1 DEF ReviewInv, Judged
  <2>3. ASSUME NEW f \in Files, f[2] = OperationPlan, files'[f] # "absent"
        PROVE  Recorded(saved, Proposal)
    <3>1. CASE f = FileOf(server[s].call)
      BY <2>2, <2>3, <3>1 DEF FileOf
    <3>2. CASE f # FileOf(server[s].call)
      <4>1. files'[f] = files[f]
        BY <1>1, <3>2 DEF BeginWrite, EndWrite, IInv, DiskTypeOK
      <4> QED
        BY <2>3, <4>1 DEF ReviewInv, PlanProposed
    <3> QED
      BY <3>1, <3>2
  <2> QED
    BY <2>1, <2>3 DEF PlanProposed
<1>2. CASE Save(s)
  <2>1. Recorded(saved, Proposal) => Recorded(saved', Proposal)
    BY <1>2, SaveAdds
  <2> QED
    BY <1>2, <2>1 DEF Save, ReviewInv, PlanProposed
<1>3. CASE UNCHANGED << saved, files >>
  BY <1>3 DEF ReviewInv, PlanProposed
<1> QED
  BY <1>1, <1>2, <1>3 DEF ServerStep, Load, Refuse, FindEvidence, Crash

(* What the handler has found when it loads the run. *)
LEMMA LoadJudged ==
  ASSUME IInv, ReviewInv, NEW s \in Servers, NEW call \in RunCalls, Load(s, call)
  PROVE  Judged(server'[s], saved, report')
<1>1. server'[s] = Serving("loaded", call, saved, StatusAfter(call))
  BY DEF Load, IInv, Consistent
<1>2. /\ server'[s].pc = "loaded" /\ server'[s].call = call
      /\ server'[s].status = StatusAfter(call)
  BY <1>1 DEF Serving
<1>3. Accepts(saved, call)
  BY DEF Load
<1>4. call.kind = Review => StatusAfter(call) = "completed"
  BY LandingKinds DEF StatusAfter
<1>5. ASSUME call.kind = OperationPlan PROVE Recorded(saved, Proposal)
  <2>1. call = prepare_github_pages_deploy_execution_plan
    BY <1>5, PlanCall
  <2>2. call \notin Tools
    BY <1>5, CallKinds, OwnKinds DEF RecordsRoute, HonorsRoute
  <2>3. Callable(saved, call)
    BY <1>3, <1>5, <2>2, OwnKinds DEF Accepts
  <2> QED
    BY <2>1, <2>3, LandingKinds DEF Callable
<1>6. ASSUME call.kind = Evidence PROVE Recorded(saved, Proposal)
  <2>1. Deploys(saved)
    <3>1. call \notin Tools
      BY <1>6, CallKinds, OwnKinds DEF RecordsRoute, HonorsRoute
    <3> QED
      BY <1>3, <1>6, <3>1, OwnKinds DEF Accepts
  <2> DEFINE plan == FileOf(prepare_github_pages_deploy_execution_plan)
  <2>2. files[plan] = "whole"
    BY <2>1 DEF Deploys
  <2>3. plan \in Files /\ plan[2] = OperationPlan
    <3>1. call.category = "github_pages"
      <4>1. call = execute_github_pages_deploy
        <5>1. call \notin Tools
          BY <1>6, CallKinds, OwnKinds DEF RecordsRoute, HonorsRoute
        <5>2. \A c \in RecordedByHand : call # HandMade(c)
          BY <1>6, OwnKinds DEF HandMade, Handler
        <5>3. call # prepare_github_pages_deploy_execution_plan
          BY <1>6, OwnKinds, LandingKinds
        <5> QED
          BY <5>1, <5>2, <5>3 DEF RunCalls, Calls, DevOpsTools
      <4> QED
        BY <4>1 DEF execute_github_pages_deploy, Handler
    <3>2. "github_pages" \in TasksOf(RunCompany)
      BY <3>1, CallKinds
    <3>3. prepare_github_pages_deploy_execution_plan \in RunCalls
      BY <3>2 DEF RunCalls, Calls, DevOpsTools, Handler,
                  prepare_github_pages_deploy_execution_plan
    <3> QED
      BY <3>3, LandingKinds DEF Files, FileOf
  <2> QED
    BY <2>2, <2>3 DEF ReviewInv, PlanProposed
<1> QED
  BY <1>2, <1>4, <1>5, <1>6 DEF Judged

LEMMA StepKeepsJudged ==
  ASSUME IInv, SoloInv, ReviewInv, NEW s \in Servers, ServerStep(s) \/ Crash(s)
  PROVE  Judged(server'[s], saved', report')
<1>1. DOMAIN server = Servers /\ Judged(server[s], saved, report)
  BY DEF IInv, Consistent, ReviewInv
<1>2. ASSUME NEW call \in RunCalls, Load(s, call)
      PROVE  Judged(server'[s], saved', report')
  <2>1. saved' = saved
    BY <1>2 DEF Load
  <2> QED
    BY <1>2, <2>1, LoadJudged
<1>3. ASSUME server'[s] = NoCall PROVE Judged(server'[s], saved', report')
  BY <1>3 DEF Judged, NoCall
<1>4. CASE Refuse(s) \/ Save(s) \/ Crash(s)
  BY <1>1, <1>3, <1>4 DEF Refuse, Save, Crash
<1>5. CASE FindEvidence(s)
  <2> DEFINE held == server[s]
             next == server'[s]
  <2>1. /\ next = [held EXCEPT !.pc = "written"]
        /\ held.pc # "idle" /\ held.call.kind = Evidence
        /\ UNCHANGED << saved, report >>
    BY <1>1, <1>5 DEF FindEvidence
  <2>2. next.call = held.call
    BY <2>1, BusyHolds
  <2> QED
    BY <1>1, <2>1, <2>2, LandingKinds, OwnKinds DEF Judged
<1>6. CASE BeginWrite(s)
  <2> DEFINE held == server[s]
             next == server'[s]
  <2>1. /\ next = [held EXCEPT !.pc = "writing"]
        /\ held.pc = "loaded" /\ held.pc # "idle"
        /\ held.call.kind = Proposal => report = "passed"
        /\ UNCHANGED << saved, report >>
    BY <1>1, <1>6 DEF BeginWrite, Refused
  <2>2. next.pc = "writing" /\ next.call = held.call /\ next.status = held.status
    BY <2>1, BusyHolds
  <2> HIDE DEF held, next
  <2> QED
    BY <1>1, <2>1, <2>2 DEF Judged, held, next
<1>7. CASE EndWrite(s)
  <2> DEFINE held == server[s]
             next == server'[s]
  <2>1. held.pc = "writing" /\ held.pc # "idle" /\ saved' = saved
    BY <1>7 DEF EndWrite
  <2>2. CASE held.call.kind = OperationPlan
    <3>1. next = NoCall
      BY <1>1, <1>7, <2>2, LandingKinds DEF EndWrite
    <3> QED
      BY <1>3, <3>1
  <2>3. CASE held.call.kind \notin {Review, OperationPlan}
    <3>1. next = [held EXCEPT !.pc = "written"] /\ report' = report
      BY <1>1, <1>7, <2>3 DEF EndWrite
    <3>2. next.pc = "written" /\ next.call = held.call
      BY <2>1, <3>1, BusyHolds
    <3> HIDE DEF held, next
    <3> QED
      BY <1>1, <2>1, <2>3, <3>1, <3>2 DEF Judged, held, next
  <2>4. CASE held.call.kind = Review
    <3>1. held.status = "completed"
      BY <1>1, <2>1, <2>4 DEF Judged
    <3>2. \/ report' = "passed" /\ next = [held EXCEPT !.pc = "written"]
          \/ /\ report' = "failed"
             /\ next = [held EXCEPT !.pc = "written", !.status = "blocked"]
      BY <1>1, <1>7, <2>4, LandingKinds DEF EndWrite
    <3>3. /\ next.pc = "written" /\ next.call = held.call
          /\ report' = "passed" => next.status = held.status
          /\ report' # "passed" => next.status = "blocked"
      <4>1. held.pc \in {"loaded", "writing", "written"} /\ held.call \in RunCalls
        BY <2>1, BusyHolds
      <4> HIDE DEF held, next
      <4>2. CASE report' = "passed" /\ next = [held EXCEPT !.pc = "written"]
        BY <4>1, <4>2
      <4>3. CASE /\ report' = "failed"
                 /\ next = [held EXCEPT !.pc = "written", !.status = "blocked"]
        BY <4>1, <4>3
      <4> QED
        BY <3>2, <4>2, <4>3
    <3>4. report' # "none" /\ (next.status = "completed" <=> report' = "passed")
      BY <3>1, <3>2, <3>3
    <3> HIDE DEF held, next
    <3> QED
      BY <2>4, <3>3, <3>4, LandingKinds DEF Judged, next
  <2> QED
    BY <2>2, <2>3, <2>4
<1> QED
  BY <1>2, <1>4, <1>5, <1>6, <1>7 DEF ServerStep

(* While the QA tool writes its report, the run has none. *)
LEMMA ReviewWrittenOnce ==
  ASSUME IInv, SoloInv, ReviewInv, NEW s \in Servers, EndWrite(s),
         server[s].call.kind = Review
  PROVE  /\ ~ Recorded(saved, Review)
         /\ "testing" \in TasksOf(RunCompany) => Review \notin saved["testing"].refs
<1>1. server[s].pc = "writing" /\ server[s].pc # "idle"
  BY DEF EndWrite
<1>2. server[s].call \in RunCalls /\ DOMAIN saved = TasksOf(RunCompany)
  BY <1>1, BusyHolds DEF IInv, Consistent
<1>3. server[s].call \in Tools /\ server[s].call.category = "testing"
  BY <1>2, CallKinds, LandingKinds DEF RecordsRoute, HonorsRoute
<1>4. Review \notin saved["testing"].refs
  <2>1. Ahead(server[s], saved, files)
    BY <1>1 DEF SoloInv
  <2> QED
    BY <1>1, <1>3, <2>1 DEF Ahead
<1>5. ASSUME NEW c \in DOMAIN saved, Review \in saved[c].refs PROVE FALSE
  <2>1. c = "testing"
    BY <1>5, LandingKinds DEF ReviewInv, AtHome
  <2> QED
    BY <1>4, <1>5, <2>1
<1> QED
  BY <1>4, <1>5 DEF Recorded

LEMMA StepKeepsStatus ==
  ASSUME IInv, SoloInv, ReviewInv, "testing" \in TasksOf(RunCompany),
         NEW s \in Servers, ServerStep(s) \/ Crash(s)
  PROVE  StatusTellsVerdict'
<1>0. StatusTellsVerdict
  BY DEF ReviewInv
<1>1. CASE UNCHANGED << saved, report >>
  BY <1>0, <1>1 DEF StatusTellsVerdict
<1>2. CASE EndWrite(s)
  <2>1. saved' = saved
    BY <1>2 DEF EndWrite
  <2>2. CASE server[s].call.kind # Review
    <3>1. report' = report
      BY <1>2, <2>2 DEF EndWrite
    <3> QED
      BY <1>0, <2>1, <3>1 DEF StatusTellsVerdict
  <2>3. CASE server[s].call.kind = Review
    <3>1. saved["testing"].refs # {Review}
      BY <1>2, <2>3, ReviewWrittenOnce
    <3> QED
      BY <2>1, <3>1 DEF StatusTellsVerdict
  <2> QED
    BY <2>2, <2>3
<1>3. CASE Save(s)
  <2>1. PICK call, status : call = server[s].call /\ status = server[s].status
    OBVIOUS
  <2>2. /\ call \in RunCalls
        /\ \A c \in TasksOf(RunCompany) :
             saved'[c] = IF c = call.category
                         THEN task_with_result(saved[c], call.kind, status)
                         ELSE saved[c]
    BY <1>3, <2>1, SaveAdds
  <2>3. report' = report /\ server[s].pc = "written"
    BY <1>3 DEF Save
  <2>4. CASE call.category # "testing"
    <3>1. saved'["testing"] = saved["testing"]
      BY <2>2, <2>4
    <3> QED
      BY <1>0, <2>3, <3>1 DEF StatusTellsVerdict
  <2>5. CASE call.category = "testing"
    <3>1. /\ saved'["testing"].status = status
          /\ saved'["testing"].refs = saved["testing"].refs \cup {call.kind}
      <4>1. saved'["testing"] = task_with_result(saved["testing"], call.kind, status)
        BY <2>2, <2>5
      <4> QED
        BY <4>1 DEF task_with_result
    <3>2. CASE call.kind # Review
      <4>1. saved'["testing"].refs # {Review}
        BY <3>1, <3>2
      <4> QED
        BY <4>1 DEF StatusTellsVerdict
    <3>3. CASE call.kind = Review
      <4>1. status = "completed" <=> report = "passed"
        BY <2>1, <2>3, <3>3 DEF ReviewInv, Judged
      <4> QED
        BY <2>3, <3>1, <4>1 DEF StatusTellsVerdict
    <3> QED
      BY <3>2, <3>3
  <2> QED
    BY <2>4, <2>5
<1> QED
  BY <1>1, <1>2, <1>3 DEF ServerStep, Load, Refuse, FindEvidence, BeginWrite, Crash

LEMMA StepKeepsReview ==
  ASSUME OneServer, IInv, SoloInv, ReviewInv, [Next]_vars
  PROVE  ReviewInv'
<1>1. ASSUME NEW s \in Servers, ServerStep(s) \/ Crash(s) PROVE ReviewInv'
  <2>1. AtHome(saved')
    <3>1. CASE Save(s)
      BY <3>1, SaveAdds DEF ReviewInv
    <3>2. CASE saved' = saved
      BY <3>2 DEF ReviewInv
    <3> QED
      BY <1>1, <3>1, <3>2 DEF ServerStep, Load, Refuse, FindEvidence,
                              BeginWrite, EndWrite, Crash
  <2>2. PlanProposed(saved', files')
    BY <1>1, StepKeepsPlanProposed
  <2>3. \A t \in Servers : Judged(server'[t], saved', report')
    <3>1. \A t \in Servers : t = s
      BY DEF OneServer
    <3>2. Judged(server'[s], saved', report')
      BY <1>1, StepKeepsJudged
    <3> QED
      BY <3>1, <3>2
  <2>4. "testing" \in TasksOf(RunCompany) => StatusTellsVerdict'
    BY <1>1, StepKeepsStatus
  <2> QED
    BY <2>1, <2>2, <2>3, <2>4 DEF ReviewInv
<1>2. CASE UNCHANGED vars
  BY <1>2 DEF vars, ReviewInv, StatusTellsVerdict
<1> QED
  BY <1>1, <1>2 DEF Next

LEMMA InitReview == Init => ReviewInv
<1> SUFFICES ASSUME Init PROVE ReviewInv
  OBVIOUS
<1>1. \A c \in TasksOf(RunCompany) : saved[c].refs = {}
  BY DEF Init, Planned
<1>2. DOMAIN saved = TasksOf(RunCompany)
  BY DEF Init
<1>3. \A s \in Servers : server[s].pc = "idle"
  BY DEF Init, NoCall
<1> QED
  BY <1>1, <1>2, <1>3 DEF Init, ReviewInv, AtHome, PlanProposed, Judged,
                          StatusTellsVerdict

LEMMA AlwaysReview == ASSUME OneServer PROVE Spec => []ReviewInv
<1>1. Init => ReviewInv
  BY InitReview
<1>2. IInv /\ SoloInv /\ ReviewInv /\ [Next]_vars => ReviewInv'
  BY StepKeepsReview
<1> QED
  BY <1>1, <1>2, AlwaysIInv, AlwaysSolo, PTL DEF Spec

(* One server, killed any number of times: the status of a testing task    *)
(* that has only the QA report agrees with what the report says, although  *)
(* the report is written before the run is saved.                          *)
THEOREM StatusAlwaysTellsVerdict ==
  ASSUME OneServer, "testing" \in TasksOf(RunCompany)
  PROVE  Spec => []StatusTellsVerdict
<1>1. ReviewInv => StatusTellsVerdict
  BY DEF ReviewInv
<1> QED
  BY <1>1, AlwaysReview, PTL

-----------------------------------------------------------------------------
(* One server: the run on disk is an evidence chain. *)

Kept    == {k \in Kinds \cup {Evidence} : Recorded(saved, k)}
Verdict == IF Recorded(saved, Review) THEN report ELSE "none"

(* Saving records at most one kind, whose prerequisites are recorded.      *)
LEMMA SaveRecords ==
  ASSUME IInv, SoloInv, ReviewInv, NEW s \in Servers, Save(s)
  PROVE  \/ Kept' = Kept /\ Verdict' = Verdict
         \/ \E k \in Kinds \cup {Evidence} :
              /\ k \notin Kept /\ Requires[k] \subseteq Kept
              /\ k = Proposal => Verdict = "passed"
              /\ Kept' = Kept \cup {k}
              /\ IF k = Review THEN Verdict' \in {"passed", "failed"}
                               ELSE Verdict' = Verdict
<1>1. PICK call, status, kind :
        call = server[s].call /\ status = server[s].status /\ kind = call.kind
  OBVIOUS
<1>2. /\ call \in RunCalls /\ kind # OperationPlan /\ Bears(saved, call)
      /\ \A k : Recorded(saved', k) <=> Recorded(saved, k) \/ k = kind
  BY <1>1, SaveAdds
<1>3. /\ report' = report /\ server[s].pc = "written"
      /\ report \in {"none", "passed", "failed"}
      /\ saved \in [TasksOf(RunCompany) -> TaskStates]
  BY DEF Save, IInv, Consistent, DiskTypeOK
<1>4. /\ kind = Evidence => Recorded(saved, Proposal)
      /\ kind = Proposal => report = "passed"
      /\ kind = Review => report # "none"
  BY <1>1, <1>3 DEF ReviewInv, Judged
<1>5. CASE kind = WorkResult \/ Recorded(saved, kind)
  <2>1. kind = WorkResult => kind \notin Kinds \cup {Evidence} /\ kind # Review
    BY OwnKinds
  <2>2. Kept' = Kept
    BY <1>2, <1>5, <2>1 DEF Kept
  <2>3. Verdict' = Verdict
    BY <1>2, <1>3, <1>5, <2>1 DEF Verdict
  <2> QED
    BY <2>2, <2>3
<1>6. CASE kind # WorkResult /\ ~ Recorded(saved, kind)
  <2>1. kind \in Kinds \cup {Evidence}
    BY <1>1, <1>2, <1>6, CallKinds DEF RecordsRoute, HonorsRoute
  <2>2. Kept' = Kept \cup {kind} /\ kind \notin Kept
    BY <1>2, <1>6, <2>1 DEF Kept
  <2>3. Requires[kind] \subseteq Kept
    <3>1. CASE kind = Evidence
      BY <1>4, <3>1, LandingKinds DEF Requires, Kept
    <3>2. CASE kind \in Kinds
      <4>1. call \in Tools /\ call.needs = LOCAL_ROUTES[kind].requires
        BY <1>1, <1>2, <3>2, CallKinds, OwnKinds DEF RecordsRoute, HonorsRoute
      <4>2. \A needed \in call.needs : Recorded(saved, needed)
        BY <1>2, <4>1 DEF Bears, Callable
      <4>3. \A needed \in call.needs : needed \in Kinds \cup {Evidence}
        <5>1. \A needed : Recorded(saved, needed) => needed \in RefKinds
          BY <1>3 DEF Recorded, TaskStates
        <5> QED
          BY <4>1, <4>2, <5>1, NoToolNeedsText DEF RefKinds
      <4> QED
        BY <3>2, <4>1, <4>2, <4>3, RequiresOfKind DEF Kept
    <3> QED
      BY <2>1, <3>1, <3>2
  <2>4. kind = Proposal => Verdict = "passed"
    <3>1. SUFFICES ASSUME kind = Proposal PROVE Verdict = "passed"
      OBVIOUS
    <3>2. Review \in Requires[kind]
      BY <3>1, LandingKinds, RequiresOfKind
    <3> QED
      BY <1>4, <2>3, <3>1, <3>2 DEF Kept, Verdict
  <2>5. IF kind = Review THEN Verdict' \in {"passed", "failed"}
                         ELSE Verdict' = Verdict
    BY <1>2, <1>3, <1>4 DEF Verdict
  <2> QED
    BY <2>1, <2>2, <2>3, <2>4, <2>5
<1> QED
  BY <1>5, <1>6

LEMMA StepKeepsChain ==
  ASSUME IInv, SoloInv, ReviewInv, [Next]_vars
  PROVE  [Chain!ChainNext]_(Chain!chain)
<1>1. ASSUME NEW s \in Servers, Save(s)
      PROVE  [Chain!ChainNext]_(Chain!chain)
  <2>1. CASE Kept' = Kept /\ Verdict' = Verdict
    BY <2>1 DEF Chain!chain, Kept, Verdict
  <2>2. ASSUME NEW k \in Kinds \cup {Evidence},
               k \notin Kept, Requires[k] \subseteq Kept,
               k = Proposal => Verdict = "passed",
               Kept' = Kept \cup {k},
               IF k = Review THEN Verdict' \in {"passed", "failed"}
                             ELSE Verdict' = Verdict
        PROVE  Chain!ChainNext
    <3>1. Chain!Record(k)
      BY <2>2 DEF Chain!Record, Chain!Ready, Kept, Verdict
    <3> QED
      BY <3>1 DEF Chain!ChainNext
  <2> QED
    BY <1>1, <2>1, <2>2, SaveRecords
<1>2. CASE saved' = saved /\ Verdict' = Verdict
  <2>1. Kept' = Kept
    BY <1>2 DEF Kept
  <2> QED
    BY <1>2, <2>1 DEF Chain!chain, Kept, Verdict
<1>3. CASE UNCHANGED << saved, report >>
  <2>1. Verdict' = Verdict
    BY <1>3 DEF Verdict
  <2> QED
    BY <1>2, <1>3, <2>1
<1>4. ASSUME NEW s \in Servers, EndWrite(s)
      PROVE  [Chain!ChainNext]_(Chain!chain)
  <2>1. saved' = saved /\ (server[s].call.kind # Review => report' = report)
    BY <1>4 DEF EndWrite
  <2>2. server[s].call.kind = Review => ~ Recorded(saved, Review)
    BY <1>4, ReviewWrittenOnce
  <2>3. Verdict' = Verdict
    BY <2>1, <2>2 DEF Verdict
  <2> QED
    BY <1>2, <2>1, <2>3
<1>5. ASSUME NEW s \in Servers,
             \/ \E call \in RunCalls : Load(s, call)
             \/ Refuse(s) \/ FindEvidence(s) \/ BeginWrite(s) \/ Crash(s)
      PROVE  UNCHANGED << saved, report >>
  BY <1>5 DEF Load, Refuse, FindEvidence, BeginWrite, Crash
<1>6. CASE UNCHANGED vars
  BY <1>3, <1>6 DEF vars
<1> QED
  BY <1>1, <1>3, <1>4, <1>5, <1>6 DEF Next, ServerStep

(* One server, killed any number of times: the run on disk is an evidence  *)
(* chain.  It records each kind once and after what the kind rests on, a   *)
(* verdict does not change once it is recorded, and the proposal is        *)
(* recorded only after a review that passed, although every result is on   *)
(* disk before the run refers to it.                                       *)
THEOREM StoreImplementsChain ==
  ASSUME OneServer PROVE Spec => ImplementsEvidenceChain
<1>1. Init => Chain!ChainInit
  <2>1. SUFFICES ASSUME Init PROVE Chain!ChainInit
    OBVIOUS
  <2>2. \A k : ~ Recorded(saved, k)
    BY <2>1 DEF Init, Planned, Recorded
  <2> QED
    BY <2>2 DEF Chain!ChainInit
<1>2. IInv /\ SoloInv /\ ReviewInv /\ [Next]_vars
        => [Chain!ChainNext]_(Chain!chain)
  BY StepKeepsChain
<1> QED
  BY <1>1, <1>2, AlwaysIInv, AlwaysSolo, AlwaysReview, PTL
     DEF Spec, ImplementsEvidenceChain, Chain!ChainSpec

(* What the abstract chain keeps, the run on disk keeps: no kill takes a   *)
(* recorded result back or changes a recorded verdict.                     *)
EC == INSTANCE EvidenceChainProofs WITH
  Kinds      <- Kinds \cup {Evidence},
  Deployment <- Evidence,
  recorded   <- {k \in Kinds \cup {Evidence} : Recorded(saved, k)},
  verdict    <- IF Recorded(saved, Review) THEN report ELSE "none"

LEMMA StoreChainAssumption == EC!ChainAssumption
<1>1. /\ Evidence \notin Kinds
      /\ Proposal \in Requires[Evidence]
      /\ Requires[Proposal] = LOCAL_ROUTES[Proposal].requires
  BY OwnKinds, LandingKinds DEF Requires
<1> QED
  BY <1>1, LandingKinds DEF EC!ChainAssumption

THEOREM StoreKeepsResults ==
  ASSUME OneServer PROVE Spec => Chain!NothingRetracted
<1>1. EC!ChainAssumption => (EC!ChainSpec => EC!NothingRetracted)
  BY EC!ChainKeepsResults
<1>2. EC!ChainSpec <=> Chain!ChainSpec
  BY PTL DEF EC!ChainSpec, Chain!ChainSpec, EC!ChainInit, Chain!ChainInit,
             EC!ChainNext, Chain!ChainNext, EC!Record, Chain!Record,
             EC!Ready, Chain!Ready, EC!chain, Chain!chain
<1>3. EC!NothingRetracted <=> Chain!NothingRetracted
  BY PTL DEF EC!NothingRetracted, Chain!NothingRetracted, EC!chain, Chain!chain
<1> QED
  BY <1>1, <1>2, <1>3, StoreChainAssumption, StoreImplementsChain, PTL
  DEF ImplementsEvidenceChain
=============================================================================
