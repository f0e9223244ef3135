-------------------------- MODULE RunStartupProofs --------------------------
(***************************************************************************)
(* For any number of servers, tasks, requests and crashes: a run that is   *)
(* saved has a committed work item for each of its tasks, the files of     *)
(* those items are whole or about to be written again, and an item is      *)
(* committed at most once for each attempt to create the run.              *)
(***************************************************************************)
EXTENDS RunStartup, FiniteSetTheorems, TLAPS

ItemCommitted(r, t) == ledger[<< r, t >>] > 0

Working ==
  [pc : {"granted", "writing", "written", "committed"},
   request : Requests, task : 1 .. NTasks]

Creates(s) == server[s].pc \in {"granted", "writing", "written", "committed"}

(* What a server has done when it saves the run: the items before the one  *)
(* it is at are committed, and all of them once it is through.             *)
CommittedSoFar(s) ==
  Creates(s) =>
    \A t \in 1 .. NTasks :
      t < server[s].task \/ server[s].pc = "committed" =>
        ItemCommitted(server[s].request, t)

IInv ==
  /\ TypeOK
  /\ RunCommitted
  /\ \A s \in Servers : CommittedSoFar(s)

-----------------------------------------------------------------------------
LEMMA InitInv == Init => IInv
<1> SUFFICES ASSUME Init PROVE IInv
  OBVIOUS
<1>1. TypeOK
  BY StartupAssumption DEF Init, TypeOK, States, Jobs, Items
<1>2. RunCommitted
  BY DEF Init, RunCommitted, NoRun
<1>3. ASSUME NEW s \in Servers PROVE CommittedSoFar(s)
  BY DEF Init, CommittedSoFar, Creates, Idle
<1> QED
  BY <1>1, <1>2, <1>3 DEF IInv

(* What a server at work on a run holds. *)
LEMMA AtWork ==
  ASSUME IInv, NEW s \in Servers, Creates(s)
  PROVE  /\ server[s] = [pc |-> server[s].pc, request |-> server[s].request,
                         task |-> server[s].task]
         /\ server[s].request \in Requests
         /\ server[s].task \in 1 .. NTasks
         /\ Item(s) \in Items
         /\ server[s] \in Working
  BY DEF Working, IInv, TypeOK, Jobs, Idle, Asking, Creates, Item, Items

(* Steps that start, end or give up the creation of a run.                 *)
LEMMA IdleStep ==
  ASSUME IInv, NEW s \in Servers, NEW job,
         \/ job \in {Idle, Asking}
         \/ \E r \in Requests : job = Creating(r),
         server' = [server EXCEPT ![s] = job],
         UNCHANGED << needsIntake, files, ledger >>
  PROVE  /\ server' \in [Servers -> Jobs]
         /\ \A x \in Servers : CommittedSoFar(x)'
<1>1. job \in Jobs
  BY StartupAssumption DEF Jobs, Creating
<1>2. server' \in [Servers -> Jobs]
  BY <1>1 DEF IInv, TypeOK
<1>3. ASSUME NEW x \in Servers PROVE CommittedSoFar(x)'
  <2>1. CASE x = s
    <3>1. server'[x] = job
      BY <2>1 DEF IInv, TypeOK
    <3> QED
      BY <3>1 DEF CommittedSoFar, Creates, Idle, Asking, Creating
  <2>2. CASE x # s
    <3>1. server'[x] = server[x]
      BY <2>2 DEF IInv, TypeOK
    <3> QED
      BY <3>1 DEF CommittedSoFar, Creates, ItemCommitted, IInv
  <2> QED
    BY <2>1, <2>2
<1> QED
  BY <1>2, <1>3

(* Steps of the creation before a grant is redeemed.                       *)
LEMMA WriteStep ==
  ASSUME IInv, NEW s \in Servers, OpenItem(s) \/ WriteItem(s)
  PROVE  IInv'
<1>1. PICK pc \in {"writing", "written"}, c \in {"torn", "whole"} :
        /\ server' = [server EXCEPT ![s].pc = pc]
        /\ files' = [files EXCEPT ![Item(s)] = c]
        /\ Creates(s) /\ server[s].pc # "committed"
        /\ UNCHANGED << needsIntake, state, ledger, crashes >>
  BY DEF OpenItem, WriteItem, At, Creates
<1>2. server'[s] = [pc |-> pc, request |-> server[s].request,
                    task |-> server[s].task]
  BY <1>1, AtWork DEF IInv, TypeOK
<1>3. server' \in [Servers -> Jobs]
  BY <1>1, <1>2, AtWork DEF IInv, TypeOK, Jobs
<1>4. TypeOK'
  BY <1>1, <1>3, AtWork DEF IInv, TypeOK
<1>5. RunCommitted'
  BY <1>1 DEF IInv, RunCommitted
<1>6. ASSUME NEW x \in Servers PROVE CommittedSoFar(x)'
  <2>1. CASE x = s
    BY <1>1, <1>2, <2>1 DEF IInv, CommittedSoFar, Creates, ItemCommitted
  <2>2. CASE x # s
    <3>1. server'[x] = server[x]
      BY <1>1, <2>2 DEF IInv, TypeOK
    <3> QED
      BY <1>1, <3>1 DEF IInv, CommittedSoFar, Creates, ItemCommitted
  <2> QED
    BY <2>1, <2>2
<1> QED
  BY <1>4, <1>5, <1>6 DEF IInv

(* What becomes of a job when its place, or its place and task, change.     *)
LEMMA JobUpdate ==
  ASSUME NEW job \in Working, NEW pc, NEW task
  PROVE  /\ [job EXCEPT !.pc = pc] =
              [pc |-> pc, request |-> job.request, task |-> job.task]
         /\ [job EXCEPT !.pc = pc, !.task = task] =
              [pc |-> pc, request |-> job.request, task |-> task]
<1>1. ASSUME NEW new, new = [job EXCEPT !.pc = pc, !.task = task]
      PROVE  new = [pc |-> pc, request |-> job.request, task |-> task]
  <2>1. new.pc = pc /\ new.request = job.request /\ new.task = task
    BY <1>1 DEF Working
  <2>2. /\ DOMAIN new = {"pc", "request", "task"}
        /\ new = [f \in DOMAIN new |-> new[f]]
    BY <1>1 DEF Working
  <2> QED
    BY <2>1, <2>2
<1>2. [job EXCEPT !.pc = pc] =
        [pc |-> pc, request |-> job.request, task |-> job.task]
  BY DEF Working
<1> QED
  BY <1>1, <1>2

(* Redeeming a grant commits the item that the server is at, and takes     *)
(* back no other.                                                          *)
LEMMA RedeemStep ==
  ASSUME IInv, NEW s \in Servers, RedeemGrant(s)
  PROVE  IInv'
<1>1. Creates(s) /\ server[s].pc = "written"
  BY DEF RedeemGrant, At, Creates
<1>a. /\ server[s] \in Working /\ Item(s) \in Items
      /\ server[s].request \in Requests
      /\ server[s].task \in 1 .. NTasks
  BY <1>1, AtWork
<1>2. /\ ledger' \in [Items -> Nat]
      /\ \A i \in Items : ledger[i] > 0 \/ i = Item(s) => ledger'[i] > 0
  BY <1>a DEF IInv, TypeOK, RedeemGrant
<1>3. PICK pc \in {"granted", "committed"}, task \in 1 .. NTasks :
        /\ server'[s] = [pc |-> pc, request |-> server[s].request,
                         task |-> task]
        /\ pc = "committed" => server[s].task = NTasks
        /\ task <= server[s].task + 1
  <2> DEFINE old == server[s]
  <2>1. CASE server[s].task = NTasks
    <3>1. server'[s] = [old EXCEPT !.pc = "committed"]
      BY <2>1 DEF IInv, TypeOK, RedeemGrant
    <3>2. server'[s] = [pc |-> "committed", request |-> server[s].request,
                        task |-> server[s].task]
      BY <1>a, <3>1, JobUpdate
    <3> QED
      BY <1>a, <2>1, <3>2
  <2>2. CASE server[s].task # NTasks
    <3>1. server'[s] = [old EXCEPT !.pc = "granted", !.task = @ + 1]
      BY <2>2 DEF IInv, TypeOK, RedeemGrant
    <3>2. server'[s] = [pc |-> "granted", request |-> server[s].request,
                        task |-> server[s].task + 1]
      BY <1>a, <3>1, JobUpdate
    <3>3. server[s].task + 1 \in 1 .. NTasks
      BY <1>a, <2>2, StartupAssumption
    <3> QED
      BY <1>a, <3>2, <3>3
  <2> QED
    BY <2>1, <2>2
<1>4. /\ server' \in [Servers -> Jobs]
      /\ \A x \in Servers : x # s => server'[x] = server[x]
  <2>1. server'[s] \in Jobs
    BY <1>a, <1>3 DEF Jobs
  <2>2. /\ DOMAIN server' = Servers
        /\ server' = [x \in Servers |-> server'[x]]
        /\ \A x \in Servers : x # s => server'[x] = server[x]
    BY DEF IInv, TypeOK, RedeemGrant
  <2> QED
    BY <2>1, <2>2 DEF IInv, TypeOK
<1>5. TypeOK'
  BY <1>2, <1>4 DEF IInv, TypeOK, RedeemGrant
<1>6. ASSUME NEW r \in Requests, NEW t \in 1 .. NTasks,
             ItemCommitted(r, t) \/ << r, t >> = Item(s)
      PROVE  ItemCommitted(r, t)'
  BY <1>2, <1>6 DEF ItemCommitted, Items
<1>7. RunCommitted'
  BY <1>6 DEF RedeemGrant, IInv, TypeOK, States, RunCommitted, ItemCommitted, NoRun, Intake
<1>8. ASSUME NEW x \in Servers, Creates(x)', NEW t \in 1 .. NTasks,
             t < server'[x].task \/ server'[x].pc = "committed",
             NEW r, r = server'[x].request
      PROVE  ItemCommitted(r, t)'
  <2>1. CASE x = s
    <3>1. r = server[s].request
      BY <1>3, <1>8, <2>1
    <3>2. t < server[s].task \/ t = server[s].task
      BY <1>a, <1>3, <1>8, <2>1, StartupAssumption
    <3>3. ItemCommitted(r, t) \/ << r, t >> = Item(s)
      BY <1>1, <3>1, <3>2 DEF IInv, CommittedSoFar, Item
    <3> QED
      BY <1>a, <1>6, <3>1, <3>3
  <2>2. CASE x # s
    <3>1. server'[x] = server[x]
      BY <1>4, <2>2
    <3>2. Creates(x)
      BY <1>8, <3>1 DEF Creates
    <3>3. r \in Requests /\ ItemCommitted(r, t)
      BY <1>8, <3>1, <3>2, AtWork DEF IInv, CommittedSoFar
    <3> QED
      BY <1>6, <3>3
  <2> QED
    BY <2>1, <2>2
<1>9. ASSUME NEW x \in Servers PROVE CommittedSoFar(x)'
  BY <1>8 DEF CommittedSoFar
<1> QED
  BY <1>5, <1>7, <1>9 DEF IInv

(* The run that a server saves has all its items committed. *)
LEMMA SaveRunStep ==
  ASSUME IInv, NEW s \in Servers, SaveRun(s)
  PROVE  IInv'
<1> USE DEF SaveRun
<1>1. Creates(s) /\ server[s].pc = "committed"
  BY DEF At, Creates
<1>2. server' \in [Servers -> Jobs] /\ \A x \in Servers : CommittedSoFar(x)'
  BY IdleStep
<1>3. TypeOK'
  BY <1>1, <1>2, AtWork DEF IInv, TypeOK, States, CompanyRun
<1>4. RunCommitted'
  BY <1>1 DEF IInv, RunCommitted, CommittedSoFar, ItemCommitted, CompanyRun
<1> QED
  BY <1>2, <1>3, <1>4 DEF IInv

LEMMA SmallStep ==
  ASSUME IInv, NEW s \in Servers,
         \/ StartGoal(s)
         \/ SaveIntake(s)
         \/ \E r \in Requests : SubmitIntake(s, r)
         \/ Crash(s)
  PROVE  IInv'
<1>1. /\ server' \in [Servers -> Jobs]
      /\ \A x \in Servers : CommittedSoFar(x)'
      /\ UNCHANGED << needsIntake, files, ledger >>
  BY IdleStep DEF StartGoal, SaveIntake, SubmitIntake, Crash
<1>2. state' \in {state, Intake} /\ crashes' \in 0 .. MaxCrashes
  BY StartupAssumption
  DEF StartGoal, SaveIntake, SubmitIntake, Crash, IInv, TypeOK
<1>3. TypeOK'
  BY <1>1, <1>2 DEF IInv, TypeOK, States
<1>4. RunCommitted'
  BY <1>1, <1>2 DEF IInv, RunCommitted, Intake
<1> QED
  BY <1>1, <1>3, <1>4 DEF IInv

LEMMA NextStep == IInv /\ [Next]_vars => IInv'
<1> SUFFICES ASSUME IInv, [Next]_vars PROVE IInv'
  OBVIOUS
<1>1. CASE RecordResult
  BY <1>1 DEF RecordResult, CompanyRun, IInv, TypeOK, States, NoRun, Intake,
              RunCommitted, CommittedSoFar, Creates, ItemCommitted
<1>2. CASE UNCHANGED vars
  BY <1>2 DEF vars, IInv, TypeOK, RunCommitted, CommittedSoFar, Creates,
              ItemCommitted
<1>3. ASSUME NEW s \in Servers, ServerStep(s) \/ Crash(s) PROVE IInv'
  BY <1>3, SmallStep, WriteStep, RedeemStep, SaveRunStep DEF ServerStep
<1> QED
  BY <1>1, <1>2, <1>3 DEF Next

LEMMA Invariance == Spec => []IInv
  BY InitInv, NextStep, PTL DEF Spec

(* The start of a run keeps its type. *)
THEOREM StartupTypeCorrect == Spec => []TypeOK
<1>1. IInv => TypeOK
  BY DEF IInv
<1> QED
  BY Invariance, <1>1, PTL

(* However many servers create the run and wherever they are killed, the   *)
(* work items of all tasks of a saved run are committed in the ledger.     *)
THEOREM SavedRunIsCommitted == Spec => []RunCommitted
<1>1. IInv => RunCommitted
  BY DEF IInv
<1> QED
  BY Invariance, <1>1, PTL

-----------------------------------------------------------------------------
(* The files of the work items.  A file is settled when it is whole, or    *)
(* torn because of a crash or of a server that is writing it.              *)
Settled(item) ==
  \/ files[item] = "whole"
  \/ /\ files[item] = "torn"
     /\ \/ crashes > 0
        \/ \E s \in Servers : At(s, "writing") /\ Item(s) = item

(* The items that a server has written are settled: those before the one   *)
(* it is at, and that one from the moment it is written.                   *)
WrittenSoFar(s) ==
  Creates(s) =>
    \A t \in 1 .. NTasks :
      \/ t < server[s].task
      \/ At(s, "written") /\ t = server[s].task
      \/ At(s, "committed")
      => Settled(<< server[s].request, t >>)

FilesInv ==
  /\ state.form = "run" =>
       \A t \in 1 .. NTasks : Settled(<< state.request, t >>)
  /\ \A s \in Servers : WrittenSoFar(s)

(* No step unsettles a file: a server that leaves an item that it was      *)
(* writing has written it whole, or has crashed.                           *)
LEMMA SettledStays ==
  ASSUME IInv, IInv', [Next]_vars, NEW item \in Items, Settled(item)
  PROVE  Settled(item)'
<1> USE DEF Settled, At
<1>0. /\ files \in [Items -> {"absent", "torn", "whole"}]
      /\ server \in [Servers -> Jobs]
      /\ crashes \in Nat
  BY DEF IInv, TypeOK
<1>1. ASSUME NEW s \in Servers, OpenItem(s) PROVE Settled(item)'
  <2>1. /\ files' = [files EXCEPT ![Item(s)] = "torn"]
        /\ server' = [server EXCEPT ![s].pc = "writing"]
        /\ server[s].pc = "granted" /\ crashes' = crashes
    BY <1>1 DEF OpenItem
  <2>2. server[s] \in Working
    BY <2>1, AtWork DEF Creates
  <2>3. server'[s] = [pc |-> "writing", request |-> server[s].request,
                      task |-> server[s].task]
    BY <1>0, <2>1, <2>2, JobUpdate
  <2>4. Item(s)' = Item(s) /\ At(s, "writing")'
    BY <2>3 DEF Item
  <2>5. ASSUME NEW x \in Servers, At(x, "writing"), Item(x) = item
        PROVE  At(x, "writing")' /\ Item(x)' = item
    BY <1>0, <2>1, <2>5 DEF Item
  <2>6. CASE item = Item(s)
    BY <1>0, <2>1, <2>4, <2>6
  <2>7. CASE item # Item(s)
    BY <1>0, <2>1, <2>5, <2>7
  <2> QED
    BY <2>6, <2>7
<1>2. ASSUME NEW s \in Servers, WriteItem(s) PROVE Settled(item)'
  <2>1. /\ files' = [files EXCEPT ![Item(s)] = "whole"]
        /\ server' = [server EXCEPT ![s].pc = "written"]
        /\ crashes' = crashes
    BY <1>2 DEF WriteItem
  <2>2. CASE item = Item(s)
    BY <1>0, <2>1, <2>2
  <2>3. CASE item # Item(s)
    <3>1. ASSUME NEW x \in Servers, At(x, "writing"), Item(x) = item
          PROVE  At(x, "writing")' /\ Item(x)' = item
      BY <1>0, <2>1, <2>3, <3>1 DEF Item
    <3> QED
      BY <1>0, <2>1, <2>3, <3>1
  <2> QED
    BY <2>2, <2>3
<1>3. ASSUME NEW s \in Servers,
             \/ StartGoal(s) \/ SaveIntake(s)
             \/ \E r \in Requests : SubmitIntake(s, r)
             \/ RedeemGrant(s) \/ SaveRun(s)
      PROVE  Settled(item)'
  <2>1. /\ ~ At(s, "writing")
        /\ \A x \in Servers : x # s => server'[x] = server[x]
        /\ files' = files /\ crashes' = crashes
    BY <1>0, <1>3
    DEF StartGoal, SaveIntake, SubmitIntake, RedeemGrant, SaveRun
  <2>2. ASSUME NEW x \in Servers, At(x, "writing"), Item(x) = item
        PROVE  At(x, "writing")' /\ Item(x)' = item
    BY <2>1, <2>2 DEF Item
  <2> QED
    BY <2>1, <2>2
<1>4. ASSUME NEW s \in Servers, Crash(s) PROVE Settled(item)'
  BY <1>0, <1>4 DEF Crash
<1>5. CASE RecordResult \/ UNCHANGED vars
  <2>1. UNCHANGED << files, server, crashes >>
    BY <1>5 DEF RecordResult, vars
  <2> QED
    BY <2>1 DEF Item
<1> QED
  BY <1>1, <1>2, <1>3, <1>4, <1>5 DEF Next, ServerStep

(* What a server claims to have written stays settled, and what it claims  *)
(* in addition it has just written.                                        *)
LEMMA WrittenStep ==
  ASSUME IInv, IInv', FilesInv, [Next]_vars, NEW x \in Servers
  PROVE  WrittenSoFar(x)'
<1>0. server \in [Servers -> Jobs]
      /\ files \in [Items -> {"absent", "torn", "whole"}]
  BY DEF IInv, TypeOK
<1> DEFINE Claims(job, t) ==
      \/ t < job.task
      \/ job.pc = "written" /\ t = job.task
      \/ job.pc = "committed"
<1>1. SUFFICES ASSUME Creates(x)', NEW t \in 1 .. NTasks,
                      Claims(server'[x], t), NEW r, r = server'[x].request
               PROVE  Settled(<< r, t >>)'
  BY DEF WrittenSoFar, At
<1>2. << r, t >> \in Items
  <2>1. r \in Requests
    BY <1>1 DEF IInv, TypeOK, Jobs, Idle, Asking, Creates
  <2> QED
    BY <2>1 DEF Items
<1>3. ASSUME Creates(x), r = server[x].request, Claims(server[x], t)
      PROVE  Settled(<< r, t >>)'
  BY <1>2, <1>3, SettledStays DEF FilesInv, WrittenSoFar, At
<1>4. CASE server'[x] = server[x]
  BY <1>1, <1>3, <1>4 DEF Creates
<1>5. CASE WriteItem(x)
  <2>1. server[x] \in Working /\ Item(x) \in Items /\ Creates(x)
    BY <1>5, AtWork DEF WriteItem, At, Creates
  <2>2. server'[x] = [pc |-> "written", request |-> server[x].request,
                      task |-> server[x].task]
    BY <1>0, <1>5, <2>1, JobUpdate DEF WriteItem
  <2>3. files'[Item(x)] = "whole"
    BY <1>0, <1>5, <2>1 DEF WriteItem
  <2>4. t < server[x].task \/ t = server[x].task
    BY <1>1, <2>2
  <2>5. CASE t = server[x].task
    BY <1>1, <2>2, <2>3, <2>5 DEF Settled, Item
  <2>6. CASE t < server[x].task
    BY <1>1, <1>3, <2>1, <2>2, <2>6
  <2> QED
    BY <2>4, <2>5, <2>6
<1>6. CASE OpenItem(x)
  <2>1. server[x] \in Working /\ Creates(x)
    BY <1>6, AtWork DEF OpenItem, At, Creates
  <2>2. server'[x] = [pc |-> "writing", request |-> server[x].request,
                      task |-> server[x].task]
    BY <1>0, <1>6, <2>1, JobUpdate DEF OpenItem
  <2> QED
    BY <1>1, <1>3, <2>1, <2>2
<1>7. CASE RedeemGrant(x)
  <2>1. server[x] \in Working /\ Creates(x) /\ server[x].pc = "written"
    BY <1>7, AtWork DEF RedeemGrant, At, Creates
  <2>2. /\ r = server[x].request
        /\ \/ server[x].task = NTasks
           \/ /\ server'[x].task = server[x].task + 1
              /\ server'[x].pc = "granted"
    <3>1. CASE server[x].task = NTasks
      <4>1. server'[x] = [server[x] EXCEPT !.pc = "committed"]
        BY <1>0, <1>7, <3>1 DEF RedeemGrant
      <4>2. server'[x] = [pc |-> "committed", request |-> server[x].request,
                          task |-> server[x].task]
        BY <2>1, <4>1, JobUpdate
      <4> QED
        BY <1>1, <3>1, <4>2
    <3>2. CASE server[x].task # NTasks
      <4>1. server'[x] = [server[x] EXCEPT !.pc = "granted", !.task = @ + 1]
        BY <1>0, <1>7, <3>2 DEF RedeemGrant
      <4>2. server'[x] = [pc |-> "granted", request |-> server[x].request,
                          task |-> server[x].task + 1]
        BY <2>1, <4>1, JobUpdate
      <4> QED
        BY <1>1, <4>2
    <3> QED
      BY <3>1, <3>2
  <2>3. t < server[x].task \/ t = server[x].task
    BY <1>1, <2>1, <2>2, StartupAssumption DEF Working
  <2> QED
    BY <1>3, <2>1, <2>2, <2>3
<1>8. CASE StartGoal(x) \/ (\E q \in Requests : SubmitIntake(x, q))
  <2>1. CASE server'[x] = Asking
    BY <1>1, <2>1 DEF Creates, Asking
  <2>2. ASSUME NEW q \in Requests, server'[x] = Creating(q)
        PROVE  FALSE
    <3>1. server'[x].pc = "granted" /\ server'[x].task = 1
      BY <2>2 DEF Creating
    <3>2. t < 1
      BY <1>1, <3>1
    <3> QED
      BY <3>2, StartupAssumption
  <2> QED
    BY <1>0, <1>8, <2>1, <2>2 DEF StartGoal, SubmitIntake
<1>9. CASE SaveIntake(x) \/ SaveRun(x) \/ Crash(x)
  <2>1. server'[x] = Idle
    BY <1>0, <1>9 DEF SaveIntake, SaveRun, Crash
  <2> QED
    BY <1>1, <2>1 DEF Creates, Idle
<1>10. ASSUME NEW s \in Servers, s # x, ServerStep(s) \/ Crash(s)
       PROVE  server'[x] = server[x]
  BY <1>0, <1>10 DEF ServerStep, StartGoal, SaveIntake, SubmitIntake,
                     OpenItem, WriteItem, RedeemGrant, SaveRun, Crash
<1>11. CASE RecordResult \/ UNCHANGED vars
  BY <1>4, <1>11 DEF RecordResult, vars
<1> QED
  BY <1>4, <1>5, <1>6, <1>7, <1>8, <1>9, <1>10, <1>11 DEF Next, ServerStep

LEMMA FilesStep == IInv /\ IInv' /\ FilesInv /\ [Next]_vars => FilesInv'
<1> SUFFICES ASSUME IInv, IInv', FilesInv, [Next]_vars PROVE FilesInv'
  OBVIOUS
<1>1. ASSUME state'.form = "run", NEW t \in 1 .. NTasks,
             NEW r, r = state'.request
      PROVE  Settled(<< r, t >>)'
  <2>1. << r, t >> \in Items
    BY <1>1 DEF IInv, TypeOK, States, NoRun, Intake, Items
  <2>2. Settled(<< r, t >>)
    <3>1. CASE \E s \in Servers : SaveRun(s)
      <4>1. PICK s \in Servers : SaveRun(s)
        BY <3>1
      <4>2. r = server[s].request /\ Creates(s) /\ At(s, "committed")
        BY <1>1, <4>1 DEF SaveRun, CompanyRun, At, Creates
      <4> QED
        BY <4>1, <4>2 DEF FilesInv, WrittenSoFar
    <3>2. CASE ~ \E s \in Servers : SaveRun(s)
      <4>1. CASE RecordResult
        BY <1>1, <4>1 DEF RecordResult, CompanyRun, FilesInv
      <4>2. CASE ~ RecordResult
        <5>1. state' = state \/ state' = Intake
          BY <3>2, <4>2
          DEF Next, ServerStep, StartGoal, SaveIntake, SubmitIntake, OpenItem,
              WriteItem, RedeemGrant, Crash, vars
        <5> QED
          BY <1>1, <5>1 DEF FilesInv, Intake
      <4> QED
        BY <4>1, <4>2
    <3> QED
      BY <3>1, <3>2
  <2> QED
    BY <2>1, <2>2, SettledStays
<1>2. ASSUME NEW x \in Servers PROVE WrittenSoFar(x)'
  BY <1>2, WrittenStep
<1> QED
  BY <1>1, <1>2 DEF FilesInv

(* However many servers write the files of the work items of a run that is *)
(* saved, each of them is whole unless somebody is writing it at the       *)
(* moment or has been killed.                                              *)
THEOREM SavedRunHasItsItems == Spec => []RunItemsRestored
<1>1. Init => FilesInv
  BY DEF Init, FilesInv, WrittenSoFar, Creates, NoRun, Idle
<1>2. FilesInv => RunItemsRestored
  BY DEF FilesInv, Settled, RunItemsRestored
<1> QED
  BY <1>1, <1>2, Invariance, FilesStep, PTL DEF Spec

-----------------------------------------------------------------------------
(* How often a work item is committed.  Every server that creates the run  *)
(* commits an item at most once, so it is enough to count the creations    *)
(* that can still begin.                                                   *)
NServers == Cardinality(Servers)

Free    == {s \in Servers : At(s, "idle")}
Holding == {s \in Servers : At(s, "asking")}

(* The servers that will still commit an item. *)
Committing(i) ==
  {s \in Servers : /\ Creates(s) /\ ~ At(s, "committed")
                   /\ server[s].request = i[1] /\ server[s].task <= i[2]}

(* Twice the number of creations that can begin once q servers hold a form *)
(* that they have not saved: after each of the q forms, one creation of    *)
(* every server that holds none by then.                                   *)
AfterForms(q) == q * (2 * NServers - q + 1)

(* Twice the number of creations that can still begin without a crash.     *)
Credit ==
  IF needsIntake
  THEN IF state = NoRun
       THEN NServers * (NServers + 1)
       ELSE AfterForms(Cardinality(Holding))
              + (IF state = Intake THEN 2 * Cardinality(Free) ELSE 0)
  ELSE IF state = NoRun THEN 2 * Cardinality(Free) ELSE 0

Allowed == IF needsIntake THEN NServers * (NServers + 1) ELSE 2 * NServers

CountInv ==
  /\ \A i \in Items :
       2 * ledger[i] + 2 * Cardinality(Committing(i)) + Credit
         <= Allowed + 2 * crashes
  /\ \A s \in Servers : At(s, "asking") => needsIntake
  /\ state = Intake => needsIntake

(* Arithmetic of the forms. *)
LEMMA FormsArithmetic ==
  ASSUME NEW n \in Nat, NEW q \in 0 .. n
  PROVE  /\ q * (2 * n - q + 1) \in Nat
         /\ q * (2 * n - q + 1) <= n * (n + 1)
         /\ q > 0 => q * (2 * n - q + 1)
                       = (q - 1) * (2 * n - (q - 1) + 1) + 2 * (n - q + 1)
<1> DEFINE d == n - q
<1>1. d \in Nat /\ n = q + d
  OBVIOUS
<1> HIDE DEF d
<1>2. q * (2 * n - q + 1) = q * q + 2 * (q * d) + q
  BY <1>1
<1>3. n * (n + 1) = q * q + 2 * (q * d) + d * d + q + d
  BY <1>1
<1>4. q * q \in Nat /\ q * d \in Nat /\ d * d \in Nat
  BY <1>1
<1>5. q > 0 => q * (2 * n - q + 1)
                 = (q - 1) * (2 * n - (q - 1) + 1) + 2 * (n - q + 1)
  OBVIOUS
<1> QED
  BY <1>1, <1>2, <1>3, <1>4, <1>5

LEMMA PartOfServers ==
  ASSUME NEW S \in SUBSET Servers
  PROVE  IsFiniteSet(S) /\ Cardinality(S) \in Nat
<1>1. IsFiniteSet(S)
  BY StartupAssumption, FS_Subset
<1> QED
  BY <1>1, FS_CardinalityType

(* Two sets of servers that have none in common. *)
LEMMA Sizes ==
  ASSUME NEW S \in SUBSET Servers, NEW T \in SUBSET Servers, S \cap T = {}
  PROVE  /\ IsFiniteSet(S) /\ IsFiniteSet(T)
         /\ NServers \in Nat
         /\ Cardinality(S) \in Nat /\ Cardinality(T) \in Nat
         /\ Cardinality(S) + Cardinality(T) <= NServers
<1>1. IsFiniteSet(Servers) /\ NServers \in Nat
  BY StartupAssumption, FS_CardinalityType DEF NServers
<1>2. IsFiniteSet(S) /\ IsFiniteSet(T)
  BY <1>1, FS_Subset
<1>3. Cardinality(S) \in Nat /\ Cardinality(T) \in Nat
  BY <1>2, FS_CardinalityType
<1>4. Cardinality(S \cup T) = Cardinality(S) + Cardinality(T)
  <2>1. Cardinality(S \cap T) = 0
    BY FS_EmptySet
  <2>2. Cardinality(S \cup T)
          = Cardinality(S) + Cardinality(T) - Cardinality(S \cap T)
    BY <1>2, FS_Union
  <2> QED
    BY <1>3, <2>1, <2>2
<1>5. Cardinality(S \cup T) <= NServers
  BY <1>1, FS_Subset DEF NServers
<1> QED
  BY <1>1, <1>2, <1>3, <1>4, <1>5

(* A set of servers told by their place loses or gains the one that moves. *)
LEMMA OneMoves ==
  ASSUME IInv, NEW s \in Servers,
         \A x \in Servers : x # s => server'[x] = server[x]
  PROVE  /\ Cardinality(Free)' = Cardinality(Free)
              + (IF At(s, "idle")' THEN 1 ELSE 0)
              - (IF At(s, "idle") THEN 1 ELSE 0)
         /\ Cardinality(Holding)' = Cardinality(Holding)
              + (IF At(s, "asking")' THEN 1 ELSE 0)
              - (IF At(s, "asking") THEN 1 ELSE 0)
<1>1. ASSUME NEW S \in SUBSET Servers, IsFiniteSet(S), Cardinality(S) \in Nat,
             NEW T \in SUBSET Servers,
             \A x \in Servers : x # s => (x \in T <=> x \in S)
      PROVE  Cardinality(T) = Cardinality(S)
              + (IF s \in T THEN 1 ELSE 0) - (IF s \in S THEN 1 ELSE 0)
  <2>1. CASE s \in T
    <3>1. T = S \cup {s}
      BY <1>1, <2>1
    <3>2. Cardinality(T) = IF s \in S THEN Cardinality(S)
                                      ELSE Cardinality(S) + 1
      BY <1>1, <3>1, FS_AddElement
    <3> QED
      BY <1>1, <2>1, <3>2
  <2>2. CASE s \notin T
    <3>1. T = S \ {s}
      BY <1>1, <2>2
    <3>2. Cardinality(T) = IF s \in S THEN Cardinality(S) - 1
                                      ELSE Cardinality(S)
      BY <1>1, <3>1, FS_RemoveElement
    <3> QED
      BY <1>1, <2>2, <3>2
  <2> QED
    BY <2>1, <2>2
<1>2. ASSUME NEW S, NEW T, S = Free, T = Free'
      PROVE  Cardinality(T) = Cardinality(S)
              + (IF At(s, "idle")' THEN 1 ELSE 0)
              - (IF At(s, "idle") THEN 1 ELSE 0)
  <2>1. /\ S \in SUBSET Servers /\ T \in SUBSET Servers
        /\ \A x \in Servers : x # s => (x \in T <=> x \in S)
        /\ s \in S <=> At(s, "idle")
        /\ s \in T <=> At(s, "idle")'
    BY <1>2 DEF Free, At
  <2>2. IsFiniteSet(S) /\ Cardinality(S) \in Nat
    BY <2>1, PartOfServers
  <2> QED
    BY <1>1, <2>1, <2>2
<1>3. ASSUME NEW S, NEW T, S = Holding, T = Holding'
      PROVE  Cardinality(T) = Cardinality(S)
              + (IF At(s, "asking")' THEN 1 ELSE 0)
              - (IF At(s, "asking") THEN 1 ELSE 0)
  <2>1. /\ S \in SUBSET Servers /\ T \in SUBSET Servers
        /\ \A x \in Servers : x # s => (x \in T <=> x \in S)
        /\ s \in S <=> At(s, "asking")
        /\ s \in T <=> At(s, "asking")'
    BY <1>3 DEF Holding, At
  <2>2. IsFiniteSet(S) /\ Cardinality(S) \in Nat
    BY <2>1, PartOfServers
  <2> QED
    BY <1>1, <2>1, <2>2
<1> QED
  BY <1>2, <1>3

(* A step that begins the creation of a run. *)
Begins(s) ==
  \/ StartGoal(s) /\ ~ needsIntake
  \/ \E r \in Requests : SubmitIntake(s, r)

(* What a step does to the creations that can still begin: one that begins *)
(* is taken from them, a crash gives back one at most.                     *)
LEMMA CreditStep ==
  ASSUME IInv, IInv', CountInv, NEW s \in Servers, ServerStep(s) \/ Crash(s)
  PROVE  Credit' <= Credit + (IF Crash(s) THEN 2 ELSE 0)
                           - (IF Begins(s) THEN 2 ELSE 0)
<1>1. /\ NServers' = NServers
      /\ needsIntake' = needsIntake
      /\ server \in [Servers -> Jobs] /\ server' \in [Servers -> Jobs]
      /\ \A x \in Servers : x # s => server'[x] = server[x]
  BY DEF NServers, IInv, TypeOK, ServerStep, StartGoal, SaveIntake,
         SubmitIntake, OpenItem, WriteItem, RedeemGrant, SaveRun, Crash
<1>2. SUFFICES ASSUME NEW n, n = NServers,
                      NEW f, f = Cardinality(Free),
                      NEW q, q = Cardinality(Holding),
                      NEW g, g = Cardinality(Free)',
                      NEW p, p = Cardinality(Holding)'
               PROVE  Credit' <= Credit + (IF Crash(s) THEN 2 ELSE 0)
                                        - (IF Begins(s) THEN 2 ELSE 0)
  OBVIOUS
<1>3. /\ n \in Nat /\ f \in Nat /\ q \in 0 .. n /\ f + q <= n
      /\ g \in Nat /\ p \in 0 .. n /\ g + p <= n
  <2>1. n \in Nat /\ f \in Nat /\ q \in Nat /\ f + q <= n
    <3>1. /\ Free \in SUBSET Servers /\ Holding \in SUBSET Servers
          /\ Free \cap Holding = {}
      BY DEF Free, Holding, At
    <3> QED
      BY <1>2, <3>1, Sizes
  <2>2. g \in Nat /\ p \in Nat /\ g + p <= n
    <3>1. /\ Free' \in SUBSET Servers /\ Holding' \in SUBSET Servers
          /\ Free' \cap Holding' = {}
      BY DEF Free, Holding, At
    <3> QED
      BY <1>2, <3>1, Sizes
  <2> QED
    BY <2>1, <2>2
<1>4. /\ g = f + (IF At(s, "idle")' THEN 1 ELSE 0)
              - (IF At(s, "idle") THEN 1 ELSE 0)
      /\ p = q + (IF At(s, "asking")' THEN 1 ELSE 0)
              - (IF At(s, "asking") THEN 1 ELSE 0)
  BY <1>1, <1>2, OneMoves
<1> DEFINE After(k) == k * (2 * n - k + 1)
<1>5. /\ After(q) \in Nat /\ After(q) <= n * (n + 1)
      /\ q > 0 => After(q) = After(q - 1) + 2 * (n - q + 1)
      /\ After(p) \in Nat /\ After(p) <= n * (n + 1)
  BY <1>3, FormsArithmetic
<1> HIDE DEF After
<1>6. Credit = IF needsIntake
               THEN IF state = NoRun THEN n * (n + 1)
                    ELSE After(q) + (IF state = Intake THEN 2 * f ELSE 0)
               ELSE IF state = NoRun THEN 2 * f ELSE 0
  BY <1>2 DEF Credit, AfterForms, After
<1>7. Credit' = IF needsIntake
                THEN IF state' = NoRun THEN n * (n + 1)
                     ELSE After(p) + (IF state' = Intake THEN 2 * g ELSE 0)
                ELSE IF state' = NoRun THEN 2 * g ELSE 0
  BY <1>1, <1>2 DEF Credit, AfterForms, After
<1>8. n * (n + 1) \in Nat
  BY <1>3
<1>9. CASE Begins(s)
  <2>1. /\ state' = state
        /\ \/ ~ needsIntake /\ state = NoRun
           \/ needsIntake /\ state = Intake
        /\ At(s, "idle") /\ ~ At(s, "asking")
        /\ ~ At(s, "idle")' /\ ~ At(s, "asking")'
    BY <1>1, <1>9 DEF Begins, StartGoal, SubmitIntake, At, Creating, CountInv
  <2> QED
    BY <1>1, <1>3, <1>4, <1>5, <1>6, <1>7, <1>8, <1>9, <2>1
       DEF NoRun, Intake
<1>10. CASE SaveIntake(s)
  <2>1. /\ needsIntake /\ state' = Intake
        /\ At(s, "asking") /\ ~ At(s, "idle") /\ ~ Begins(s)
        /\ At(s, "idle")' /\ ~ At(s, "asking")'
    BY <1>1, <1>10 DEF SaveIntake, Begins, StartGoal, SubmitIntake, At, Idle,
                       CountInv
  <2>2. q \in 1 .. n /\ p = q - 1 /\ g = f + 1
    BY <1>3, <1>4, <2>1
  <2>3. After(p) + 2 * g <= After(q)
    BY <1>3, <1>5, <2>2
  <2>4. Credit' = After(p) + 2 * g
    BY <1>1, <1>7, <2>1 DEF NoRun, Intake
  <2>5. After(q) <= Credit
    BY <1>3, <1>5, <1>6, <1>8, <2>1
  <2> QED
    BY <1>3, <1>5, <1>6, <1>8, <2>1, <2>2, <2>3, <2>4, <2>5
<1>11. CASE StartGoal(s) /\ needsIntake
  <2>1. state = NoRun /\ state' = NoRun /\ ~ Begins(s)
    BY <1>11 DEF StartGoal, Begins, SubmitIntake, NoRun, Intake
  <2> QED
    BY <1>1, <1>6, <1>7, <1>8, <1>11, <2>1
<1>12. CASE OpenItem(s) \/ WriteItem(s) \/ RedeemGrant(s)
  <2>a. Creates(s) /\ server[s] \in Working
    BY <1>12, AtWork DEF OpenItem, WriteItem, RedeemGrant, At, Creates
  <2>b. \E pc \in {"writing", "written", "granted", "committed"} :
          server'[s].pc = pc
    <3>1. ASSUME NEW pc, server'[s] = [server[s] EXCEPT !.pc = pc]
          PROVE  server'[s].pc = pc
      BY <2>a, <3>1 DEF Working
    <3>2. ASSUME server'[s] = [server[s] EXCEPT !.pc = "granted",
                                                !.task = @ + 1]
          PROVE  server'[s].pc = "granted"
      BY <2>a, <3>2 DEF Working
    <3> QED
      BY <1>1, <1>12, <3>1, <3>2 DEF OpenItem, WriteItem, RedeemGrant
  <2>1. /\ state' = state /\ ~ Begins(s)
        /\ ~ At(s, "idle") /\ ~ At(s, "asking")
        /\ ~ At(s, "idle")' /\ ~ At(s, "asking")'
    BY <1>12, <2>a, <2>b
       DEF OpenItem, WriteItem, RedeemGrant, Begins, StartGoal, SubmitIntake,
           At, Creates
  <2>2. p = q /\ g = f
    BY <1>3, <1>4, <2>1
  <2>3. Credit' = Credit /\ Credit \in Nat
    BY <1>1, <1>3, <1>5, <1>6, <1>7, <1>8, <2>1, <2>2
  <2> QED
    BY <2>1, <2>3
<1>13. CASE SaveRun(s)
  <2>1. /\ state' # NoRun /\ state' # Intake /\ ~ Begins(s)
        /\ ~ At(s, "asking") /\ ~ At(s, "asking")'
    BY <1>1, <1>13 DEF SaveRun, CompanyRun, NoRun, Intake, Begins, StartGoal,
                       SubmitIntake, At, Idle
  <2>2. p = q
    BY <1>3, <1>4, <2>1
  <2> QED
    BY <1>1, <1>3, <1>5, <1>6, <1>7, <1>8, <2>1, <2>2
<1>14. CASE Crash(s)
  <2>1. /\ state' = state /\ ~ Begins(s)
        /\ ~ At(s, "idle") /\ At(s, "idle")' /\ ~ At(s, "asking")'
    BY <1>1, <1>14 DEF Crash, Begins, StartGoal, SubmitIntake, At, Idle
  <2>2. g = f + 1
    BY <1>3, <1>4, <2>1
  <2>a. p = q \/ (q \in 1 .. n /\ p = q - 1)
    <3>1. CASE At(s, "asking")
      BY <1>3, <1>4, <2>1, <3>1
    <3>2. CASE ~ At(s, "asking")
      BY <1>3, <1>4, <2>1, <3>2
    <3> QED
      BY <3>1, <3>2
  <2>3. After(p) <= After(q)
    BY <1>3, <1>5, <2>a
  <2> QED
    BY <1>1, <1>3, <1>5, <1>6, <1>7, <1>8, <1>14, <2>1, <2>2, <2>3
<1> QED
  BY <1>9, <1>10, <1>11, <1>12, <1>13, <1>14 DEF ServerStep, Begins

(* What a step does to one item: a server that begins will commit it, one  *)
(* that redeems its grant has done so.                                     *)
LEMMA CommitStep ==
  ASSUME IInv, NEW s \in Servers, ServerStep(s) \/ Crash(s), NEW i \in Items
  PROVE  ledger[i]' + Cardinality(Committing(i))'
           <= ledger[i] + Cardinality(Committing(i))
                + (IF Begins(s) THEN 1 ELSE 0)
<1>1. /\ server \in [Servers -> Jobs]
      /\ ledger \in [Items -> Nat]
      /\ \A x \in Servers : x # s => server'[x] = server[x]
  BY DEF IInv, TypeOK, ServerStep, StartGoal, SaveIntake,
         SubmitIntake, OpenItem, WriteItem, RedeemGrant, SaveRun, Crash
<1>2. SUFFICES ASSUME NEW S, S = Committing(i), NEW T, T = Committing(i)'
               PROVE  ledger'[i] + Cardinality(T)
                        <= ledger[i] + Cardinality(S)
                             + (IF Begins(s) THEN 1 ELSE 0)
  OBVIOUS
<1>3. /\ S \in SUBSET Servers /\ T \in SUBSET Servers
      /\ \A x \in Servers : x # s => (x \in T <=> x \in S)
  BY <1>1, <1>2 DEF Committing, Creates, At
<1>4. /\ IsFiniteSet(S) /\ Cardinality(S) \in Nat
      /\ IsFiniteSet(T) /\ Cardinality(T) \in Nat
  BY <1>3, PartOfServers
<1>5. CASE Begins(s)
  <2>1. ledger' = ledger
    BY <1>5 DEF Begins, StartGoal, SubmitIntake
  <2>a. /\ IsFiniteSet(S \cup {s})
        /\ Cardinality(S \cup {s}) =
             IF s \in S THEN Cardinality(S) ELSE Cardinality(S) + 1
    BY <1>4, FS_AddElement
  <2>2. /\ IsFiniteSet(S \cup {s})
        /\ Cardinality(S \cup {s}) <= Cardinality(S) + 1
    BY <1>4, <2>a
  <2>3. T \in SUBSET (S \cup {s})
    BY <1>3
  <2>4. Cardinality(T) <= Cardinality(S \cup {s})
    BY <2>2, <2>3, FS_Subset
  <2>5. Cardinality(S \cup {s}) \in Nat
    BY <2>2, FS_CardinalityType
  <2> QED
    BY <1>1, <1>4, <1>5, <2>1, <2>2, <2>4, <2>5
<1>6. ASSUME ledger' = ledger, s \in T => s \in S, ~ Begins(s)
      PROVE  ledger'[i] + Cardinality(T)
               <= ledger[i] + Cardinality(S) + (IF Begins(s) THEN 1 ELSE 0)
  <2>1. T \in SUBSET S
    BY <1>3, <1>6
  <2>2. Cardinality(T) <= Cardinality(S)
    BY <1>4, <2>1, FS_Subset
  <2> QED
    BY <1>1, <1>4, <1>6, <2>2
<1>7. CASE OpenItem(s) \/ WriteItem(s)
  <2>1. Creates(s) /\ server[s] \in Working /\ ~ At(s, "committed")
    BY <1>7, AtWork DEF OpenItem, WriteItem, At, Creates
  <2>2. /\ server'[s].request = server[s].request
        /\ server'[s].task = server[s].task
    <3>1. ASSUME NEW pc, server'[s] = [server[s] EXCEPT !.pc = pc]
          PROVE  /\ server'[s].request = server[s].request
                 /\ server'[s].task = server[s].task
      BY <2>1, <3>1 DEF Working
    <3> QED
      BY <1>1, <1>7, <3>1 DEF OpenItem, WriteItem
  <2>3. s \in T => s \in S
    BY <1>2, <2>1, <2>2 DEF Committing
  <2>4. ledger' = ledger /\ ~ Begins(s)
    BY <1>7, <2>1 DEF OpenItem, WriteItem, Begins, StartGoal, SubmitIntake,
                      At, Creates
  <2> QED
    BY <1>6, <2>3, <2>4
<1>8. CASE SaveIntake(s) \/ SaveRun(s) \/ Crash(s)
           \/ (StartGoal(s) /\ needsIntake)
  <2>1. server'[s] \in {Idle, Asking}
    BY <1>1, <1>8 DEF SaveIntake, SaveRun, Crash, StartGoal
  <2>2. s \notin T
    BY <1>2, <2>1 DEF Committing, Creates, Idle, Asking
  <2>3. ledger' = ledger
    BY <1>8 DEF SaveIntake, SaveRun, Crash, StartGoal
  <2> QED
    BY <1>5, <1>6, <2>2, <2>3
<1>9. CASE RedeemGrant(s)
  <2>1. /\ Creates(s) /\ server[s] \in Working /\ Item(s) \in Items
        /\ At(s, "written")
    BY <1>9, AtWork DEF RedeemGrant, At, Creates
  <2>2. \/ server[s].task = NTasks /\ server'[s].pc = "committed"
        \/ /\ server[s].task # NTasks
           /\ server'[s] = [pc |-> "granted", request |-> server[s].request,
                            task |-> server[s].task + 1]
    <3>1. CASE server[s].task = NTasks
      <4>1. server'[s] = [server[s] EXCEPT !.pc = "committed"]
        BY <1>1, <1>9, <3>1 DEF RedeemGrant
      <4> QED
        BY <2>1, <3>1, <4>1 DEF Working
    <3>2. CASE server[s].task # NTasks
      <4>1. server'[s] = [server[s] EXCEPT !.pc = "granted", !.task = @ + 1]
        BY <1>1, <1>9, <3>2 DEF RedeemGrant
      <4>2. server'[s] = [pc |-> "granted", request |-> server[s].request,
                          task |-> server[s].task + 1]
        BY <2>1, <4>1, JobUpdate
      <4> QED
        BY <3>2, <4>2
    <3> QED
      BY <3>1, <3>2
  <2>3. ~ Begins(s)
    BY <2>1 DEF Begins, StartGoal, SubmitIntake, At
  <2>4. CASE i = Item(s)
    <3>1. ledger'[i] = ledger[i] + 1
      BY <1>1, <1>9, <2>4 DEF RedeemGrant
    <3>2. s \in S
      <4>1. i[1] = server[s].request /\ i[2] = server[s].task
        BY <2>4 DEF Item
      <4> QED
        BY <1>2, <2>1, <4>1 DEF Committing, At, Working
    <3>3. s \notin T
      <4>1. i[2] = server[s].task /\ server[s].task \in Nat
        BY <2>1, <2>4 DEF Item, Working
      <4> QED
        BY <1>2, <2>2, <4>1 DEF Committing, At
    <3>4. T \in SUBSET (S \ {s})
      BY <1>3, <3>3
    <3>5. IsFiniteSet(S \ {s}) /\ Cardinality(S \ {s}) = Cardinality(S) - 1
      BY <1>4, <3>2, FS_RemoveElement
    <3>6. Cardinality(T) <= Cardinality(S) - 1
      BY <3>4, <3>5, FS_Subset
    <3> QED
      BY <1>1, <1>4, <2>3, <3>1, <3>6
  <2>5. CASE i # Item(s)
    <3>1. ledger'[i] = ledger[i]
      BY <1>1, <1>9, <2>5 DEF RedeemGrant
    <3>2. s \in T => s \in S
      <4>1. SUFFICES ASSUME s \in T PROVE s \in S
        OBVIOUS
      <4>2. /\ server'[s].pc # "committed"
            /\ server'[s].request = i[1] /\ server'[s].task <= i[2]
        BY <1>2, <4>1 DEF Committing, At
      <4>3. /\ server[s].request = i[1]
            /\ server[s].task + 1 <= i[2]
        BY <2>2, <4>2
      <4>4. server[s].task \in Nat /\ i[2] \in Nat
        BY <2>1 DEF Working, Items
      <4>5. server[s].task <= i[2]
        BY <4>3, <4>4
      <4> QED
        BY <1>2, <2>1, <4>3, <4>5 DEF Committing, At
    <3>3. T \in SUBSET S
      BY <1>3, <3>2
    <3>4. Cardinality(T) <= Cardinality(S)
      BY <1>4, <3>3, FS_Subset
    <3> QED
      BY <1>1, <1>4, <2>3, <3>1, <3>4
  <2> QED
    BY <2>4, <2>5
<1> QED
  BY <1>5, <1>7, <1>8, <1>9 DEF ServerStep, Begins

LEMMA CreditType == Credit \in Nat
<1>1. /\ Free \in SUBSET Servers /\ Holding \in SUBSET Servers
      /\ Free \cap Holding = {}
  BY DEF Free, Holding, At
<1>2. /\ NServers \in Nat /\ Cardinality(Free) \in Nat
      /\ Cardinality(Holding) \in 0 .. NServers
  <2>1. /\ NServers \in Nat /\ Cardinality(Free) \in Nat
        /\ Cardinality(Holding) \in Nat
        /\ Cardinality(Free) + Cardinality(Holding) <= NServers
    BY <1>1, Sizes
  <2> QED
    BY <2>1
<1>3. AfterForms(Cardinality(Holding)) \in Nat
  <2>1. ASSUME NEW n, n = NServers, NEW q, q = Cardinality(Holding)
        PROVE  q * (2 * n - q + 1) \in Nat
    <3>1. n \in Nat /\ q \in 0 .. n
      BY <1>2, <2>1
    <3> QED
      BY <3>1, FormsArithmetic
  <2> QED
    BY <2>1 DEF AfterForms
<1>4. NServers * (NServers + 1) \in Nat
  BY <1>2
<1> QED
  BY <1>2, <1>3, <1>4 DEF Credit

LEMMA CountStep == IInv /\ IInv' /\ CountInv /\ [Next]_vars => CountInv'
<1> SUFFICES ASSUME IInv, IInv', CountInv, [Next]_vars PROVE CountInv'
  OBVIOUS
<1>0. /\ ledger \in [Items -> Nat] /\ ledger' \in [Items -> Nat]
      /\ server \in [Servers -> Jobs]
      /\ crashes \in Nat /\ crashes' \in Nat
      /\ needsIntake' = needsIntake /\ Allowed' = Allowed
  <2>1. needsIntake' = needsIntake
    BY DEF Next, vars, RecordResult, ServerStep, StartGoal, SaveIntake,
           SubmitIntake, OpenItem, WriteItem, RedeemGrant, SaveRun, Crash
  <2>2. Allowed' = Allowed
    BY <2>1 DEF Allowed, NServers
  <2> QED
    BY <2>1, <2>2 DEF IInv, TypeOK
<1>1. \A i \in Items : /\ Cardinality(Committing(i)) \in Nat
                      /\ Cardinality(Committing(i))' \in Nat
  <2>1. ASSUME NEW i \in Items, NEW S, NEW T, S = Committing(i), T = Committing(i)'
        PROVE  Cardinality(S) \in Nat /\ Cardinality(T) \in Nat
    BY <2>1, PartOfServers DEF Committing
  <2> QED
    BY <2>1
<1>2. Credit \in Nat /\ Credit' \in Nat /\ Allowed \in Nat
  <2>1. (Credit \in Nat)'
    BY CreditType, PTL
  <2>2. NServers \in Nat
    BY StartupAssumption, FS_CardinalityType DEF NServers
  <2> QED
    BY <2>1, <2>2, CreditType DEF Allowed
<1>3. ASSUME NEW s \in Servers, ServerStep(s) \/ Crash(s)
      PROVE  CountInv'
  <2>1. crashes' = crashes + (IF Crash(s) THEN 1 ELSE 0)
    <3>1. Crash(s) => crashes' = crashes + 1
      BY DEF Crash
    <3>2. ServerStep(s) => crashes' = crashes
      BY DEF ServerStep, StartGoal, SaveIntake, SubmitIntake, OpenItem,
             WriteItem, RedeemGrant, SaveRun
    <3> QED
      BY <1>0, <1>3, <3>1, <3>2
  <2>2. ASSUME NEW i \in Items
        PROVE  2 * ledger'[i] + 2 * Cardinality(Committing(i))' + Credit'
                 <= Allowed + 2 * crashes'
    <3>1. ledger[i]' + Cardinality(Committing(i))'
            <= ledger[i] + Cardinality(Committing(i))
                 + (IF Begins(s) THEN 1 ELSE 0)
      BY <1>3, CommitStep
    <3>2. Credit' <= Credit + (IF Crash(s) THEN 2 ELSE 0)
                            - (IF Begins(s) THEN 2 ELSE 0)
      BY <1>3, CreditStep
    <3>3. 2 * ledger[i] + 2 * Cardinality(Committing(i)) + Credit
            <= Allowed + 2 * crashes
      BY DEF CountInv
    <3> QED
      BY <1>0, <1>1, <1>2, <2>1, <3>1, <3>2, <3>3
  <2>3. ASSUME NEW x \in Servers, At(x, "asking")' PROVE needsIntake'
    <3>1. CASE At(x, "asking")
      BY <1>0, <3>1 DEF CountInv
    <3>2. CASE StartGoal(s) /\ needsIntake
      BY <1>0, <3>2
    <3>3. CASE Begins(s)
      <4>1. \E r \in Requests : server' = [server EXCEPT ![s] = Creating(r)]
        BY <3>3 DEF Begins, StartGoal, SubmitIntake
      <4>2. /\ x # s => server'[x] = server[x]
            /\ \E r \in Requests : server'[s] = Creating(r)
        BY <1>0, <4>1
      <4> QED
        BY <2>3, <3>1, <4>2 DEF At, Creating
    <3>4. CASE OpenItem(s) \/ WriteItem(s) \/ RedeemGrant(s)
      <4>1. Creates(s) /\ server[s] \in Working
        BY <3>4, AtWork DEF OpenItem, WriteItem, RedeemGrant, At, Creates
      <4>2. /\ x # s => server'[x] = server[x]
            /\ \/ server'[s] = [server[s] EXCEPT !.pc = "writing"]
               \/ server'[s] = [server[s] EXCEPT !.pc = "written"]
               \/ server'[s] = [server[s] EXCEPT !.pc = "committed"]
               \/ server'[s] = [server[s] EXCEPT !.pc = "granted",
                                                 !.task = @ + 1]
        BY <1>0, <3>4 DEF OpenItem, WriteItem, RedeemGrant
      <4>3. server'[s].pc \in {"writing", "written", "committed", "granted"}
        BY <4>1, <4>2 DEF Working
      <4> QED
        BY <2>3, <3>1, <4>2, <4>3 DEF At
    <3>5. CASE SaveIntake(s) \/ SaveRun(s) \/ Crash(s)
      <4>1. /\ x # s => server'[x] = server[x]
            /\ server'[s] = Idle
        BY <1>0, <3>5 DEF SaveIntake, SaveRun, Crash
      <4> QED
        BY <2>3, <3>1, <4>1 DEF At, Idle
    <3> QED
      BY <1>3, <3>2, <3>3, <3>4, <3>5 DEF ServerStep, Begins
  <2>4. state' = Intake => needsIntake'
    BY <1>0, <1>3
    DEF ServerStep, StartGoal, SaveIntake, SubmitIntake, OpenItem, WriteItem,
        RedeemGrant, SaveRun, Crash, CountInv, CompanyRun, Intake
  <2> QED
    BY <1>0, <2>2, <2>3, <2>4 DEF CountInv
<1>4. CASE RecordResult
  <2>1. /\ state # NoRun /\ state # Intake /\ state' # NoRun /\ state' # Intake
        /\ UNCHANGED << needsIntake, ledger, server, crashes >>
    BY <1>4 DEF RecordResult, CompanyRun, NoRun, Intake
  <2>2. Credit' = Credit
    BY <2>1 DEF Credit, AfterForms, Holding, At
  <2> QED
    BY <1>0, <2>1, <2>2 DEF CountInv, Committing, Creates, At
<1>5. CASE UNCHANGED vars
  BY <1>5 DEF vars, CountInv, Credit, Allowed, Committing, Creates, At, Free,
              Holding, AfterForms
<1> QED
  BY <1>3, <1>4, <1>5 DEF Next

(* However many servers start the goal, a work item is committed at most   *)
(* as often as servers may find no run, or an intake form, and as crashes  *)
(* make them start again.                                                  *)
THEOREM ItemsCommittedOncePerAttempt == Spec => []CommittedOncePerAttempt
<1>1. Init => CountInv
  <2> SUFFICES ASSUME Init PROVE CountInv
    OBVIOUS
  <2>1. Free = Servers /\ Holding = {}
    BY DEF Init, Free, Holding, At, Idle
  <2>2. NServers \in Nat
    BY StartupAssumption, FS_CardinalityType DEF NServers
  <2>3. Credit = Allowed
    BY <2>1 DEF Init, Credit, Allowed, NServers
  <2>4. ASSUME NEW i \in Items
        PROVE  ledger[i] = 0 /\ Cardinality(Committing(i)) = 0
    <3>1. Committing(i) = {}
      BY DEF Init, Committing, Creates, Idle
    <3> QED
      BY <2>4, <3>1, FS_EmptySet DEF Init
  <2>5. Allowed \in Nat /\ crashes = 0
    BY <2>2 DEF Init, Allowed
  <2>6. ASSUME NEW i \in Items
        PROVE  2 * ledger[i] + 2 * Cardinality(Committing(i)) + Credit
                 <= Allowed + 2 * crashes
    BY <2>3, <2>4, <2>5
  <2> QED
    BY <2>6 DEF Init, CountInv, At, Idle, NoRun, Intake
<1>2. IInv /\ CountInv => CommittedOncePerAttempt
  <2> SUFFICES ASSUME IInv, CountInv, NEW i \in Items
               PROVE  LET n        == NServers
                          attempts == IF needsIntake THEN (n * (n + 1)) \div 2
                                                     ELSE n
                      IN  ledger[i] <= attempts + crashes
    BY DEF CommittedOncePerAttempt, NServers
  <2>1. /\ ledger[i] \in Nat /\ crashes \in Nat /\ Credit \in Nat
        /\ Cardinality(Committing(i)) \in Nat /\ NServers \in Nat
    <3>1. ledger[i] \in Nat /\ crashes \in Nat
      BY DEF IInv, TypeOK
    <3>2. Cardinality(Committing(i)) \in Nat
      BY PartOfServers DEF Committing
    <3>3. NServers \in Nat
      BY StartupAssumption, FS_CardinalityType DEF NServers
    <3> QED
      BY <3>1, <3>2, <3>3, CreditType
  <2>2. 2 * ledger[i] <= Allowed + 2 * crashes
    <3>1. 2 * ledger[i] + 2 * Cardinality(Committing(i)) + Credit
            <= Allowed + 2 * crashes
      BY DEF CountInv
    <3>2. Allowed \in Nat
      BY <2>1 DEF Allowed
    <3> QED
      BY <2>1, <3>1, <3>2
  <2>3. CASE needsIntake
    <3>1. ASSUME NEW m \in Nat, 2 * ledger[i] <= m + 2 * crashes
          PROVE  ledger[i] <= m \div 2 + crashes
      BY <2>1, <3>1
    <3> QED
      BY <2>1, <2>2, <2>3, <3>1 DEF Allowed
  <2>4. CASE ~ needsIntake
    BY <2>1, <2>2, <2>4 DEF Allowed
  <2> QED
    BY <2>3, <2>4
<1> QED
  BY <1>1, <1>2, Invariance, CountStep, PTL DEF Spec
=============================================================================
