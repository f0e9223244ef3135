----------------------------- MODULE RunStartup -----------------------------
(***************************************************************************)
(* How a run comes into being.  start_company_goal looks for the run; for  *)
(* business_validation it saves an intake form, and the client's           *)
(* submit_goal_intake_result turns the form into a run; for every other    *)
(* company it creates the run at once.  To create a run is to commit a     *)
(* work item for every task of the plan through the kernel, one after the  *)
(* other, and then to save the run (agent_session.py, workflow.py,         *)
(* kernel_gateway.py, local_work_module.py).                               *)
(*                                                                         *)
(* Several servers may be asked for the same goal, and any of them may be  *)
(* killed at any moment; its client asks again.                            *)
(***************************************************************************)
EXTENDS Naturals, FiniteSets

CONSTANTS
  Servers,      \* the server processes sharing workspace and ledger
  Requests,     \* what clients may submit as the context of the goal
  NTasks,       \* the number of tasks of the company
  Intakes,      \* TRUE for business_validation, FALSE for other companies
  MaxCrashes    \* bound on the crashes of a behaviour

ASSUME StartupAssumption ==
  /\ IsFiniteSet(Servers)
  /\ NTasks \in Nat \ {0}
  /\ Intakes \subseteq BOOLEAN
  /\ MaxCrashes \in Nat

VARIABLES
  needsIntake,  \* whether the company of the goal needs an intake
  state,        \* state.json: nothing, an intake form or a run
  files,        \* the file of each work item: "absent", "torn" or "whole"
  ledger,       \* how often each work item is committed in the kernel's ledger
  server,       \* what each server is doing
  crashes       \* how many crashes have happened

vars == << needsIntake, state, files, ledger, server, crashes >>

-----------------------------------------------------------------------------
NoRun  == [form |-> "none"]
Intake == [form |-> "intake"]

(* Whether a result has been recorded in the run since it was saved is all *)
(* that matters of its tasks here.                                         *)
CompanyRun(request, worked) ==
  [form |-> "run", request |-> request, worked |-> worked]

(* The draft of a work item is made from the request and the task, and the *)
(* path of its file from the hash of the draft.                            *)
Items == Requests \X (1 .. NTasks)

Idle   == [pc |-> "idle"]
Asking == [pc |-> "asking"]

(* A mutant: the tasks are counted from zero. *)
CreatingFromZero(request) ==
  [pc |-> "granted", request |-> request, task |-> 0]

Creating(request) == [pc |-> "granted", request |-> request, task |-> 1]

At(s, pc) == server[s].pc = pc

Item(s) == << server[s].request, server[s].task >>

Init ==
  /\ needsIntake \in Intakes
  /\ state = NoRun
  /\ files = [i \in Items |-> "absent"]
  /\ ledger = [i \in Items |-> 0]
  /\ server = [s \in Servers |-> Idle]
  /\ crashes = 0

(* A mutant: an intake form that exists is made again. *)
StartGoalAgain(s) ==
  /\ At(s, "idle")
  /\ state.form # "run"
  /\ \/ needsIntake   /\ server' = [server EXCEPT ![s] = Asking]
     \/ ~ needsIntake /\ \E r \in Requests :
                           server' = [server EXCEPT ![s] = Creating(r)]
  /\ UNCHANGED << needsIntake, state, files, ledger, crashes >>

(* start_company_goal returns what it finds, and makes what it does not.   *)
StartGoal(s) ==
  /\ At(s, "idle")
  /\ state = NoRun
  /\ \/ needsIntake   /\ server' = [server EXCEPT ![s] = Asking]
     \/ ~ needsIntake /\ \E r \in Requests :
                           server' = [server EXCEPT ![s] = Creating(r)]
  /\ UNCHANGED << needsIntake, state, files, ledger, crashes >>

(* The form replaces whatever is there by now. *)
SaveIntake(s) ==
  /\ At(s, "asking")
  /\ state' = Intake
  /\ server' = [server EXCEPT ![s] = Idle]
  /\ UNCHANGED << needsIntake, files, ledger, crashes >>

(* A mutant: a run that exists already is created again. *)
SubmitAgain(s, r) ==
  /\ At(s, "idle")
  /\ state # NoRun
  /\ server' = [server EXCEPT ![s] = Creating(r)]
  /\ UNCHANGED << needsIntake, state, files, ledger, crashes >>

(* submit_goal_intake_result returns the run if there is one, and needs an *)
(* intake form otherwise.                                                  *)
SubmitIntake(s, r) ==
  /\ At(s, "idle")
  /\ state = Intake
  /\ server' = [server EXCEPT ![s] = Creating(r)]
  /\ UNCHANGED << needsIntake, state, files, ledger, crashes >>

(* create_work_item: what the kernel does up to the grant is left to it;   *)
(* the adapter writes the file of the item; the kernel redeems the grant.  *)
OpenItem(s) ==
  /\ At(s, "granted")
  /\ files' = [files EXCEPT ![Item(s)] = "torn"]
  /\ server' = [server EXCEPT ![s].pc = "writing"]
  /\ UNCHANGED << needsIntake, state, ledger, crashes >>

WriteItem(s) ==
  /\ At(s, "writing")
  /\ files' = [files EXCEPT ![Item(s)] = "whole"]
  /\ server' = [server EXCEPT ![s].pc = "written"]
  /\ UNCHANGED << needsIntake, state, ledger, crashes >>

(* A mutant: the run is saved when the last item has its grant. *)
RedeemAllButLast(s) ==
  /\ At(s, "written")
  /\ ledger' = [ledger EXCEPT ![Item(s)] = @ + 1]
  /\ server' = IF server[s].task + 1 >= NTasks
               THEN [server EXCEPT ![s].pc = "committed"]
               ELSE [server EXCEPT ![s].pc = "granted", ![s].task = @ + 1]
  /\ UNCHANGED << needsIntake, state, files, crashes >>

RedeemGrant(s) ==
  /\ At(s, "written")
  /\ ledger' = [ledger EXCEPT ![Item(s)] = @ + 1]
  /\ server' = IF server[s].task = NTasks
               THEN [server EXCEPT ![s].pc = "committed"]
               ELSE [server EXCEPT ![s].pc = "granted", ![s].task = @ + 1]
  /\ UNCHANGED << needsIntake, state, files, crashes >>

(* The new run replaces whatever is there by now. *)
SaveRun(s) ==
  /\ At(s, "committed")
  /\ state' = CompanyRun(server[s].request, FALSE)
  /\ server' = [server EXCEPT ![s] = Idle]
  /\ UNCHANGED << needsIntake, files, ledger, crashes >>

(* Some tool records a result in the run. *)
RecordResult ==
  /\ state.form = "run"
  /\ state' = CompanyRun(state.request, TRUE)
  /\ UNCHANGED << needsIntake, files, ledger, server, crashes >>

Crash(s) ==
  /\ ~ At(s, "idle")
  /\ crashes < MaxCrashes
  /\ crashes' = crashes + 1
  /\ server' = [server EXCEPT ![s] = Idle]
  /\ UNCHANGED << needsIntake, state, files, ledger >>

ServerStep(s) ==
  \/ StartGoal(s)
  \/ SaveIntake(s)
  \/ \E r \in Requests : SubmitIntake(s, r)
  \/ OpenItem(s)
  \/ WriteItem(s)
  \/ RedeemGrant(s)
  \/ SaveRun(s)

Next ==
  \/ \E s \in Servers : ServerStep(s) \/ Crash(s)
  \/ RecordResult

Spec == Init /\ [][Next]_vars

(* Every server goes on with its call, and its client starts the goal and  *)
(* submits the intake as long as there is no run.                          *)
FairSpec == Spec /\ \A s \in Servers : WF_vars(ServerStep(s))

-----------------------------------------------------------------------------
(* Type invariant of the start of a run. *)
States ==
  {NoRun, Intake}
    \cup [form : {"run"}, request : Requests, worked : BOOLEAN]

Jobs ==
  {Idle, Asking}
    \cup [pc : {"granted", "writing", "written", "committed"},
          request : Requests, task : 1 .. NTasks]

TypeOK ==
  /\ needsIntake \in Intakes
  /\ state \in States
  /\ files \in [Items -> {"absent", "torn", "whole"}]
  /\ ledger \in [Items -> Nat]
  /\ server \in [Servers -> Jobs]
  /\ crashes \in 0 .. MaxCrashes

(* However many servers create the run, and wherever they are killed, a    *)
(* run that is saved has a committed work item for each of its tasks.      *)
RunCommitted ==
  state.form = "run" =>
    \A t \in 1 .. NTasks : ledger[<< state.request, t >>] > 0

(* The files of its work items may be written again by another server, but *)
(* are whole when that is done, unless the server is killed meanwhile.     *)
RunItemsRestored ==
  state.form = "run" =>
    \A t \in 1 .. NTasks :
      LET item == << state.request, t >>
      IN  \/ files[item] = "whole"
          \/ /\ files[item] = "torn"
             /\ \/ crashes > 0
                \/ \E s \in Servers : At(s, "writing") /\ Item(s) = item

(* Asking again for a goal that has its run commits nothing: a work item   *)
(* is committed more than once only by servers that all found no run, and  *)
(* after a killed creation.  With an intake, a server that still holds a   *)
(* form replaces the run by it, and every server that holds none may then  *)
(* create the run once more: one server after the first form, two after    *)
(* the second, and so on to all of them after the last one.                *)
CommittedOncePerAttempt ==
  LET servers  == Cardinality(Servers)
      attempts == IF needsIntake THEN (servers * (servers + 1)) \div 2
                                 ELSE servers
  IN  \A i \in Items : ledger[i] <= attempts + crashes

(* tests/test_agent_session.py:1474 says that start_company_goal is        *)
(* idempotent for one goal: the run that a goal has is the run that it     *)
(* keeps, and what is recorded in it is not lost by starting it again.     *)
StartedRunKept ==
  [][state.form = "run" =>
       /\ state'.form = "run"
       /\ state'.request = state.request
       /\ state.worked => state'.worked]_vars

(* A client that starts the goal and submits its intake gets a run, and    *)
(* the goal keeps having one.                                              *)
GoalGetsRun == <>[](state.form = "run")
=============================================================================
