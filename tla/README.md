# agency_workroom: a verification project

TLA+ modules, TLC configurations and TLAPS proofs for `agency_workroom`
(`src/src/agency_workroom`), a local MCP tool server that lets an AI client run
small "company" goals: it plans the tasks of a company, records the results the
client produces, says what to call next, stops at blockers and approval gates,
and can deploy a reviewed landing page to a Git checkout.

Paths below are relative to `src/src/agency_workroom/` unless they name `docs/`,
`tests/` or the top-level `README.md` of the repository.

## 1. The system

### 1.1 Components, their state and their operations

| Component | Code | State | Operations |
|---|---|---|---|
| Company catalogue, local routes | `company_specs.py`, `local_routes.py` | none (tables) | look-ups: tasks of a company; for each of 25 result kinds the tool, the category of task, the required kinds |
| Result tools | `agent_session.py`, `models.py` | tasks of a run: status, result refs | 25 `create_*`/`prepare_*` handlers, `record_work_result` |
| Landing page, QA, deploy proposal | `landing_artifact.py`, `landing_qa.py`, `github_pages_deploy.py` | `index.html`, `qa_report.json`, the deploy bundle | write the page, check it, copy it into a bundle |
| Advisor | `agent_session.py:175-270`, `809-1634` | none | `recommend_next_tool_call`: a walk over the routes, then one branch per company |
| Goal supervisor | `supervisor.py`, `agent_session.py:1637-1900` | role requests, role results, turns, handoffs, decisions (one file each) | `advance_company_goal`, `run_next_local_step` |
| Run store | `session_store.py` | `runs/<run_id>/state.json` | load; save by a temporary file and `os.replace` |
| Start-up, goal intake | `goal_intake.py`, `workflow.py`, `planner.py`, `team.py`, `agent_session.py:456-663` | intake form, run, work items | `start_company_goal`, `submit_goal_intake_result` |
| Kernel gateway | `kernel_gateway.py`, `local_work_module.py` | work item files, ledger of the external kernel | `create_work_item` |
| DevOps operation | `devops_operations.py`, `agent_session.py:3857-3942` | operation plan, execution evidence, the target checkout | `prepare_github_pages_deploy_execution_plan`, `execute_github_pages_deploy` |
| Run inspection | `run_inspection.py` | none (reads everything above) | replay, audit, evaluate |
| Document writers | `*_review.py`, `release_*.py`, ... | one directory per result | write the files of a document |
| Runbook documents | `company_runbooks.py`, `runbook_*.py`, `cross_role_*.py`, `release_candidate_audit.py` | six documents per runbook, two reports per run | write a document from runs or from the documents before it |
| Release gate | `release_readiness_gate.py` | a workspace, a virtual environment, `release_readiness_gate_result.json` | `run_release_readiness_gate` |
| Remaining reports | `company_briefing.py`, `company_evidence_chain.py`, `chain_continuation.py`, ... | report files | texts computed from runs, read by the client only |
| MCP server, manifest | `mcp_server.py`, `mcp_manifest.py` | none | forward a call to `agent_session` |

### 1.2 How they interact

A server process reads calls from its standard input and answers them one at a
time, so the calls of one server never interleave. A client session starts a
server of its own, and several servers may share a workspace: nothing locks a run, a
file or the checkout. Every handler that records a result

1. loads `state.json`,
2. checks its arguments against what it loaded, and returns without a change if the
   task already has its result,
3. writes the files of the result, to paths that depend on run and task only,
4. replaces `state.json` by what it loaded plus its own ref.

`advance_company_goal` asks the advisor, plans a turn, runs the recommended tool
through the same handlers and writes its records around it. The advisor and the
inspection are functions of the saved run and its files. The deployment reads the
proposal's bundle and the operation plan, works on a Git checkout that belongs to
somebody else, and completes the `github_pages` task.

The documents of a runbook form a pipeline through the file system: progress report,
closeout packet, smoke and audit are each made from what is on disk of the ones before,
never from the runs again, and each has one path per runbook whatever runs it was
written for. The release gate is a process of its own that runs commands, makes up runs and
then calls the same tools in its workspace.

### 1.3 What is hard, and what makes each component correct

* **Result tools, advisor, supervisor** are four descriptions of one process: the
  route table, the checks in the handlers, the hand-written branches and the
  phase detection. They have to agree for eight companies in every order of
  calls, hand-made results included. Correct: a recorded result has what it rests
  on; a recommended tool can be called and has something to do; silence means
  that no tool is left; the phase fits the recommendation; a turn stops exactly
  at blockers and gates.
* **Landing page and deployment**: a proposed or executed deployment has a report
  that passed, and an executed one a plan.
* **Run store**: kills between the writes of a result and the save, and lost
  updates between servers. Correct: with one server nothing acknowledged is lost
  and files named by the run are whole; with several, what is saved is still a
  closed chain and calling again completes the run.
* **Start-up**: work items are committed one by one, the run is saved at the end.
  Correct: a saved run has all its items committed; asking again commits nothing;
  the goal gets its run.
* **Supervisor records**: five unsynchronised writes per turn, with file names that
  are hashes. Correct: a turn that can be read names a request and a result that
  can be read; a handoff has its turn; a kill costs one turn at most; the
  inspection passes at any moment and ends up showing the gate at which the run stopped.
* **Deployment**: nothing in it is a transaction, the checkout is shared, and
  bundles may be edited between check and copy. Correct: commits hold planned
  paths only, evidence names the commit that has its files, a run is completed
  only with evidence, and a retry completes or is stuck where an operator sees it.
* **Runbook documents**: shared paths, no run ids in them but those written last, no
  atomic writes. Correct: a document that says it is ready is about runs that exist,
  cover the stages, have their reports and no audit errors.
* **Release gate**: it may be killed and started again in the same workspace. Correct: no
  attempt reports as its own what another one installed, and every attempt ends with a
  result that the leftovers do not spoil.

`PROJECT.json` lists these as `hazards`, each at its line with the properties that
cover it, or with a note that says why none does yet.

## 2. Modules

```
LocalRoutes <- CompanyTools <- Advisor <- CompanyRun <- SupervisorTurn <- RunInspection
               CompanyTools <- RunStore
EvidenceChain <- EvidenceChainProofs;    CompanyRun and RunStore instantiate EvidenceChain
CompanyTools <- CompanyToolsProofs       (lemmas on the tools)
CompanyRun, CompanyToolsProofs <- CompanyRunProofs,  instantiates EvidenceChainProofs
RunStore, CompanyToolsProofs <- RunStoreProofs,      instantiates EvidenceChainProofs
RunInspection, CompanyRunProofs <- SupervisorTurnProofs
RunStartup <- RunStartupProofs
GitHubPagesDeploy <- GitHubPagesDeployProofs
RunbookRelease <- ReleaseGate <- RunbookReleaseProofs
```

(`A <- B`: B extends A.) `MC<module>` extends a
module with the values of its constants for TLC.

| Module | Models | Correspondence |
|---|---|---|
| `LocalRoutes` | companies, routes | The tasks of each company in order; `LOCAL_ROUTES` as a function from kinds. A task is named by its category: no built-in company has two tasks of one category. |
| `CompanyTools` | handlers | `tasks` is a function from categories to `[status, refs]`; a ref is its kind. `Handler(name, category, kind, needs)` is what differs between the handlers, `Callable`, `Fresh` and `AfterTool` are their common shape. |
| `Advisor` | `recommend_next_tool_call`, `detect_goal_phase`, `plan_supervisor_transition` | The walk, the eight branches, the sequence of phase tests, in the order of the code. Arguments and reasons of a recommendation are left out. |
| `EvidenceChain` | what a run promises (abstract) | `recorded` grows by results whose prerequisites are recorded; a verdict is given once; the proposal needs the passed verdict. |
| `CompanyRun` | one run, one server, calls atomic | Variables `company`, `tasks`, and the files that decide something: `page` (index.html), `report`, `reviewed` (the page the report is about), `proposed` (the page in the bundle), `planned`. One action per group of tools of the same shape; `Advance` is `advance_company_goal` as one step; `EditPage` is the user. |
| `SupervisorTurn` | `advance_company_goal` write by write, with kills | `call` is the local state of the call (step, open file, outcome, phase, tool); `records` is the directory of supervisor files. A record's name is the tuple of what goes into the hash of its id, so two records share a file exactly when the code gives them one id. `OpenRecord` truncates, `FillRecord` fills: `write_text` is not atomic. |
| `RunInspection` | replay, audit, evaluate | Operators on the state of `SupervisorTurn`; `Of(kind)` is what a replay reads (torn files are skipped). |
| `RunStore` | load / check / truncate / fill / save of several servers | `saved` is state.json, `files` is the state of each result's files, `server[s]` is the call a server is in with the run it loaded. `Save` is the atomic `os.replace`. The deploy plan and the deployment are calls like the others, but guided by the plan and the evidence in the file system: `FindEvidence` is the early return of the execution, after which the run is saved all the same. |
| `RunStartup` | start of a goal by several servers | `state` is nothing, an intake form or a run; `files` and `ledger` belong to the work items; `server[s]` is at one of the steps of creating a run. |
| `GitHubPagesDeploy` | `execute_github_pages_deploy` on a shared checkout | `work`, `index`, `commits` are the checkout (Git is external: status, add, commit, rev-parse as the code uses them), `source` the bundles, `evidence` the evidence files, `exec[e]` the call of an executor. One action per step that another process or a kill can see. |
| `RunbookRelease` | the eight tools that write runbook documents and run reports | `Program` gives each tool as its sequence of loads, reads, reviews and writes; a server steps through it (`Look`, `Raise`, `OpenFile`, `WriteFile`). `files` holds of a document whether it is absent, torn or whole, for which runs it was written and whether it found nothing amiss. |
| `ReleaseGate` | `run_release_readiness_gate`, attempt after attempt | `run_release_readiness_gate` is the plan as a sequence of steps; the tools it calls are those of `RunbookRelease` with the gate as the only server. `venv` says by which attempt environment and package were made. |

`map` in `PROJECT.json` gives for every definition the lines that it stands for.
Definitions marked "a mutant" in a comment are deliberate errors; they are not used by
the specifications. Replacing a definition by its mutant must make the property
that PROJECT.json pairs with it fail.

## 3. Runs

All bounds are constants of the modules. The number after the name of a run is the
number of distinct states that TLC finds.

| Run | Question | Bounds | Why they are enough |
|---|---|---|---|
| `CompanyRun` (22,416 states) | Do tools, routes, advisor, phase and supervisor agree, and is a run an evidence chain? Does a client that keeps calling the supervisor run out of local steps? | all 8 companies, 3 page contents (generated, edited and good, edited and bad) | A run has at most 8 tasks, so all orders of all calls are explored; nothing distinguishes more than "reviewed or not" and "passes or not" in a page. |
| `SupervisorTurn` (41,402) | Are the records of turns consistent at every moment, whatever is killed? Is a turn one step of `CompanyRun`? | business_validation (gate, QA, handoffs) and implementation_planning (decision only), hand-made testing result, 1 kill | The two companies reach every outcome and each kind of record. A second kill finds what the first one found: a torn file, or a missing one, with the run as saved; two kills make the run longer than five minutes. |
| `RunStoreOneServer` (720) | What survives kills of the only server? | business_validation, 3 kills | One kill for each of the three landing files, or for a call and two repetitions of it. |
| `RunStoreTwoServers` (250,662) | What survives lost updates, and is a deployment recorded in the end? | 2 servers, 1 kill | A lost update needs two servers; a third one loses the same refs. |
| `RunStartup` (16,839) | Can a run name items that are not committed? | 2 servers, 2 requests, 2 tasks, 1 kill, with and without intake | Two tasks give a kill before, between and after the commits of a creation. For any number see the proof. |
| `DeployOneExecutor` (181,645) | Is evidence true, and what is left by a kill or an edit? | 1 executor, 3 plans (2 paths, 2 runs), 2 kills, 1 edit | Plans that share a run, plans that share a path, and plans that share only the workflow file; the second kill hits the retry. |
| `RunbookOneServer` (3,589,394) | Can a document be ready that should not be? | 1 server, 2 stages, 2 runs, two lists of runs (all, and one short of a stage), 1 kill | Two lists are what stale documents need; a document of the short list is what the check of the stages must not miss. The theorems have any number of each. |
| `ReleaseGate` (434,540) | Do killed attempts spoil later ones? | the four runs and stages of the code, 2 kills | The second kill hits the attempt that cleans up after the first. |
| 4 violation runs | see section 5 | 2 servers, or business_validation | |

The properties are named for what they say; each one has a comment in its module. The
type invariant of each module is one of them (that of `RunbookRelease` is proved, and has
no run). Of the others:

* **Refinement**: `ImplementsEvidenceChain` (in `CompanyRun` and in `RunStore` with
  one server), `ImplementsCompanyRun` (a turn with its records is one step of
  `CompanyRun`). With two servers the saved run does not refine the chain, because
  saves take results back; `SavedRunClosed` is what is left of it.
* **Agreement of different code on one thing**: `RecommendedToolRuns`,
  `SilenceMeansDone`, `WalkAgreesWithBranches`, `PhaseFitsAdvice`,
  `TurnStopsAtGates`, `EvaluationAgreesWithTurn`.
* **What a kill leaves**: `AckedIsSaved`, `RecordedFilesWhole`,
  `StatusTellsVerdict`, `RecordedFilesRestored`, `TurnKeepsEvidence`, `HandoffFollowsTurn`,
  `CrashCostsOneTurn`, `AuditPasses`, `CompletedRunHasEvidence`, `EvidenceTellsTruth`,
  `CommitsOnlyPlannedPaths`, `RunItemsRestored`, `TestsOwnInstall`.
* **Interleavings of servers**: `SavedRunClosed`, `RunCommitted`,
  `CommittedOncePerAttempt`, `RecordedEvidenceRestored` (proved, without a run).
* **Stale documents**: `ReadyRunsReviewed`, `ReadyCoversStages`.
* **Liveness**: `AttemptEnds`, `SupervisorDrains`, `EvaluationShowsStop`, `RunCompletes`,
  `GoalGetsRun`, `DeployCompletesOrSticks`.

Three properties hold for one server and fail for several. `RecordedReportNotRewritten` has a
run for two servers (section 5). `EvidencedPlanNotCommittedAgain` is checked and proved for one
executor: with two executors and two runs that publish to one path, both find no evidence
(`devops_operations.py:159`), one commits and records it, the other run's plan is committed,
and the first plan is committed again, although
`docs/plans/2026-06-01-devops-operation-protocol-design.md:186` says that execution returns
the existing evidence. `ReadyCoversStages` is checked and proved for one server: with
two, the progress report that the closeout packet reads back
(`runbook_closeout_packet.py:31`) may be the one that another server has just written for
other runs.

### Fairness

The program does nothing unless it is called: fairness is an assumption on the client
(it keeps calling) and on the server process (it finishes a call that it is working on
unless it is killed, which is never assumed and is bounded).

* `CompanyRun!FairSpec`: the client keeps calling `advance_company_goal`. Weak
  fairness is enough because an enabled turn stays enabled or another call made
  the same progress.
* `SupervisorTurn!FairTurnSpec`: the same, with each step of the turn weakly fair.
  No other call is fair.
* `RunStore!FairSpec`, `RunStartup!FairSpec`: each server's next step is weakly fair;
  which call a client makes is not fair, except that in
  `RunStore` the client of each server comes back to an approved plan (strong fairness of
  its load, since other calls may be refused again and again in between).
* `ReleaseGate!FairGateSpec`: an attempt that was started goes on; that is, its commands
  end. The code gives a timeout only to the smoke. Nothing says that an attempt is
  ever started.
* `GitHubPagesDeploy!FairSpec`: each executor's next step is weakly fair, and the
  client of each executor comes back to every plan (strong fairness of
  `Start(e, p)`, which is enabled only while the executor is idle).

Two executors in one checkout have no liveness run: they can chase each other for ever,
each truncating a file at the very moment at which the other looks; no fairness of the
scheduler excludes that, and a real client would not retry for ever. What holds of them
for safety is proved (`RecordedEvidenceAlwaysRestored`).

`RunCompletes` says less than one may expect, and what it leaves out happens: with two
servers a run can end, for good, completed by a deployment whose proposal the other
server's save took back, and with a QA report that was rewritten and failed. The
deployment is decided by the plan and its evidence and never looks at the run again
(`agent_session.py:3893`).

`CHECK_DEADLOCK FALSE` is set where the program really stops: a run whose results are
all recorded has no call left that changes it.

## 4. What is proved

TLC shows the properties for the instances above; the theorems hold for every value of
the constants: any set of pages and any predicate on them, any number of servers,
executors, requests, tasks, plans, lists of runs and kills. Every safety property that a
passing run checks, each refinement included, is proved as well.

* **`EvidenceChainProofs`** (`ChainIsSafe`, `ChainKeepsResults`). The abstract chain
  keeps what its name says: `ChainInv` (what is recorded rests on what is recorded; the
  proposal has a passed verdict; the deployment a proposal) is inductive. The only
  assumption, `ChainAssumption`, says that a proposal requires the review, a deployment
  the proposal, and that the review is neither of them.
* **`CompanyRunProofs`, the chain** (`TypeCorrect`, `ChainAlwaysClosed`,
  `DeploymentAlwaysReviewed`, `RunImplementsChain`, `RunKeepsResults`). The inductive
  invariant `IInv` has five conjuncts. `TypeOK` alone says nothing of *where* a result is
  recorded, and `ChainInv` is about kinds, not tasks: `AtHome` ties the two together (a kind
  of a route is only ever recorded on a task of the category that the route names). The last
  two carry the plan: a plan exists only with a proposal, and the evidence only with a
  plan. `HandlersHonorRoutes` (in `CompanyToolsProofs`) is where the two descriptions of the
  tools meet: each handler checks what the route table lists for its kind. Then there is one
  lemma per action, all of which rest on `RecordOnTask` (there, too: what a result added to a
  task changes of the set of recorded kinds). `RunImplementsChain` is the refinement: each
  step records ready results of the chain or stutters; what the abstract chain keeps
  (`ChainKeepsResults`) then holds of a run without another induction.
* **`CompanyRunProofs`, the advice** (`RecommendedToolAlwaysRuns`, `TurnAlwaysStopsAtGates`,
  `SilenceAlwaysMeansDone`, `WalkAlwaysAgrees`, `PhaseAlwaysFitsAdvice`,
  `RecordedNeverRecommended`, `LocalStepAlwaysRecords`). These are about functions of the run
  and need no induction over steps, but `IInv`. An advice is `Sound` if the tool it names is
  `Due`: its task is planned, its result is not recorded, and what the result rests on is.
  Walk and branches are put together from few forms (`StageAdvice`, `OrElse`, the first task of a
  list), and soundness is proved once per form, then per company. The other half needs the
  tables: the kinds of each company form a line in which each rests on those before it
  (`TheCompanies`, `KindsInLine`), so that in any run at most one is due (`OneDue`). Hence two
  advices that both name a due tool name the same one (`WalkAlwaysAgrees`), and each branch
  is shown to speak as long as a kind is due (`SilenceAlwaysMeansDone`).
  `DueTellsPhase` does for the phases what `OneDue` does for the tools. The last two theorems
  are what safety can say of `SupervisorDrains`: a local step records a result that the run
  did not have, and a recorded one is neither taken back nor recommended again.
* **`RunStartupProofs`** (`StartupTypeCorrect`, `SavedRunIsCommitted`,
  `SavedRunHasItsItems`, `ItemsCommittedOncePerAttempt`). `RunCommitted` is
  not inductive: a server saves the run long after its first commit. The invariant
  `IInv` adds `CommittedSoFar`: a server that is at task t of a request has committed
  the items before t, and the ledger never shrinks. So a saved run is committed however
  many servers create it at once and wherever they are killed. `FilesInv` says the same of
  the files of the items. `CountInv` counts: what is committed, what servers
  at work will still commit, and the creations that can still begin (`Credit`) never exceed
  what was allowed plus the kills. Each intake form that is saved late lets every server that
  holds none create the run once more: 1 + 2 + ... + n creations for n servers. Two
  servers, as in the run, cannot tell this number from n + 1; the proof for any n can.
* **`SupervisorTurnProofs`, the run** (`TurnImplementsRun`, `ChainClosedDuringTurns`,
  `DeploymentReviewedDuringTurns`, `ResultsKeptDuringTurns`). Every step of a turn is a step
  of `CompanyRun` (`ExecuteStep` is `Advance`, the other calls are themselves) or leaves the
  run alone; so what `CompanyRunProofs` proves holds between the writes of a turn, too, for
  any number of kills.
* **`SupervisorTurnProofs`, the records** (`TurnTypeCorrect`, `TurnAlwaysKeepsEvidence`,
  `HandoffAlwaysFollowsTurn`, `AuditAlwaysPasses`, `EvaluationAlwaysAgreesWithTurn`,
  `CrashAlwaysCostsOneTurn`). The danger is that a record is opened, and so truncated, that
  another one names. `TurnInv` excludes it through the run: a record that names a result is
  only there if the run has recorded that result (`GoodRecords`), while the call in progress
  either has not run its tool yet, so that its result is new (`RecommendedToolAlwaysRuns`),
  or has run it and knows which of its records are written (`GoodCall`). `CrashInv` counts
  the role requests that no turn answers: that of the call in progress, that of a proposal
  that was refused, and at most one for each kill. The evaluation agrees with the turn
  because a task is only blocked by a failed report or a proposal (`BlockedTasks`).
* **`RunStoreProofs`** (any number of servers: `StoreTypeCorrect`, `SavedRunAlwaysClosed`,
  `RecordedFilesAlwaysRestored`; one server: `AckedIsAlwaysSaved`,
  `RecordedFilesAlwaysWhole`, `StatusAlwaysTellsVerdict`, `StoreImplementsChain`,
  `StoreKeepsResults`). For any number of servers, `Consistent`: not
  only the saved run but the view that each server holds is closed, and a view *bears* the
  call that it is held for, that is, it has what the call's kind requires. A save then
  replaces a closed run by another closed one, whatever was saved in between: this is why
  lost updates do not open the chain, and it needs no lock. `SafeInv` holds the views
  to the state of their files in the same way, since what a view has will be recorded again.
  For one server (`OneServer`), `SoloInv`: by
  `Ahead` the held view is the saved run, the files being written belong to no recorded
  result, and those of a result about to be saved are whole. `ReviewInv` follows the verdict
  from the write of the report to the save of the status, and to the proposal, the plan and
  the deployment behind it; with it, every save is a step of the chain or a stutter.
  `StatusAlwaysTellsVerdict` is about a company with a testing task.
* **`GitHubPagesDeployProofs`** (`DeployTypeCorrect`, `RecordedEvidenceAlwaysRestored`,
  `CompletedRunAlwaysHasEvidence`, `EvidencedPlanNeverCommittedAgain`,
  `EvidenceAlwaysTellsTruth`, `AlwaysCommitsOnlyPlannedPaths`). For any number of executors:
  evidence is torn only while somebody is between the opening and the writing of it, or
  after a kill
  (`TornInv`), and whoever is about to save has opened it (`OpenedInv`). For one executor
  (`OneExecutor`) `WholeInv` says what the executor knows of the evidence at each of its
  steps (so a plan that it commits has none), and `TreeInv` what it knows of the work tree,
  the index and HEAD: that is why `git commit`, which takes the whole index, commits planned
  paths only and why `rev-parse HEAD` names the right commit. Plans may share paths, but none publishes
  to the workflow file or to the owner's notes.
* **`RunbookReleaseProofs`** (`ReleaseTypeCorrect`, `ReadyRunsAlwaysReviewed`,
  `ReadyAlwaysCoversStages`, `GateAlwaysTestsOwnInstall`). `ReviewInv` follows a
  verdict along the pipeline: a server that has found nothing amiss after its reviews has a list whose runs are reviewed, and
  reports, once there, are never absent again (torn at most, until they are written
  again with the same verdict), so the verdict survives
  its own staleness, for any number of servers. `CoverInv`, for one server (`OneServer`):
  between the write of the progress report and its reading nothing else is written.
  `GateInv` says by the number of the step what environment and package an attempt has: from
  the creation of the environment to the smoke, nothing of an earlier attempt. For this the
  plan of the gate, a concatenation of sequences, is taken apart by position (`GatePlan`,
  `GateCommands`).

The assumptions on constants are in the modules that declare them: `MaxCrashes \in Nat`
and the like, `NTasks \in Nat \ {0}`, `Intakes \subseteq BOOLEAN`, the companies among
those of the catalogue, the generated page among the pages, finitely many servers that start
a goal (they are counted). That the constants of the gate are its four runs and stages
(`GateAssumption`) is asked of the checked instance only; its theorem does not need it. The company and route
tables are definitions, not constants: the theorems are about these eight companies.

**Only model-checked.** Liveness, because the prover does not treat fairness:
`SupervisorDrains`, `EvaluationShowsStop`, `RunCompletes`, `GoalGetsRun`,
`DeployCompletesOrSticks` and `AttemptEnds`. Of two of them the safety half is proved
(`LocalStepAlwaysRecords` for the first; `EvaluationAlwaysAgreesWithTurn` for what the second
shows). And the four runs of section 5, whose properties do not hold.

## 5. Where the code differs from what its documents say

Each of these is a run that is expected to find a violation; the findings in
`PROJECT.json` quote the line of the document or test.

1. `NoProposalAdviceWithoutPassingQa`. The walk along the routes looks only at refs, so
   after a failed report and a hand-made result for the testing task it recommends the
   proposal, which then raises on every call. The properties `RecommendedToolRuns`,
   `SupervisorDrains` and `EvaluationShowsStop` state this one exception explicitly.
2. `ProposalCopiesReviewedPage`. The proposal copies the page as it is at that moment;
   nothing compares it with the page that the report is about.
3. `RecordedReportNotRewritten`. Of two servers that both loaded the run before the
   report was recorded, the second rewrites the report.
4. `StartedRunKept`. A start that found no run saves its own, and replaces a run saved
   meanwhile with the results recorded in it.

## 6. What is abstracted, and what is not modelled

* Texts, reasons, arguments of recommendations, metrics, timestamps and the layout of
  files. The landing QA is one predicate on the content of a page (`PassingPages`).
* A ref is its kind: the path of a result is a function of the run, the kind and the
  task. The free text of `record_work_result` is one kind, `WorkResult`.
* Files of a result, or of a document (JSON and Markdown), are torn or whole together.
* `prepare_github_pages_deploy_execution_plan` is one step of `CompanyRun` and a call of
  `RunStore`, where there is one plan per run. The git work of a deployment is one write in
  `RunStore`, and in detail in `GitHubPagesDeploy`. Hashes and
  the approval phrase are taken for what they establish: the approved plan is the plan
  that was written.
* `start_company_run`'s look for a run is merged with that of `start_company_goal`, which
  it follows at once.
* The kernel is an external package; of it there is the write of the item file and the
  commit in the ledger, in the order in which the gateway calls them. Concurrent appends
  to the ledger and the kernel's boot are not modelled.
* Companies that a user registers, with repeated categories: the walk handles them,
  the model's tasks are named by category and do not.
* Git fails only for the reasons that the code can cause (nothing to commit); lock files,
  hooks and full disks are left out.
* In `SupervisorTurn` a run starts out created (the intake is in `RunStartup`), one
  server works on it, and the supervisor's snapshot, a read-only report, is left out.
* Of the inspection, the timeline, the progress figures and the existence of artifact
  files are left out.
* In `RunbookRelease` the audit errors of a run are fixed from the start (`damaged`): whether
  a report was written before or after its run went wrong is not told apart. A run may be
  at any point of its work; as in the code, a stage counts as covered when it has a run.
  The stages' companies never block a task, so blocked stages do not occur. The audit's
  checks of the installed package, the manifest and the exports do not depend on the
  workspace and are taken as passed.
* In `ReleaseGate` a command passes or fails for any reason, except that nothing passes in
  an environment that is not there or has no package: no `PYTHONPATH` is assumed to lead
  to the sources. Commands end. The workspace is one that is kept (a temporary one has no
  earlier attempts), and no server works in it.
* Not modelled: the company briefing, the evidence chain report, the chain continuation,
  the context transfer and the goal report, which are texts that only the client reads;
  the MCP transport and the manifest, which keep no state.

## 7. Plan

Done in this order: catalogue, tools, advisor and one run; the evidence chain and its
proofs; the store; the deployment; start-up and its proofs; turns, inspection and the
refinement proof; the deployment in the store; the proofs of the store and the
deployment; the runbook documents, their proofs, and the release gate; the proofs of the
advice, the records, the start-up's files and counts, the store's refinement and the
gate. Next:

1. **Two servers advancing one run.** `advance_company_goal` plans its turn from one
   load and `run_next_local_step` loads the run again (`agent_session.py:1718`, `1640`):
   the tool executed may be another one than the role request names. The evidence chain of
   `docs/plans/2026-06-02-supervisor-state-machine-v2-design.md:30-37` is what to check.
2. **Stale gates in evaluations.** `recommended_next_actions` collects every approval
   turn ever written; `docs/plans/2026-06-02-replay-audit-evaluation-v1-design.md:11`
   promises to explain the current one.
3. **Reports that outlive their run's state.** `RunbookRelease` over runs that change after
   their quality report was written.
4. **Variants for liveness**: what of `RunCompletes` and `DeployCompletesOrSticks` is safety,
   that is, which step of a retry never undoes what an earlier one did.
5. **Operation plan in detail**: its hash, its file, and the comparison of the approval.

## 8. Running it

```
tlc -workers 2 -config <run>.cfg <module>.tla     # module and cfg of each run: PROJECT.json
tlapm <module>Proofs.tla
```
