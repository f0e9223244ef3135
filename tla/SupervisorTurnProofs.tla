------------------------ MODULE SupervisorTurnProofs ------------------------
(***************************************************************************)
(* Theorems about the supervisor's turns and the inspection of its records *)
(* for any companies, pages, calls of the client and kills.                *)
(*                                                                         *)
(* A turn implements one step of CompanyRun, so that everything proved of  *)
(* a run holds between the writes of a turn, and after a kill, as well.    *)
(* The records are right because no step opens one that another names: a   *)
(* record that names a result of the run was written after it (TurnInv),   *)
(* so none of a step that is still to be done can be there.  And a request *)
(* that no turn answers is that of the call in progress, of the proposal   *)
(* that was refused, or of a call that was killed (CrashInv).              *)
(***************************************************************************)
EXTENDS RunInspection, CompanyRunProofs, FiniteSetTheorems

(* Every call of a tool by the client itself is a step of the run. *)
LEMMA ToolCallIsRunStep ==
  ASSUME NEW tool \in Tools, CallTool(tool)
  PROVE  Next
  BY DEF CallTool, Next

(* What the client calls between two turns is a step of the run. *)
LEMMA OtherCallIsRunStep ==
  ASSUME OtherCall
  PROVE  Next
<1>1. CASE \E tool \in Tools : CallTool(tool)
  BY <1>1, ToolCallIsRunStep
<1>2. CASE \E c \in RecordedByHand \cap TasksOf(company) : RecordWorkResult(c)
  BY <1>2 DEF Next
<1>3. CASE PrepareExecutionPlan
  BY <1>3 DEF Next
<1>4. CASE ExecuteDeploy
  BY <1>4 DEF Next
<1> QED
  BY <1>1, <1>2, <1>3, <1>4 DEF OtherCall

(* Every step of a turn is a step of the run or leaves the run alone. *)
LEMMA TurnStepIsRunStep ==
  ASSUME [TurnNext]_turnVars
  PROVE  [Next]_vars
<1>1. CASE PlanTurn
  BY <1>1 DEF PlanTurn
<1>2. CASE OpenRecord
  BY <1>2 DEF OpenRecord
<1>3. CASE FillRecord
  BY <1>3 DEF FillRecord
<1>4. CASE ExecuteStep
  BY <1>4 DEF ExecuteStep, Next
<1>5. CASE StepRaises
  BY <1>5 DEF StepRaises
<1>6. CASE OtherCall
  BY <1>6, OtherCallIsRunStep
<1>7. CASE UserEditsPage
  BY <1>7 DEF UserEditsPage, Next
<1>8. CASE Crash
  BY <1>8 DEF Crash
<1>9. CASE UNCHANGED turnVars
  BY <1>9 DEF turnVars
<1> QED
  BY <1>1, <1>2, <1>3, <1>4, <1>5, <1>6, <1>7, <1>8, <1>9 DEF TurnNext

(* The turns of one server, killed at any point, implement CompanyRun      *)
(* (advance_company_goal and everything it writes), for every set of       *)
(* companies, pages and tasks completed by hand and for any kills.         *)
THEOREM TurnImplementsRun == TurnSpec => ImplementsCompanyRun
<1>1. TurnInit => Init
  BY DEF TurnInit
<1>2. [TurnNext]_turnVars => [Next]_vars
  BY TurnStepIsRunStep
<1> QED
  BY <1>1, <1>2, PTL DEF TurnSpec, ImplementsCompanyRun, Spec

(* Between the writes of a turn, and after a kill, the run is a closed     *)
(* evidence chain.                                                         *)
THEOREM ChainClosedDuringTurns == TurnSpec => []ChainClosed
  BY TurnImplementsRun, ChainAlwaysClosed, PTL DEF ImplementsCompanyRun

(* Between the writes of a turn, and after a kill, a deployment that is    *)
(* proposed or executed was reviewed.                                      *)
THEOREM DeploymentReviewedDuringTurns == TurnSpec => []DeploymentReviewed
  BY TurnImplementsRun, DeploymentAlwaysReviewed, PTL DEF ImplementsCompanyRun

(* Between the writes of a turn, and after a kill, no result is taken back *)
(* and no verdict changes.                                                 *)
THEOREM ResultsKeptDuringTurns == TurnSpec => Chain!NothingRetracted
  BY TurnImplementsRun, RunKeepsResults, PTL DEF ImplementsCompanyRun

-----------------------------------------------------------------------------
(* The records.  A record that names a result (a role result, a handoff or *)
(* the turn of a local step) names one that the run has recorded; a record *)
(* only links whole ones, of its own tool; the turn of a local step has    *)
(* links; a handoff follows its turn.                                      *)
NamesResult(n) ==
  n[1] \in {"role_result", "handoff"} \/ (n[1] = "turn" /\ n[3] = "local_step")

Whole(r, n) == n \in DOMAIN r /\ r[n].whole

(* What the name of a record says. *)
GoodName(t, n) ==
  /\ NamesResult(n) => n[4] \in Kinds /\ Recorded(t, n[4])
  /\ n[1] = "role_result" => n[3] = LOCAL_ROUTES[n[4]].tool

(* What a link of the record n may be. *)
GoodLink(n, l) ==
  /\ NamesResult(n)
  /\ \/ l[1] = "role_request" /\ l[3] = LOCAL_ROUTES[n[4]].tool
     \/ n[1] = "turn" /\ l[1] = "role_result" /\ l[4] = n[4]

GoodRecord(r, n) ==
  /\ \A l \in r[n].links : Whole(r, l) /\ GoodLink(n, l)
  /\ r[n].whole /\ n[1] = "turn" /\ n[3] = "local_step" => r[n].links # {}
  /\ r[n].whole /\ n[1] = "handoff" =>
       Whole(r, << "turn", n[2], "local_step", n[4] >>)

GoodRecords(t, r) == \A n \in DOMAIN r : GoodName(t, n) /\ GoodRecord(r, n)

Written(r, name, record) ==
  [n \in DOMAIN r \cup {name} |-> IF n = name THEN record ELSE r[n]]

LEMMA OpenKeepsRecords ==
  ASSUME NEW t, NEW r, GoodRecords(t, r), NEW name, GoodName(t, name),
         \A n \in DOMAIN r : name \notin r[n].links,
         \A n \in DOMAIN r :
           n[1] = "handoff" => << "turn", n[2], "local_step", n[4] >> # name,
         NEW u, u = Written(r, name, [whole |-> FALSE, links |-> {}])
  PROVE  /\ GoodRecords(t, u)
         /\ \A n : n # name /\ Whole(r, n) => Whole(u, n)
<1>1. /\ DOMAIN u = DOMAIN r \cup {name}
      /\ ~ u[name].whole /\ u[name].links = {}
      /\ \A n \in DOMAIN r : n # name => u[n] = r[n]
  BY DEF Written
<1>2. \A n : n # name /\ Whole(r, n) => Whole(u, n)
  BY <1>1 DEF Whole
<1>3. GoodRecord(u, name)
  BY <1>1 DEF GoodRecord
<1>4. ASSUME NEW n \in DOMAIN r, n # name PROVE GoodRecord(u, n)
  <2>1. GoodRecord(r, n)
    BY DEF GoodRecords
  <2>2. \A l \in u[n].links : Whole(u, l) /\ GoodLink(n, l)
    BY <1>1, <1>2, <1>4, <2>1 DEF GoodRecord
  <2>3. u[n].whole /\ n[1] = "handoff" =>
          Whole(u, << "turn", n[2], "local_step", n[4] >>)
    BY <1>1, <1>2, <1>4, <2>1 DEF GoodRecord
  <2> QED
    BY <1>1, <1>4, <2>1, <2>2, <2>3 DEF GoodRecord
<1> QED
  BY <1>1, <1>2, <1>3, <1>4 DEF GoodRecords

LEMMA FillKeepsRecords ==
  ASSUME NEW t, NEW r, GoodRecords(t, r), NEW name, GoodName(t, name),
         NEW links, \A l \in links : Whole(r, l) /\ GoodLink(name, l),
         name[1] = "turn" /\ name[3] = "local_step" => links # {},
         name[1] = "handoff" =>
           Whole(r, << "turn", name[2], "local_step", name[4] >>),
         NEW u, u = Written(r, name, [whole |-> TRUE, links |-> links])
  PROVE  /\ GoodRecords(t, u)
         /\ \A n : Whole(r, n) => Whole(u, n)
         /\ Whole(u, name)
<1>1. /\ DOMAIN u = DOMAIN r \cup {name}
      /\ u[name].whole /\ u[name].links = links
      /\ \A n \in DOMAIN r : n # name => u[n] = r[n]
  BY DEF Written
<1>2. Whole(u, name) /\ \A n : Whole(r, n) => Whole(u, n)
  BY <1>1 DEF Whole
<1>3. GoodRecord(u, name)
  BY <1>1, <1>2 DEF GoodRecord
<1>4. ASSUME NEW n \in DOMAIN r, n # name PROVE GoodRecord(u, n)
  <2>1. GoodRecord(r, n)
    BY DEF GoodRecords
  <2> QED
    BY <1>1, <1>2, <1>4, <2>1 DEF GoodRecord
<1> QED
  BY <1>1, <1>2, <1>3, <1>4 DEF GoodRecords

LEMMA MoreRecorded ==
  ASSUME NEW t, NEW u, NEW r, GoodRecords(t, r),
         \A kind \in Kinds : Recorded(t, kind) => Recorded(u, kind)
  PROVE  GoodRecords(u, r)
BY DEF GoodRecords, GoodName

-----------------------------------------------------------------------------
CallShape(c) ==
  /\ DOMAIN c = {"step", "open", "outcome", "phase", "tool", "about", "ref", "after"}
  /\ c.step \in {"idle", "role_request", "execute", "role_result", "turn",
                 "record"}
  /\ c.open \in BOOLEAN
  /\ c.open => c.step \notin {"idle", "execute"}
  /\ c.outcome = "local_step" <=> c.tool \in LOCAL_STEP_TOOL_NAMES
  /\ c.step \in {"role_request", "execute", "role_result"} =>
       c.outcome = "local_step"
  /\ c.step = "idle" => c = NoCall

CallBacked(c, r) ==
  /\ c.step \in {"execute", "role_result"} => Whole(r, RoleRequest(c))
  /\ c.step \in {"turn", "record"} /\ c.outcome = "local_step" =>
       Whole(r, RoleRequest(c)) /\ Whole(r, RoleResult(c))
  /\ c.step = "record" => Whole(r, Turn(c))

HasRun(c) ==
  c.step \in {"role_result", "turn", "record"} /\ c.outcome = "local_step"

CallRan(c, t, r) ==
  HasRun(c) =>
    /\ c.ref \in Kinds /\ Recorded(t, c.ref)
    /\ c.tool = LOCAL_ROUTES[c.ref].tool
    /\ \A n \in DOMAIN r :
         n[4] = c.ref =>
           /\ n[1] = "handoff" => c.step = "record"
           /\ n[1] = "turn" /\ n[3] = "local_step" =>
                \/ c.step = "record"
                \/ c.step = "turn" /\ c.open

GoodCall(c, t, r) == CallShape(c) /\ CallBacked(c, r) /\ CallRan(c, t, r)

TurnInv ==
  /\ IInv
  /\ BlockedTasks(tasks)
  /\ GoodRecords(tasks, records)
  /\ GoodCall(call, tasks, records)
  /\ call.step \in {"role_request", "execute"} => call.tool = advice.tool
  /\ crashes \in 0 .. MaxCrashes

LEMMA IdleCall == \A t, r : GoodCall(NoCall, t, r)
<1>1. CallShape(NoCall)
  BY NoNamelessTool DEF NoCall, CallShape
<1>2. NoCall.step = "idle"
  BY DEF NoCall
<1> QED
  BY <1>1, <1>2 DEF GoodCall, CallBacked, CallRan, HasRun

LEMMA AdvisedNotRecorded ==
  ASSUME TypeOK, NEW kind \in Kinds, Recorded(tasks, kind)
  PROVE  LOCAL_ROUTES[kind].tool # advice.tool
<1>1. Sound(advice, tasks)
  BY AdviceSound, PagesAssumption DEF TypeOK, advice
<1>2. SUFFICES ASSUME LOCAL_ROUTES[kind].tool = advice.tool PROVE FALSE
  OBVIOUS
<1>3. advice.tool # ""
  BY <1>2, NameTellsKind
<1>4. PICK k \in Kinds : advice = ToolAdvice(LOCAL_ROUTES[k].tool) /\ Due(tasks, k)
  BY <1>1, <1>3 DEF Sound
<1>5. advice.tool = LOCAL_ROUTES[k].tool
  BY <1>4 DEF ToolAdvice, Recommendation
<1>6. k = kind
  BY <1>2, <1>5, NameTellsKind
<1> QED
  BY <1>4, <1>6 DEF Due

(* Opening the record of a step tears no record that another one needs. *)
LEMMA OpenStep ==
  ASSUME NEW c, NEW t, NEW r, GoodCall(c, t, r), GoodRecords(t, r),
         c.step \in {"role_request", "role_result", "turn", "record"}, ~ c.open,
         c.step = "role_request" =>
           \A kind \in Kinds : Recorded(t, kind) => LOCAL_ROUTES[kind].tool # c.tool,
         NEW d, d = [c EXCEPT !.open = TRUE],
         NEW u, u = Written(r, RecordName(c), [whole |-> FALSE, links |-> {}])
  PROVE  GoodRecords(t, u) /\ GoodCall(d, t, u)
<1> DEFINE name == RecordName(c)
<1>1. CallShape(c) /\ CallBacked(c, r) /\ CallRan(c, t, r)
  BY DEF GoodCall
<1>2. /\ d.step = c.step /\ d.open = TRUE /\ d.outcome = c.outcome
      /\ d.phase = c.phase /\ d.tool = c.tool /\ d.about = c.about
      /\ d.ref = c.ref /\ d.after = c.after
      /\ DOMAIN d = DOMAIN c
  BY <1>1 DEF CallShape
<1>3. CallShape(d)
  BY <1>1, <1>2 DEF CallShape
<1>4. /\ RoleRequest(d) = RoleRequest(c) /\ RoleResult(d) = RoleResult(c)
      /\ Turn(d) = Turn(c)
  BY <1>2 DEF RoleRequest, RoleResult, Turn
<1>5. ASSUME GoodRecords(t, u), \A n : n # name /\ Whole(r, n) => Whole(u, n),
             c.step # "role_request" => RoleRequest(c) # name,
             c.step \in {"turn", "record"} => RoleResult(c) # name,
             c.step = "record" => Turn(c) # name,
             name[1] = "handoff" => c.step = "record",
             name[1] = "turn" => c.step = "turn"
      PROVE  GoodRecords(t, u) /\ GoodCall(d, t, u)
  <2>1. CallBacked(d, u)
    BY <1>1, <1>2, <1>4, <1>5 DEF CallBacked
  <2>2. DOMAIN u = DOMAIN r \cup {name}
    BY DEF Written
  <2> HIDE DEF name
  <2>3. CallRan(d, t, u)
    BY <1>1, <1>2, <1>5, <2>2 DEF CallRan, HasRun
  <2> QED
    BY <1>3, <1>5, <2>1, <2>3 DEF GoodCall
<1>6. CASE c.step = "role_request"
  <2>1. name = RoleRequest(c)
    BY <1>6 DEF RecordName
  <2>2. name[1] = "role_request" /\ name[3] = c.tool
    BY <2>1 DEF RoleRequest
  <2>3. \A n \in DOMAIN r : name \notin r[n].links
    <3>1. SUFFICES ASSUME NEW n \in DOMAIN r, name \in r[n].links PROVE FALSE
      OBVIOUS
    <3>2. GoodLink(n, name) /\ GoodName(t, n)
      BY <3>1 DEF GoodRecords, GoodRecord
    <3>3. /\ n[4] \in Kinds /\ Recorded(t, n[4])
          /\ LOCAL_ROUTES[n[4]].tool = c.tool
      BY <2>2, <3>2 DEF GoodLink, GoodName
    <3> QED
      BY <1>6, <3>3
  <2>4. GoodName(t, name)
    BY <2>2 DEF GoodName, NamesResult
  <2>5. \A n \in DOMAIN r :
          n[1] = "handoff" => << "turn", n[2], "local_step", n[4] >> # name
    BY <2>2
  <2> HIDE DEF name
  <2>6. /\ GoodRecords(t, u)
        /\ \A n : n # name /\ Whole(r, n) => Whole(u, n)
    BY <2>3, <2>4, <2>5, OpenKeepsRecords DEF name
  <2> QED
    BY <1>5, <1>6, <2>2, <2>6
<1>7. CASE c.step = "role_result"
  <2>1. name = RoleResult(c)
    BY <1>7 DEF RecordName
  <2>2. /\ name[1] = "role_result" /\ name[3] = c.tool /\ name[4] = c.ref
        /\ RoleRequest(c) # name
    BY <2>1 DEF RoleResult, RoleRequest
  <2>0. HasRun(c)
    BY <1>1, <1>7 DEF CallShape, HasRun
  <2>3. \A n \in DOMAIN r : name \notin r[n].links
    <3>1. SUFFICES ASSUME NEW n \in DOMAIN r, name \in r[n].links PROVE FALSE
      OBVIOUS
    <3>2. GoodLink(n, name)
      BY <3>1 DEF GoodRecords, GoodRecord
    <3>3. n[1] = "turn" /\ n[3] = "local_step" /\ n[4] = c.ref
      BY <2>2, <3>2 DEF GoodLink, NamesResult
    <3> QED
      BY <1>1, <1>7, <2>0, <3>3 DEF CallRan
  <2>4. GoodName(t, name)
    BY <1>1, <2>0, <2>2 DEF GoodName, CallRan
  <2>5. \A n \in DOMAIN r :
          n[1] = "handoff" => << "turn", n[2], "local_step", n[4] >> # name
    BY <2>2
  <2> HIDE DEF name
  <2>6. /\ GoodRecords(t, u)
        /\ \A n : n # name /\ Whole(r, n) => Whole(u, n)
    BY <2>3, <2>4, <2>5, OpenKeepsRecords DEF name
  <2> QED
    BY <1>5, <1>7, <2>2, <2>6
<1>8. CASE c.step = "turn"
  <2>1. name = Turn(c)
    BY <1>8 DEF RecordName
  <2>2. /\ name[1] = "turn" /\ name[3] = c.outcome /\ name[4] = c.ref
        /\ RoleRequest(c) # name /\ RoleResult(c) # name
    BY <2>1 DEF Turn, RoleResult, RoleRequest
  <2>3. \A n \in DOMAIN r : name \notin r[n].links
    BY <2>2 DEF GoodRecords, GoodRecord, GoodLink
  <2>4. GoodName(t, name)
    BY <1>1, <1>8, <2>2 DEF GoodName, NamesResult, CallRan, HasRun
  <2>5. \A n \in DOMAIN r :
          n[1] = "handoff" => << "turn", n[2], "local_step", n[4] >> # name
    BY <1>1, <1>8, <2>2 DEF CallRan, HasRun
  <2> HIDE DEF name
  <2>6. /\ GoodRecords(t, u)
        /\ \A n : n # name /\ Whole(r, n) => Whole(u, n)
    BY <2>3, <2>4, <2>5, OpenKeepsRecords DEF name
  <2> QED
    BY <1>5, <1>8, <2>2, <2>6
<1>9. CASE c.step = "record"
  <2>1. name = IF c.outcome = "local_step" THEN Handoff(c) ELSE Decision(c)
    BY <1>9 DEF RecordName
  <2>2. /\ name[1] \in {"handoff", "decision"}
        /\ name[1] = "handoff" => c.outcome = "local_step" /\ name[4] = c.ref
        /\ RoleRequest(c) # name /\ RoleResult(c) # name /\ Turn(c) # name
    BY <2>1 DEF Turn, RoleResult, RoleRequest, Handoff, Decision
  <2>3. \A n \in DOMAIN r : name \notin r[n].links
    BY <2>2 DEF GoodRecords, GoodRecord, GoodLink
  <2>4. GoodName(t, name)
    BY <1>1, <1>9, <2>2 DEF GoodName, NamesResult, CallRan, HasRun
  <2>5. \A n \in DOMAIN r :
          n[1] = "handoff" => << "turn", n[2], "local_step", n[4] >> # name
    BY <2>2
  <2> HIDE DEF name
  <2>6. /\ GoodRecords(t, u)
        /\ \A n : n # name /\ Whole(r, n) => Whole(u, n)
    BY <2>3, <2>4, <2>5, OpenKeepsRecords DEF name
  <2> QED
    BY <1>5, <1>9, <2>2, <2>6
<1> QED
  BY <1>6, <1>7, <1>8, <1>9

(* Filling it makes it whole, with links to whole records only. *)
NextCall(c) ==
  IF StepAfter(c) = "idle" THEN NoCall
  ELSE [c EXCEPT !.step = StepAfter(c), !.open = FALSE]

LEMMA FillStep ==
  ASSUME NEW c, NEW t, NEW r, GoodCall(c, t, r), GoodRecords(t, r), c.open,
         NEW d, d = NextCall(c),
         NEW u, u = Written(r, RecordName(c), [whole |-> TRUE,
                                               links |-> RecordLinks(c)])
  PROVE  /\ GoodRecords(t, u) /\ GoodCall(d, t, u)
         /\ d.step # "role_request"
         /\ d.step = "execute" => c.step = "role_request" /\ d.tool = c.tool
<1> DEFINE name == RecordName(c)  links == RecordLinks(c)  next == StepAfter(c)
<1>1. CallShape(c) /\ CallBacked(c, r) /\ CallRan(c, t, r)
  BY DEF GoodCall
<1>2. c.step \in {"role_request", "role_result", "turn", "record"}
  BY <1>1 DEF CallShape
<1>3. /\ c.step = "role_request" => name = RoleRequest(c) /\ links = {}
      /\ c.step = "role_result" =>
           name = RoleResult(c) /\ links = {RoleRequest(c)}
      /\ c.step = "turn" =>
           /\ name = Turn(c)
           /\ links = IF c.outcome = "local_step"
                      THEN {RoleRequest(c), RoleResult(c)} ELSE {}
      /\ c.step = "record" =>
           /\ name = IF c.outcome = "local_step" THEN Handoff(c) ELSE Decision(c)
           /\ links = {}
  BY DEF RecordName, RecordLinks
<1>4. /\ c.step = "role_request" => next = "execute"
      /\ c.step = "role_result" => next = "turn"
      /\ c.step = "turn" => next \in {"record", "idle"}
      /\ c.step = "record" => next = "idle"
  BY DEF StepAfter, StepOrder
<1> HIDE DEF name, links, next
<1>5. /\ name[1] = IF c.step = "record" THEN IF c.outcome = "local_step"
                                             THEN "handoff" ELSE "decision"
                   ELSE c.step
      /\ c.step = "role_result" => name[3] = c.tool
      /\ c.step = "turn" => name[3] = c.outcome
      /\ name[1] = "handoff" =>
           << "turn", name[2], "local_step", name[4] >> = Turn(c)
      /\ c.step \in {"role_result", "turn"} => name[4] = c.ref
      /\ name[1] = "handoff" => name[4] = c.ref
  BY <1>2, <1>3 DEF RoleRequest, RoleResult, Turn, Handoff, Decision
<1>6. GoodName(t, name)
  BY <1>1, <1>2, <1>5 DEF GoodName, NamesResult, CallRan, HasRun, CallShape
<1>7. \A l \in links : Whole(r, l) /\ GoodLink(name, l)
  <2>1. RoleRequest(c)[1] = "role_request" /\ RoleRequest(c)[3] = c.tool
    BY DEF RoleRequest
  <2>2. RoleResult(c)[1] = "role_result" /\ RoleResult(c)[4] = c.ref
    BY DEF RoleResult
  <2>3. CASE c.step = "role_result"
    <3>1. HasRun(c)
      BY <1>1, <2>3 DEF CallShape, HasRun
    <3> QED
      BY <1>1, <1>3, <1>5, <2>1, <2>3, <3>1
         DEF GoodLink, NamesResult, CallBacked, CallRan
  <2>4. CASE c.step = "turn" /\ c.outcome = "local_step"
    BY <1>1, <1>3, <1>5, <2>1, <2>2, <2>4
       DEF GoodLink, NamesResult, CallBacked, CallRan, HasRun
  <2> QED
    BY <1>2, <1>3, <2>3, <2>4
<1>8. name[1] = "turn" /\ name[3] = "local_step" => links # {}
  BY <1>2, <1>3, <1>5
<1>9. name[1] = "handoff" => Whole(r, << "turn", name[2], "local_step", name[4] >>)
  BY <1>1, <1>2, <1>5 DEF CallBacked
<1>10. /\ GoodRecords(t, u)
       /\ \A n : Whole(r, n) => Whole(u, n)
       /\ Whole(u, name)
  BY <1>6, <1>7, <1>8, <1>9, FillKeepsRecords DEF name, links
<1>11. CASE next = "idle"
  BY <1>10, <1>11, IdleCall DEF NextCall, next, NoCall
<1>12. CASE next # "idle"
  <2>1. d = [c EXCEPT !.step = next, !.open = FALSE]
    BY <1>12 DEF NextCall, next
  <2>2. /\ d.step = next /\ d.open = FALSE /\ d.outcome = c.outcome
        /\ d.phase = c.phase /\ d.tool = c.tool /\ d.about = c.about
        /\ d.ref = c.ref /\ d.after = c.after
        /\ DOMAIN d = DOMAIN c
    BY <1>1, <2>1 DEF CallShape
  <2>3. /\ RoleRequest(d) = RoleRequest(c) /\ RoleResult(d) = RoleResult(c)
        /\ Turn(d) = Turn(c)
    BY <2>2 DEF RoleRequest, RoleResult, Turn
  <2>4. CallShape(d)
    BY <1>1, <1>2, <1>4, <1>12, <2>2 DEF CallShape
  <2>5. CallBacked(d, u)
    BY <1>1, <1>2, <1>3, <1>4, <1>10, <1>12, <2>2, <2>3 DEF CallBacked
  <2>6. CallRan(d, t, u)
    <3>1. DOMAIN u = DOMAIN r \cup {name}
      BY DEF Written, name
    <3>2. SUFFICES ASSUME HasRun(d) PROVE CallRan(d, t, u)
      BY DEF CallRan
    <3>3. c.step \in {"role_result", "turn"} /\ HasRun(c)
      BY <1>1, <1>2, <1>4, <1>12, <2>2, <3>2 DEF HasRun, CallShape
    <3> QED
      BY <1>1, <1>4, <1>5, <1>12, <2>2, <3>1, <3>3 DEF CallRan
  <2> QED
    BY <1>2, <1>4, <1>10, <1>12, <2>2, <2>4, <2>5, <2>6 DEF GoodCall
<1> QED
  BY <1>11, <1>12

-----------------------------------------------------------------------------
(* The steps of a turn keep the invariant. *)
LEMMA PlanStep ==
  ASSUME NEW t, NEW r
  PROVE  /\ GoodCall(PlannedCall, t, r)
         /\ PlannedCall.step \in {"role_request", "execute"} =>
              PlannedCall.tool = advice.tool
<1> DEFINE c == PlannedCall
<1>1. /\ DOMAIN NoCall = {"step", "open", "outcome", "phase", "tool", "about",
                          "ref", "after"}
      /\ NoCall.open = FALSE
  BY DEF NoCall
<1>2. /\ DOMAIN c = DOMAIN NoCall
      /\ c.step = IF Outcome = "local_step" THEN "role_request" ELSE "turn"
      /\ c.open = FALSE
      /\ c.outcome = Outcome
      /\ c.tool = IF Outcome = "local_step" THEN advice.tool ELSE ""
  BY <1>1 DEF PlannedCall
<1>3. Outcome = "local_step" => advice.tool \in LOCAL_STEP_TOOL_NAMES
  BY DEF Outcome, plan_supervisor_transition
<1> HIDE DEF c
<1>4. CallShape(c)
  BY <1>1, <1>2, <1>3, NoNamelessTool DEF CallShape
<1>5. CallBacked(c, r) /\ CallRan(c, t, r)
  BY <1>2 DEF CallBacked, CallRan, HasRun
<1>6. c.step \in {"role_request", "execute"} => c.tool = advice.tool
  BY <1>2
<1> QED
  BY <1>4, <1>5, <1>6 DEF c, GoodCall

LEMMA ExecutedStep ==
  ASSUME TurnInv, ExecuteStep, [Next]_vars
  PROVE  GoodRecords(tasks', records') /\ GoodCall(call', tasks', records')
<1>1. /\ GoodRecords(tasks, records) /\ IInv /\ TypeOK
      /\ CallShape(call) /\ CallBacked(call, records)
      /\ call.step = "execute" /\ call.outcome = "local_step"
      /\ call.tool = advice.tool /\ ~ call.open
      /\ records' = records
  BY DEF TurnInv, IInv, GoodCall, ExecuteStep, CallShape
<1>2. PICK tool \in Tools : CallTool(tool) /\ tool.name = call.tool
  BY <1>1 DEF ExecuteStep, Advance
<1>3. /\ tool.kind \in Kinds /\ tool.name = LOCAL_ROUTES[tool.kind].tool
      /\ \A u \in Tools : u.name = call.tool => u.kind = tool.kind
  <2>1. \A u \in Tools : /\ u.kind \in Kinds
                         /\ u.name = LOCAL_ROUTES[u.kind].tool
    BY HandlersHonorRoutes DEF HonorsRoute
  <2>2. \A u \in Tools : KindNamed[u.name] = u.kind
    BY <2>1, NameTellsKind
  <2> QED
    BY <1>2, <2>1, <2>2
<1>4. (CHOOSE u \in Tools : u.name = call.tool).kind = tool.kind
  BY <1>2, <1>3
<1>5. /\ DOMAIN call' = DOMAIN call
      /\ call'.step = "role_result" /\ call'.ref = tool.kind
      /\ call'.open = call.open /\ call'.outcome = call.outcome
      /\ call'.tool = call.tool /\ call'.phase = call.phase
  BY <1>1, <1>4 DEF ExecuteStep, CallShape, StepAfter, StepOrder
<1>6. Recorded(tasks', tool.kind)
  BY <1>1, <1>2, ToolRecords
<1>7. \A kind \in Kinds : Recorded(tasks, kind) => Recorded(tasks', kind)
  BY <1>1, RecordedStays
<1>8. GoodRecords(tasks', records')
  BY <1>1, <1>7, MoreRecorded
<1>9. CallShape(call')
  BY <1>1, <1>5 DEF CallShape
<1>10. RoleRequest(call') = RoleRequest(call)
  BY <1>5 DEF RoleRequest
<1>11. CallBacked(call', records')
  BY <1>1, <1>5, <1>10 DEF CallBacked
<1>12. ~ Recorded(tasks, tool.kind)
  BY <1>1, <1>2, <1>3, AdvisedNotRecorded
<1>13. \A n \in DOMAIN records : n[4] = tool.kind => ~ NamesResult(n)
  BY <1>1, <1>12 DEF GoodRecords, GoodName
<1>14. CallRan(call', tasks', records')
  BY <1>1, <1>2, <1>3, <1>5, <1>6, <1>13 DEF CallRan, NamesResult
<1> QED
  BY <1>8, <1>9, <1>11, <1>14 DEF GoodCall

LEMMA WriteIsWritten ==
  ASSUME NEW name, NEW record, WriteRecord(name, record)
  PROVE  records' = Written(records, name, record)
BY DEF WriteRecord, Written

LEMMA TurnInvStep == TurnInv /\ [TurnNext]_turnVars => TurnInv'
<1> SUFFICES ASSUME TurnInv, [TurnNext]_turnVars
             PROVE  TurnInv'
  OBVIOUS
<1>1. [Next]_vars
  BY TurnStepIsRunStep
<1>2. IInv' /\ BlockedTasks(tasks')
  BY <1>1, NextStep, BlockedStep DEF TurnInv
<1>3. \A kind \in Kinds : Recorded(tasks, kind) => Recorded(tasks', kind)
  BY <1>1, RecordedStays DEF TurnInv
<1>4. /\ IInv /\ TypeOK /\ GoodRecords(tasks, records)
      /\ GoodCall(call, tasks, records)
      /\ call.step \in {"role_request", "execute"} => call.tool = advice.tool
      /\ crashes \in 0 .. MaxCrashes
  BY DEF TurnInv, IInv
<1>5. UNCHANGED vars => advice' = advice
  BY DEF vars, advice, qaPassed
<1>6. ASSUME /\ GoodRecords(tasks', records')
             /\ GoodCall(call', tasks', records')
             /\ call'.step \in {"role_request", "execute"} =>
                  call'.tool = advice'.tool
             /\ crashes' \in 0 .. MaxCrashes
      PROVE  TurnInv'
  BY <1>2, <1>6 DEF TurnInv, GoodRecords, GoodName, GoodRecord, GoodLink,
     GoodCall, CallShape, CallBacked, CallRan, HasRun, Whole, NamesResult,
     BlockedTasks, Recorded, RoleRequest, RoleResult, Turn, NoCall
<1>7. CASE PlanTurn
  <2>1. /\ call' = PlannedCall
        /\ UNCHANGED << vars, records, crashes >>
    BY <1>7 DEF PlanTurn
  <2>2. tasks' = tasks /\ advice' = advice /\ records' = records
    BY <1>5, <2>1 DEF vars
  <2> QED
    BY <1>4, <1>6, <2>1, <2>2, PlanStep
<1>8. CASE OpenRecord
  <2>1. /\ call' = [call EXCEPT !.open = TRUE]
        /\ UNCHANGED << vars, crashes >>
        /\ ~ call.open
        /\ call.step \in {"role_request", "role_result", "turn", "record"}
        /\ records' = Written(records, RecordName(call),
                              [whole |-> FALSE, links |-> {}])
    BY <1>8, WriteIsWritten DEF OpenRecord
  <2>2. tasks' = tasks /\ advice' = advice
    BY <1>5, <2>1 DEF vars
  <2>3. call.step = "role_request" =>
          \A kind \in Kinds : Recorded(tasks, kind) =>
            LOCAL_ROUTES[kind].tool # call.tool
    BY <1>4, AdvisedNotRecorded
  <2>4. GoodRecords(tasks, records') /\ GoodCall(call', tasks, records')
    BY <1>4, <2>1, <2>3, OpenStep
  <2>5. call'.step = call.step /\ call'.tool = call.tool
    BY <1>4, <2>1 DEF GoodCall, CallShape
  <2> QED
    BY <1>4, <1>6, <2>1, <2>2, <2>4, <2>5
<1>9. CASE FillRecord
  <2>1. /\ call' = NextCall(call)
        /\ UNCHANGED << vars, crashes >>
        /\ call.open
        /\ records' = Written(records, RecordName(call),
                              [whole |-> TRUE, links |-> RecordLinks(call)])
    BY <1>9, WriteIsWritten DEF FillRecord, NextCall
  <2>2. tasks' = tasks /\ advice' = advice
    BY <1>5, <2>1 DEF vars
  <2>3. /\ GoodRecords(tasks, records') /\ GoodCall(call', tasks, records')
        /\ call'.step # "role_request"
        /\ call'.step = "execute" =>
             call.step = "role_request" /\ call'.tool = call.tool
    BY <1>4, <2>1, FillStep
  <2> QED
    BY <1>4, <1>6, <2>1, <2>2, <2>3
<1>10. CASE ExecuteStep
  <2>1. GoodRecords(tasks', records') /\ GoodCall(call', tasks', records')
    BY <1>1, <1>10, ExecutedStep
  <2>2. call'.step = "role_result"
    BY <1>4, <1>10
       DEF ExecuteStep, GoodCall, CallShape, StepAfter, StepOrder
  <2>3. crashes' = crashes
    BY <1>10 DEF ExecuteStep
  <2> QED
    BY <1>4, <1>6, <2>1, <2>2, <2>3
<1>11. CASE StepRaises
  <2>1. call' = NoCall /\ UNCHANGED << vars, records, crashes >>
    BY <1>11 DEF StepRaises
  <2>2. call'.step = "idle" /\ tasks' = tasks
    BY <2>1 DEF NoCall, vars
  <2> QED
    BY <1>4, <1>6, <2>1, <2>2, IdleCall
<1>12. CASE OtherCall
  <2>1. call' = NoCall /\ UNCHANGED << records, crashes >>
    BY <1>12 DEF OtherCall, Idle
  <2>2. call'.step = "idle"
    BY <2>1 DEF NoCall
  <2>3. GoodRecords(tasks', records')
    BY <1>3, <1>4, <2>1, MoreRecorded
  <2> QED
    BY <1>4, <1>6, <2>1, <2>2, <2>3, IdleCall
<1>13. CASE UserEditsPage
  <2>1. UNCHANGED << call, records, crashes, tasks, company, report >>
    BY <1>13 DEF UserEditsPage, EditPage
  <2>2. advice' = advice
    BY <2>1 DEF advice, qaPassed
  <2> QED
    BY <1>4, <1>6, <2>1, <2>2
<1>14. CASE Crash
  <2>1. /\ call' = NoCall /\ UNCHANGED << vars, records >>
        /\ crashes < MaxCrashes /\ crashes' = crashes + 1
    BY <1>14 DEF Crash
  <2>2. call'.step = "idle" /\ tasks' = tasks
    BY <2>1 DEF NoCall, vars
  <2>3. crashes' \in 0 .. MaxCrashes
    BY <1>4, <2>1, TurnAssumption
  <2> QED
    BY <1>4, <1>6, <2>1, <2>2, <2>3, IdleCall
<1>15. CASE UNCHANGED turnVars
  <2>1. UNCHANGED << vars, call, records, crashes >>
    BY <1>15 DEF turnVars
  <2>2. tasks' = tasks /\ advice' = advice
    BY <1>5, <2>1 DEF vars
  <2> QED
    BY <1>4, <1>6, <2>1, <2>2
<1> QED
  BY <1>7, <1>8, <1>9, <1>10, <1>11, <1>12, <1>13, <1>14, <1>15 DEF TurnNext

LEMMA TurnInitInv == TurnInit => TurnInv
<1> SUFFICES ASSUME TurnInit PROVE TurnInv
  OBVIOUS
<1>1. IInv /\ BlockedTasks(tasks)
  BY InitInv DEF TurnInit, Init, BlockedTasks, Planned
<1>2. call = NoCall /\ call.step = "idle" /\ records = << >> /\ crashes = 0
  BY DEF TurnInit, NoCall
<1>3. DOMAIN records = {}
  BY <1>2
<1> QED
  BY <1>1, <1>2, <1>3, IdleCall, TurnAssumption DEF TurnInv, GoodRecords

LEMMA TurnInvariance == TurnSpec => []TurnInv
BY TurnInitInv, TurnInvStep, PTL DEF TurnSpec

(* The steps of a call are in order, the tool is known while a local step  *)
(* is under way, and a record names only records there are.                *)
THEOREM TurnTypeCorrect == TurnSpec => []TurnTypeOK
<1>1. TurnInv => TurnTypeOK
  BY DEF TurnInv, TurnTypeOK, IInv, GoodCall, CallShape, GoodRecords,
         GoodRecord, Whole
<1> QED
  BY TurnInvariance, <1>1, PTL

(* Whenever the server was killed, the turn of a local step that can be    *)
(* read names a request and a result that can be read, and an artifact     *)
(* that the run has recorded: the writes of advance_company_goal are in    *)
(* this order, and no record that is named is ever opened again.           *)
THEOREM TurnAlwaysKeepsEvidence == TurnSpec => []TurnKeepsEvidence
<1>1. TurnInv => TurnKeepsEvidence
  <2> SUFFICES ASSUME TurnInv, NEW n \in Of("turn")
               PROVE  /\ records[n].links \subseteq WholeRecords
                      /\ n[3] = "local_step" =>
                           records[n].links # {} /\ Recorded(tasks, n[4])
    BY DEF TurnKeepsEvidence
  <2>1. n \in DOMAIN records /\ records[n].whole /\ n[1] = "turn"
    BY DEF Of, WholeRecords
  <2>2. GoodName(tasks, n) /\ GoodRecord(records, n)
    BY <2>1 DEF TurnInv, GoodRecords
  <2> QED
    BY <2>1, <2>2 DEF GoodName, GoodRecord, NamesResult, Whole, WholeRecords
<1> QED
  BY TurnInvariance, <1>1, PTL

(* A handoff that can be read follows a turn that can be read.             *)
THEOREM HandoffAlwaysFollowsTurn == TurnSpec => []HandoffFollowsTurn
<1>1. TurnInv => HandoffFollowsTurn
  BY DEF TurnInv, HandoffFollowsTurn, GoodRecords, GoodRecord, Whole, Of,
         WholeRecords
<1> QED
  BY TurnInvariance, <1>1, PTL

(* The audit of a run (run_inspection.py) passes whenever it is taken.     *)
THEOREM AuditAlwaysPasses == TurnSpec => []AuditPasses
<1>1. TurnInv => AuditPasses
  <2> SUFFICES ASSUME TurnInv, NEW n \in Of("role_result"),
                      NEW l \in records[n].links
               PROVE  l \in Of("role_request")
    BY DEF AuditPasses, audit_findings
  <2>1. n \in DOMAIN records /\ n[1] = "role_result"
    BY DEF Of, WholeRecords
  <2>2. Whole(records, l) /\ GoodLink(n, l)
    BY <2>1 DEF TurnInv, GoodRecords, GoodRecord
  <2> QED
    BY <2>1, <2>2 DEF GoodLink, Whole, Of, WholeRecords
<1> QED
  BY TurnInvariance, <1>1, PTL

(* The evaluation of a run and the supervisor's next turn agree on whether *)
(* it is complete, at the approval gate, blocked or in progress.           *)
THEOREM EvaluationAlwaysAgreesWithTurn == TurnSpec => []EvaluationAgreesWithTurn
<1>1. TurnInv => EvaluationAgreesWithTurn
  <2> SUFFICES ASSUME TurnInv PROVE EvaluationAgreesWithTurn
    OBVIOUS
  <2> DEFINE blocked == {c \in DOMAIN tasks : tasks[c].status = "blocked"}
  <2>1. IInv /\ BlockedTasks(tasks)
    BY DEF TurnInv
  <2>2. /\ Blocked(tasks) =>
             /\ Outcome = phase
             /\ phase = IF AwaitsApproval(tasks) THEN "approval_required"
                        ELSE "blocked"
        /\ ~ Blocked(tasks) =>
             /\ Outcome \in {"complete", "local_step", "needs_human_decision"}
             /\ Outcome = "complete" <=> phase = "complete"
    BY <2>1, TurnOutcome DEF Outcome
  <2>3. Blocked(tasks) <=> blocked # {}
    BY DEF Blocked
  <2>4. AwaitsApproval(tasks) <=> blocked \cap APPROVAL_GATED_CATEGORIES # {}
    <3>1. AwaitsApproval(tasks) => "github_pages" \in blocked
      BY DEF AwaitsApproval
    <3>2. \A c \in blocked \cap APPROVAL_GATED_CATEGORIES :
            c = "github_pages" /\ "github_pages_deploy_proposal" \in tasks[c].refs
      BY <2>1 DEF BlockedTasks, APPROVAL_GATED_CATEGORIES
    <3>3. blocked \cap APPROVAL_GATED_CATEGORIES # {} => AwaitsApproval(tasks)
      BY <3>2 DEF AwaitsApproval, Recorded
    <3> QED
      BY <3>1, <3>3 DEF APPROVAL_GATED_CATEGORIES
  <2>5. overall_status =
          IF phase = "complete" THEN "complete"
          ELSE IF blocked \cap APPROVAL_GATED_CATEGORIES # {} THEN "approval_required"
          ELSE IF blocked # {} THEN "blocked" ELSE "in_progress"
    BY DEF overall_status
  <2> HIDE DEF blocked
  <2> QED
    BY <2>2, <2>3, <2>4, <2>5 DEF EvaluationAgreesWithTurn
<1> QED
  BY TurnInvariance, <1>1, PTL

-----------------------------------------------------------------------------
(* What a kill costs.  The role requests that no turn answers are that of  *)
(* the proposal, once its tool has raised; that of the call in progress;   *)
(* and one for each kill.                                                  *)
Unanswered(r) ==
  {n \in DOMAIN r :
     /\ n[1] = "role_request"
     /\ \A m \in DOMAIN r : Whole(r, m) /\ m[1] = "turn" => n \notin r[m].links}

Refused(verdict) ==
  IF verdict = "failed"
  THEN {<< "role_request", "deploy_preparation",
           prepare_github_pages_deploy_proposal.name >>}
  ELSE {}

InHand(c) ==
  IF /\ c.step \in {"role_request", "execute", "role_result", "turn"}
     /\ c.outcome = "local_step"
  THEN {RoleRequest(c)} ELSE {}

Lost(c, r, verdict) == Unanswered(r) \ (Refused(verdict) \cup InHand(c))

(* The record of a call is torn while it is open, so that filling the turn *)
(* answers its request and opening it takes no answer away.                *)
Torn(c, r) == c.open => ~ Whole(r, RecordName(c))

CrashInv ==
  /\ TurnInv
  /\ call.step \in {"role_request", "execute"} => call.phase = phase
  /\ Torn(call, records)
  /\ IsFiniteSet(DOMAIN records)
  /\ Cardinality(Lost(call, records, report)) <= crashes

(* Writing a record adds at most its own request to the unanswered ones,   *)
(* if no turn with links is torn by it; filling a turn answers its links.  *)
LEMMA WrittenUnanswered ==
  ASSUME NEW r, NEW name, NEW record, NEW u, u = Written(r, name, record),
         Whole(r, name) /\ name[1] = "turn" => r[name].links = {}
  PROVE  /\ Unanswered(u) \subseteq
              Unanswered(r) \cup (IF name[1] = "role_request" THEN {name} ELSE {})
         /\ record.whole /\ name[1] = "turn" =>
              Unanswered(u) \cap record.links = {}
<1>1. /\ DOMAIN u = DOMAIN r \cup {name}
      /\ u[name] = record
      /\ \A n \in DOMAIN r : n # name => u[n] = r[n]
  BY DEF Written
<1>2. \A m \in DOMAIN r : m # name /\ Whole(r, m) => Whole(u, m)
  BY <1>1 DEF Whole
<1>3. ASSUME NEW n \in Unanswered(u), n # name PROVE n \in Unanswered(r)
  <2>1. n \in DOMAIN r /\ n[1] = "role_request"
    BY <1>1, <1>3 DEF Unanswered
  <2>2. ASSUME NEW m \in DOMAIN r, Whole(r, m), m[1] = "turn"
        PROVE  n \notin r[m].links
    BY <1>1, <1>2, <2>2 DEF Unanswered
  <2> QED
    BY <2>1, <2>2 DEF Unanswered
<1>4. Unanswered(u) \subseteq
        Unanswered(r) \cup (IF name[1] = "role_request" THEN {name} ELSE {})
  BY <1>3 DEF Unanswered
<1>5. record.whole => Whole(u, name)
  BY <1>1 DEF Whole
<1>6. record.whole /\ name[1] = "turn" => Unanswered(u) \cap record.links = {}
  BY <1>1, <1>5 DEF Unanswered
<1> QED
  BY <1>4, <1>6

LEMMA LostIsFinite ==
  ASSUME NEW c, NEW r, NEW verdict, IsFiniteSet(DOMAIN r)
  PROVE  IsFiniteSet(Lost(c, r, verdict)) /\ Cardinality(Lost(c, r, verdict)) \in Nat
<1>1. Lost(c, r, verdict) \in SUBSET DOMAIN r
  BY DEF Lost, Unanswered
<1>2. IsFiniteSet(Lost(c, r, verdict))
  BY <1>1, FS_Subset
<1> QED
  BY <1>2, FS_CardinalityType

(* Nothing is lost by a step after which fewer requests are unanswered,    *)
(* and one at most by a kill.                                              *)
LEMMA LostShrinks ==
  ASSUME NEW c, NEW r, NEW verdict, IsFiniteSet(DOMAIN r),
         NEW n \in Nat, Cardinality(Lost(c, r, verdict)) <= n,
         NEW d, NEW u, NEW next, IsFiniteSet(DOMAIN u),
         Lost(d, u, next) \subseteq Lost(c, r, verdict)
  PROVE  Cardinality(Lost(d, u, next)) <= n
<1>1. Cardinality(Lost(d, u, next)) <= Cardinality(Lost(c, r, verdict))
  BY LostIsFinite, FS_Subset
<1> QED
  BY <1>1, LostIsFinite

LEMMA KillLosesOne ==
  ASSUME NEW c, NEW r, NEW verdict, IsFiniteSet(DOMAIN r),
         NEW n \in Nat, Cardinality(Lost(c, r, verdict)) <= n
  PROVE  Cardinality(Lost(NoCall, r, verdict)) <= n + 1
<1> DEFINE before == Lost(c, r, verdict)  after == Lost(NoCall, r, verdict)
           more == before \cup {RoleRequest(c)}
<1>1. after \subseteq more
  BY DEF Lost, InHand
<1>2. /\ IsFiniteSet(before) /\ IsFiniteSet(after)
      /\ Cardinality(before) \in Nat /\ Cardinality(after) \in Nat
  BY LostIsFinite
<1> HIDE DEF before, after
<1>3. /\ IsFiniteSet(more)
      /\ Cardinality(more) \in {Cardinality(before), Cardinality(before) + 1}
  BY <1>2, FS_AddElement
<1> HIDE DEF more
<1>4. Cardinality(after) <= Cardinality(more)
  BY <1>1, <1>3, FS_Subset
<1> QED
  BY <1>2, <1>3, <1>4 DEF before, after

(* A verdict stays: the report is written once. *)
LEMMA VerdictStays ==
  ASSUME IInv, [Next]_vars, report = "failed"
  PROVE  report' = "failed"
<1>1. [EC!ChainNext]_(EC!chain) /\ EC!ChainInv
  BY NextStep DEF IInv
<1>2. "landing_qa_report" \in RecordedKinds
  BY <1>1 DEF EC!ChainInv
<1> QED
  BY <1>1, <1>2 DEF EC!ChainNext, EC!Record, EC!Ready, EC!chain

(* The proposal is recommended in its phase, with its report at hand; so   *)
(* it raises only on a report that failed, and its request is set aside.   *)
LEMMA ProposalRefused ==
  ASSUME CrashInv, StepRaises
  PROVE  InHand(call) \subseteq Refused(report)
<1>1. IInv /\ TypeOK /\ call.step = "execute" /\ call.tool = advice.tool
      /\ call.phase = phase
  BY DEF CrashInv, TurnInv, IInv, StepRaises
<1> DEFINE tool == prepare_github_pages_deploy_proposal
<1>2. /\ tool \in Tools /\ tool.kind = "github_pages_deploy_proposal"
      /\ tool.category = "github_pages" /\ tool.name = advice.tool
  <2>1. tool \in Tools
    BY DEF Tools, LandingTools
  <2>2. /\ tool.kind = "github_pages_deploy_proposal"
        /\ tool.category = "github_pages"
    BY DEF prepare_github_pages_deploy_proposal, Handler
  <2>3. tool.name = advice.tool
    BY <1>1 DEF StepRaises
  <2> QED
    BY <2>1, <2>2, <2>3
<1> HIDE DEF tool
<1>3. /\ company \in Companies /\ tasks \in [TasksOf(company) -> TaskStates]
      /\ AtHome(tasks)
  BY <1>1, PagesAssumption DEF IInv, TypeOK
<1>4. Due(tasks, tool.kind)
  BY <1>1, <1>2, <1>3, AdviceSound, SoundToolIsDue DEF advice
<1>5. report = "failed"
  BY <1>1, <1>2, <1>4, LandingRoutes
     DEF Due, IInv, EC!ChainInv, RecordedKinds, StepRaises, qaPassed, TypeOK
<1>6. phase = "deploy_preparation"
  BY <1>1, <1>2, PhaseFits DEF PhaseFitsAdvice, PhaseOfCategory
<1> QED
  BY <1>1, <1>2, <1>5, <1>6 DEF InHand, Refused, RoleRequest, tool

LEMMA CrashInvStep == CrashInv /\ [TurnNext]_turnVars => CrashInv'
<1> SUFFICES ASSUME CrashInv, [TurnNext]_turnVars
             PROVE  CrashInv'
  OBVIOUS
<1>1. /\ TurnInv /\ TurnInv' /\ IInv /\ [Next]_vars
      /\ GoodRecords(tasks, records) /\ GoodCall(call, tasks, records)
      /\ CallShape(call) /\ CallRan(call, tasks, records)
  BY TurnInvStep, TurnStepIsRunStep DEF CrashInv, TurnInv, GoodCall
<1>2. /\ IsFiniteSet(DOMAIN records)
      /\ Cardinality(Lost(call, records, report)) <= crashes
      /\ crashes \in Nat
      /\ Torn(call, records)
      /\ call.step \in {"role_request", "execute"} => call.phase = phase
  BY <1>1, TurnAssumption DEF CrashInv, TurnInv
<1>3. Refused(report) \subseteq Refused(report')
  BY <1>1, VerdictStays DEF Refused
<1>4. ASSUME IsFiniteSet(DOMAIN records'), crashes' = crashes,
             Unanswered(records') \ Refused(report')
               \subseteq (Unanswered(records) \ InHand(call)) \cup InHand(call')
      PROVE  Cardinality(Lost(call', records', report')) <= crashes'
  <2>1. Lost(call', records', report') \subseteq Lost(call, records, report)
    BY <1>3, <1>4 DEF Lost
  <2> QED
    BY <1>2, <1>4, <2>1, LostShrinks
<1>5. ASSUME call'.step \in {"role_request", "execute"} => call'.phase = phase',
             Torn(call', records'), IsFiniteSet(DOMAIN records'),
             Cardinality(Lost(call', records', report')) <= crashes'
      PROVE  CrashInv'
  BY <1>1, <1>5 DEF CrashInv, Torn, Whole, Lost, Unanswered, InHand, Refused,
     RecordName, RoleRequest, RoleResult, Turn, Handoff, Decision
<1>6. CASE PlanTurn
  <2>1. /\ call = NoCall /\ call' = PlannedCall
        /\ UNCHANGED << vars, records, crashes >>
    BY <1>6 DEF PlanTurn, Idle
  <2>2. PlannedCall.open = FALSE /\ PlannedCall.phase = phase
    BY DEF PlannedCall, NoCall
  <2>3. phase' = phase
    BY <2>1 DEF vars, phase
  <2>4. Torn(call', records')
    BY <2>1, <2>2 DEF Torn
  <2>5. InHand(call) = {}
    BY <2>1 DEF InHand, NoCall
  <2> QED
    BY <1>2, <1>4, <1>5, <2>1, <2>2, <2>3, <2>4, <2>5
<1>7. CASE OpenRecord
  <2> DEFINE name == RecordName(call)  torn == [whole |-> FALSE, links |-> {}]
  <2>1. /\ call' = [call EXCEPT !.open = TRUE]
        /\ UNCHANGED << vars, crashes >>
        /\ ~ call.open
        /\ call.step \in {"role_request", "role_result", "turn", "record"}
        /\ records' = Written(records, name, torn)
    BY <1>7, WriteIsWritten DEF OpenRecord
  <2>2. /\ call'.step = call.step /\ call'.outcome = call.outcome
        /\ call'.phase = call.phase /\ call'.tool = call.tool
        /\ call'.ref = call.ref /\ call'.after = call.after
        /\ call'.about = call.about
    BY <1>1, <2>1 DEF CallShape
  <2>3. RecordName(call') = name /\ InHand(call') = InHand(call)
    BY <2>2 DEF RecordName, RoleRequest, RoleResult, Turn, Handoff, Decision,
                InHand
  <2>4. Whole(records, name) /\ name[1] = "turn" => records[name].links = {}
    <3>1. name[1] = "turn" => call.step = "turn" /\ name = Turn(call)
      BY <2>1 DEF RecordName, RoleRequest, RoleResult, Handoff, Decision
    <3>2. SUFFICES ASSUME Whole(records, name), name[1] = "turn",
                          NEW l \in records[name].links
                   PROVE  FALSE
      OBVIOUS
    <3>3. /\ name[1] = "turn" /\ name[3] = call.outcome /\ name[4] = call.ref
          /\ call.step = "turn"
      BY <3>1, <3>2 DEF Turn
    <3>4. name \in DOMAIN records /\ NamesResult(name)
      BY <1>1, <3>2 DEF GoodRecords, GoodRecord, GoodLink, Whole
    <3>5. call.outcome = "local_step"
      BY <3>3, <3>4 DEF NamesResult
    <3> QED
      BY <1>1, <2>1, <3>3, <3>4, <3>5 DEF CallRan, HasRun
  <2>5. name[1] = "role_request" => name \in InHand(call)
    <3>1. name[1] = "role_request" =>
            call.step = "role_request" /\ name = RoleRequest(call)
      BY <2>1 DEF RecordName, RoleResult, Turn, Handoff, Decision
    <3> QED
      BY <1>1, <3>1 DEF CallShape, InHand
  <2>6. DOMAIN records' = DOMAIN records \cup {name} /\ ~ Whole(records', name)
    BY <2>1 DEF Written, Whole
  <2> HIDE DEF name, torn
  <2>7. Unanswered(records') \subseteq Unanswered(records) \cup InHand(call')
    BY <2>1, <2>3, <2>4, <2>5, WrittenUnanswered
  <2>8. IsFiniteSet(DOMAIN records')
    BY <1>2, <2>6, FS_AddElement
  <2>9. Cardinality(Lost(call', records', report')) <= crashes'
    BY <1>4, <2>1, <2>3, <2>7, <2>8
  <2>10. Torn(call', records') /\ phase' = phase
    BY <2>1, <2>3, <2>6 DEF Torn, phase, vars
  <2> QED
    BY <1>2, <1>5, <2>2, <2>8, <2>9, <2>10
<1>8. CASE FillRecord
  <2> DEFINE name == RecordName(call)
             full == [whole |-> TRUE, links |-> RecordLinks(call)]
  <2>1. /\ call' = NextCall(call)
        /\ UNCHANGED << vars, crashes >>
        /\ call.open
        /\ records' = Written(records, name, full)
    BY <1>8, WriteIsWritten DEF FillRecord, NextCall
  <2>2. /\ call.step \in {"role_request", "role_result", "turn", "record"}
        /\ ~ Whole(records, name)
    BY <1>1, <1>2, <2>1 DEF CallShape, Torn
  <2>3. /\ call.step = "role_request" => name = RoleRequest(call)
        /\ call.step # "role_request" => name[1] # "role_request"
        /\ call.step = "turn" => name[1] = "turn"
    BY <2>2 DEF RecordName, RoleRequest, RoleResult, Turn, Handoff, Decision
  <2>4. call.step = "turn" /\ call.outcome = "local_step" =>
          RoleRequest(call) \in full.links /\ full.whole
    BY DEF RecordLinks
  <2>5. DOMAIN records' = DOMAIN records \cup {name}
    BY <2>1 DEF Written
  <2>6. /\ call'.open = FALSE
        /\ call.step = "role_request" =>
             /\ call'.step = "execute" /\ call'.phase = call.phase
             /\ InHand(call') = InHand(call)
        /\ call.step = "role_result" => InHand(call') = InHand(call)
        /\ call'.step \in {"role_request", "execute"} =>
             call.step = "role_request"
    <3>1. /\ call.step = "role_request" => StepAfter(call) = "execute"
          /\ call.step = "role_result" => StepAfter(call) = "turn"
          /\ call.step = "turn" => StepAfter(call) \in {"record", "idle"}
          /\ call.step = "record" => StepAfter(call) = "idle"
      BY DEF StepAfter, StepOrder
    <3>2. StepAfter(call) = "idle" => call' = NoCall
      BY <2>1 DEF NextCall
    <3>3. StepAfter(call) # "idle" =>
            /\ call'.step = StepAfter(call) /\ call'.open = FALSE
            /\ call'.outcome = call.outcome /\ call'.phase = call.phase
            /\ call'.tool = call.tool
      BY <1>1, <2>1 DEF NextCall, CallShape
    <3>4. NoCall.open = FALSE /\ NoCall.step = "idle"
      BY DEF NoCall
    <3> QED
      BY <2>2, <3>1, <3>2, <3>3, <3>4 DEF InHand, RoleRequest
  <2> HIDE DEF name, full
  <2>7. /\ Unanswered(records') \subseteq Unanswered(records) \cup
             (IF name[1] = "role_request" THEN {name} ELSE {})
        /\ full.whole /\ name[1] = "turn" =>
             Unanswered(records') \cap full.links = {}
    BY <2>1, <2>2, WrittenUnanswered
  <2>8. IsFiniteSet(DOMAIN records')
    BY <1>2, <2>5, FS_AddElement
  <2>9. Unanswered(records')
          \subseteq (Unanswered(records) \ InHand(call)) \cup InHand(call')
    <3>1. CASE call.step \in {"role_request", "role_result"}
      BY <1>1, <2>3, <2>6, <2>7, <3>1 DEF InHand, CallShape
    <3>2. CASE call.step = "turn"
      BY <2>3, <2>4, <2>7, <3>2 DEF InHand
    <3>3. CASE call.step = "record"
      BY <2>3, <2>7, <3>3 DEF InHand
    <3> QED
      BY <2>2, <3>1, <3>2, <3>3
  <2>10. Cardinality(Lost(call', records', report')) <= crashes'
    BY <1>4, <2>1, <2>8, <2>9
  <2>11. phase' = phase /\ Torn(call', records')
    BY <2>1, <2>6 DEF vars, phase, Torn
  <2> QED
    BY <1>2, <1>5, <2>6, <2>8, <2>10, <2>11
<1>9. CASE ExecuteStep
  <2>1. /\ call.step = "execute" /\ ~ call.open
        /\ UNCHANGED << records, crashes >>
    BY <1>1, <1>9 DEF ExecuteStep, CallShape
  <2>2. /\ call'.step = "role_result" /\ call'.open = call.open
        /\ call'.outcome = call.outcome /\ call'.phase = call.phase
        /\ call'.tool = call.tool
    BY <1>1, <1>9 DEF ExecuteStep, CallShape, StepAfter, StepOrder
  <2>3. InHand(call') = InHand(call) /\ Torn(call', records')
    BY <2>1, <2>2 DEF InHand, RoleRequest, Torn
  <2>4. Cardinality(Lost(call', records', report')) <= crashes'
    BY <1>2, <1>4, <2>1, <2>3
  <2> QED
    BY <1>2, <1>5, <2>1, <2>2, <2>3, <2>4
<1>10. CASE StepRaises
  <2>1. call' = NoCall /\ UNCHANGED << vars, records, crashes >>
    BY <1>10 DEF StepRaises
  <2>2. call'.step = "idle" /\ ~ call'.open
    BY <2>1 DEF NoCall
  <2>3. InHand(call) \subseteq Refused(report')
    BY <1>3, <1>10, ProposalRefused
  <2>4. Cardinality(Lost(call', records', report')) <= crashes'
    BY <1>2, <1>4, <2>1, <2>3
  <2> QED
    BY <1>2, <1>5, <2>1, <2>2, <2>4 DEF Torn
<1>11. CASE OtherCall
  <2>1. call = NoCall /\ UNCHANGED << call, records, crashes >>
    BY <1>11 DEF OtherCall, Idle
  <2>2. call'.step = "idle" /\ ~ call'.open /\ InHand(call) = {}
    BY <2>1 DEF NoCall, InHand
  <2>3. Cardinality(Lost(call', records', report')) <= crashes'
    BY <1>2, <1>4, <2>1, <2>2
  <2> QED
    BY <1>2, <1>5, <2>1, <2>2, <2>3 DEF Torn
<1>12. CASE UserEditsPage \/ UNCHANGED turnVars
  <2>1. UNCHANGED << call, records, crashes, tasks >>
    BY <1>12 DEF UserEditsPage, EditPage, turnVars, vars
  <2>2. phase' = phase /\ Torn(call', records')
    BY <1>2, <2>1 DEF phase, Torn
  <2>3. Cardinality(Lost(call', records', report')) <= crashes'
    BY <1>2, <1>4, <2>1
  <2> QED
    BY <1>2, <1>5, <2>1, <2>2, <2>3
<1>13. CASE Crash
  <2>1. /\ call' = NoCall /\ UNCHANGED << vars, records >>
        /\ crashes' = crashes + 1
    BY <1>13 DEF Crash
  <2>2. call'.step = "idle" /\ ~ call'.open
    BY <2>1 DEF NoCall
  <2>3. report' = report
    BY <2>1 DEF vars
  <2>4. Cardinality(Lost(call', records', report')) <= crashes'
    BY <1>2, <2>1, <2>3, KillLosesOne
  <2> QED
    BY <1>2, <1>5, <2>1, <2>2, <2>4 DEF Torn
<1> QED
  BY <1>6, <1>7, <1>8, <1>9, <1>10, <1>11, <1>12, <1>13 DEF TurnNext

(* Between two calls, the role requests that no turn answers are no more   *)
(* than the kills, and one whose tool raised: a kill costs one turn.       *)
THEOREM CrashAlwaysCostsOneTurn == TurnSpec => []CrashCostsOneTurn
<1>1. TurnInit => CrashInv
  <2> SUFFICES ASSUME TurnInit PROVE CrashInv
    OBVIOUS
  <2>1. /\ TurnInv
        /\ call = NoCall /\ call.step = "idle" /\ call.open = FALSE
        /\ records = << >> /\ crashes = 0
    BY TurnInitInv DEF TurnInit, NoCall
  <2>2. DOMAIN records = {}
    BY <2>1
  <2>3. Lost(call, records, report) = {}
    BY <2>2 DEF Lost, Unanswered
  <2> QED
    BY <2>1, <2>2, <2>3, FS_EmptySet DEF CrashInv, Torn
<1>2. CrashInv => CrashCostsOneTurn
  <2> SUFFICES ASSUME CrashInv, Idle PROVE CrashCostsOneTurn
    BY DEF CrashCostsOneTurn
  <2> DEFINE open == Unanswered(records)
             lost == Lost(call, records, report)
  <2>1. open = {n \in DOMAIN records :
                  /\ n[1] = "role_request"
                  /\ \A t \in Of("turn") : n \notin records[t].links}
    BY DEF Unanswered, Of, WholeRecords, Whole
  <2>2. open \subseteq lost \cup Refused(report)
    BY DEF Lost, InHand, Idle, NoCall
  <2>3. /\ IsFiniteSet(lost) /\ Cardinality(lost) \in Nat
        /\ Cardinality(lost) <= crashes /\ crashes \in Nat
    BY LostIsFinite, TurnAssumption DEF CrashInv, TurnInv
  <2>4. IsFiniteSet(open) /\ Cardinality(open) \in Nat
    <3>1. open \in SUBSET DOMAIN records
      BY DEF Unanswered
    <3>2. IsFiniteSet(open)
      BY <3>1, FS_Subset DEF CrashInv
    <3> QED
      BY <3>2, FS_CardinalityType
  <2> HIDE DEF open, lost
  <2>5. CASE report = "failed"
    <3>1. PICK n : Refused(report) = {n}
      BY <2>5 DEF Refused
    <3>2. /\ IsFiniteSet(lost \cup {n})
          /\ Cardinality(lost \cup {n})
               \in {Cardinality(lost), Cardinality(lost) + 1}
      BY <2>3, FS_AddElement
    <3>3. Cardinality(open) <= Cardinality(lost \cup {n})
      BY <2>2, <3>1, <3>2, FS_Subset
    <3>4. Cardinality(open) <= crashes + 1
      BY <2>3, <2>4, <3>2, <3>3
    <3> QED
      BY <2>1, <2>5, <3>4 DEF CrashCostsOneTurn
  <2>6. CASE report # "failed"
    <3>1. Refused(report) = {}
      BY <2>6 DEF Refused
    <3>2. Cardinality(open) <= Cardinality(lost)
      BY <2>2, <2>3, <3>1, FS_Subset
    <3>3. Cardinality(open) <= crashes + 0
      BY <2>3, <2>4, <3>2
    <3> QED
      BY <2>1, <2>6, <3>3 DEF CrashCostsOneTurn
  <2> QED
    BY <2>5, <2>6
<1> QED
  BY <1>1, <1>2, CrashInvStep, PTL DEF TurnSpec
=============================================================================
