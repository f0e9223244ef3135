--------------------------- MODULE EvidenceChain ---------------------------
(***************************************************************************)
(* What a Workroom run promises, whatever tools, clients and stores are    *)
(* behind it: results are recorded in the order in which they rest on each *)
(* other, a recorded result is never retracted, the landing page is        *)
(* proposed for deployment only after a review that passed, and a          *)
(* deployment is recorded only after a proposal.                           *)
(***************************************************************************)
CONSTANTS
  Kinds,      \* the kinds of results
  Requires,   \* Requires[k]: the kinds that must be recorded before k
  Review,     \* the kind whose result carries a verdict
  Proposal,   \* the kind that needs a passed verdict
  Deployment  \* the kind that needs the proposal

(* What a table of results must satisfy for the chain to make sense.       *)
ChainAssumption ==
  /\ {Review, Proposal, Deployment} \subseteq Kinds
  /\ Review \in Requires[Proposal]
  /\ Proposal \in Requires[Deployment]
  /\ Review # Proposal /\ Review # Deployment

VARIABLES
  recorded,   \* the kinds recorded in the run
  verdict     \* of the review: "none", "passed" or "failed"

chain == << recorded, verdict >>

ChainInit == recorded = {} /\ verdict = "none"

Ready(k) == k \notin recorded /\ Requires[k] \subseteq recorded

(* Record k. The review gets its verdict, once; the proposal needs a       *)
(* passed one.                                                             *)
Record(k) ==
  /\ Ready(k)
  /\ k = Proposal => verdict = "passed"
  /\ recorded' = recorded \cup {k}
  /\ IF k = Review THEN verdict' \in {"passed", "failed"}
                   ELSE UNCHANGED verdict

ChainNext == \E k \in Kinds : Record(k)

ChainSpec == ChainInit /\ [][ChainNext]_chain

-----------------------------------------------------------------------------
ChainTypeOK == /\ recorded \subseteq Kinds
               /\ verdict \in {"none", "passed", "failed"}

(* Everything a recorded result rests on is recorded. *)
ChainClosed == \A k \in recorded : Requires[k] \subseteq recorded

(* A deployment, and the proposal before it, has a review that passed. *)
DeploymentReviewed ==
  recorded \cap {Proposal, Deployment} # {} =>
    Review \in recorded /\ verdict = "passed"

(* A recorded result is never retracted, and a verdict never changes. *)
NothingRetracted ==
  [][/\ recorded \subseteq recorded'
     /\ verdict # "none" => verdict' = verdict]_chain
=============================================================================
