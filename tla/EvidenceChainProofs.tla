------------------------ MODULE EvidenceChainProofs ------------------------
(***************************************************************************)
(* The promises of EvidenceChain, for every table of results.              *)
(***************************************************************************)
EXTENDS EvidenceChain, TLAPS

(* The verdict is given together with the review, so a recorded review is  *)
(* never reviewed again.                                                   *)
ChainInv == /\ ChainTypeOK
            /\ ChainClosed
            /\ DeploymentReviewed
            /\ verdict # "none" <=> Review \in recorded

LEMMA ChainInitInv == ChainAssumption /\ ChainInit => ChainInv
BY DEF ChainAssumption, ChainInit, ChainInv, ChainTypeOK, ChainClosed,
       DeploymentReviewed

(* One step of the chain keeps all of it. *)
LEMMA ChainStepInv ==
  ASSUME ChainAssumption, ChainInv, [ChainNext]_chain
  PROVE  ChainInv'
<1> USE DEF ChainAssumption, ChainInv
<1>1. CASE UNCHANGED chain
  BY <1>1 DEF chain, ChainTypeOK, ChainClosed, DeploymentReviewed
<1>2. ASSUME NEW k \in Kinds, Record(k)
      PROVE  ChainInv'
  <2> USE <1>2 DEF Record, Ready
  <2>1. ChainTypeOK' /\ ChainClosed'
    BY DEF ChainTypeOK, ChainClosed
  <2>2. (verdict # "none" <=> Review \in recorded)'
    BY DEF ChainTypeOK
  <2>3. DeploymentReviewed'
    <3>1. CASE k = Proposal
      BY <3>1 DEF DeploymentReviewed, ChainTypeOK
    <3>2. CASE k = Deployment /\ k # Proposal
      BY <3>2 DEF DeploymentReviewed, ChainTypeOK
    <3>3. CASE k = Review
      <4>1. Proposal \notin recorded /\ Deployment \notin recorded
        BY <3>3 DEF ChainClosed, ChainTypeOK
      <4> QED
        BY <3>3, <4>1 DEF DeploymentReviewed
    <3>4. CASE k \notin {Proposal, Deployment, Review}
      BY <3>4 DEF DeploymentReviewed
    <3> QED
      BY <3>1, <3>2, <3>3, <3>4
  <2> QED
    BY <2>1, <2>2, <2>3
<1> QED
  BY <1>1, <1>2 DEF ChainNext

(* Everything a recorded result rests on is recorded, and a proposed or    *)
(* executed deployment has a review that passed.                           *)
THEOREM ChainIsSafe ==
  ChainAssumption => (ChainSpec => [](ChainClosed /\ DeploymentReviewed))
<1>1. SUFFICES ASSUME ChainAssumption
               PROVE  ChainSpec => [](ChainClosed /\ DeploymentReviewed)
  OBVIOUS
<1>2. ChainInit => ChainInv
  BY <1>1, ChainInitInv
<1>3. ChainInv /\ [ChainNext]_chain => ChainInv'
  BY <1>1, ChainStepInv
<1>4. ChainInv => ChainClosed /\ DeploymentReviewed
  BY DEF ChainInv
<1> QED
  BY <1>2, <1>3, <1>4, PTL DEF ChainSpec

(* No step of the chain takes a result back or changes a verdict. *)
THEOREM ChainKeepsResults ==
  ChainAssumption => (ChainSpec => NothingRetracted)
<1>1. SUFFICES ASSUME ChainAssumption
               PROVE  ChainSpec => NothingRetracted
  OBVIOUS
<1>2. ChainInit => ChainInv
  BY <1>1, ChainInitInv
<1>3. ChainInv /\ [ChainNext]_chain => ChainInv'
  BY <1>1, ChainStepInv
<1>4. ChainInv /\ [ChainNext]_chain =>
        [/\ recorded \subseteq recorded'
         /\ verdict # "none" => verdict' = verdict]_chain
  BY DEF ChainInv, ChainNext, Record, Ready, chain
<1> QED
  BY <1>2, <1>3, <1>4, PTL DEF ChainSpec, NothingRetracted
=============================================================================
