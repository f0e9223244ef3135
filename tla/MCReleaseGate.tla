---------------------------- MODULE MCReleaseGate ----------------------------
(* ReleaseGate for TLC: the four made-up runs, one for each stage. *)
EXTENDS ReleaseGate

AllStages == Members(RELEASE_SPEC_IDS)

StageOfRun == [r \in Runs |->
  RELEASE_SPEC_IDS[CHOOSE i \in DOMAIN RELEASE_RUN_IDS :
                     RELEASE_RUN_IDS[i] = r]]

OneList == {RELEASE_RUN_IDS}

(* The workspace of the gate. *)
ASSUME GateAssumption ==
  /\ Servers = {Gate}
  /\ Runs = Members(RELEASE_RUN_IDS)
  /\ RunIdLists = {RELEASE_RUN_IDS}
  /\ \A i \in DOMAIN RELEASE_RUN_IDS :
       StageOf[RELEASE_RUN_IDS[i]] = RELEASE_SPEC_IDS[i]
=============================================================================
