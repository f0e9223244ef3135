--------------------------- MODULE MCRunbookRelease ---------------------------
(* RunbookRelease for TLC: a runbook of two stages. *)
EXTENDS RunbookRelease

TwoStages == {"design_review", "implementation_planning"}

StageOfRun == [run_design |-> "design_review",
               run_plan   |-> "implementation_planning"]

(* The whole runbook, and a list that lacks its second stage. *)
WholeAndPart == {<< "run_design", "run_plan" >>, << "run_design" >>}
=============================================================================
