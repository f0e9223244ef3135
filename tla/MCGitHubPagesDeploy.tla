------------------------ MODULE MCGitHubPagesDeploy ------------------------
(* GitHubPagesDeploy for TLC: one plan; plans of one run for two publish   *)
(* paths; plans of two runs for the same path; or all three.               *)
EXTENDS GitHubPagesDeploy

Plan(r, path, page) ==
  [run |-> r, path |-> path, page |-> page, workflow |-> "flow"]

OnePlan  == {Plan("r1", "site", "page1")}
TwoPaths == {Plan("r1", "site", "page1"), Plan("r1", "docs", "page1")}
TwoRuns  == {Plan("r1", "site", "page1"), Plan("r2", "site", "page2")}
ThreePlans == TwoPaths \cup TwoRuns
=============================================================================
