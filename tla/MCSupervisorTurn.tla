-------------------------- MODULE MCSupervisorTurn --------------------------
(* SupervisorTurn and its inspection for TLC: the company with the landing *)
(* page and the approval gate, and one whose tasks all have a tool.        *)
EXTENDS RunInspection

GateAndDocuments == {"business_validation", "implementation_planning"}
WithBrokenPage   == {"generated", "broken"}
OnlyGenerated    == {"generated"}
QaTask           == {"testing"}
=============================================================================
