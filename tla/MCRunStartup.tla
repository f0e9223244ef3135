---------------------------- MODULE MCRunStartup ----------------------------
(* RunStartup for TLC: two requests that clients may submit. *)
EXTENDS RunStartup

BothKinds    == BOOLEAN
OtherCompany == {FALSE}

TwoRequests == {"first", "second"}
=============================================================================
