----------------------------- MODULE MCRunStore -----------------------------
(* RunStore for TLC. *)
EXTENDS RunStore

NoTasks     == {}
TestingTask == {"testing"}
=============================================================================
