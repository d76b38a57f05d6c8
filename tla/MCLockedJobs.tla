---------------------------- MODULE MCLockedJobs ----------------------------
(* LockedJobs with two ids, two consumers and one scheduler goroutine; and *)
(* AccountChunks, of which TLC evaluates the assumption.                   *)
EXTENDS LockedJobs, AccountChunks
=============================================================================
