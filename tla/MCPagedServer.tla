---------------------------- MODULE MCPagedServer ----------------------------
(* Instances of PagedServer for TLC. *)
EXTENDS PagedServer, TLC

WorkerSymmetry == Permutations(RWWorkers)
=============================================================================
