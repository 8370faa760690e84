-------------------------- MODULE MCTransfers ------------------------------
(* Instances of ConcurrentWriteTo, with ConcurrentTransfer, for TLC. *)
EXTENDS ConcurrentWriteTo
=============================================================================
