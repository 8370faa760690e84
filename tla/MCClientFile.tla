----------------------------- MODULE MCClientFile -----------------------------
(* Instances of ClientFile for TLC. *)
EXTENDS ClientFile

AroundStart == -1..1
=============================================================================
