--------------------------- MODULE MCRequestHandles ---------------------------
(* Instances of RequestHandles for TLC. *)
EXTENDS RequestHandles

\* One packet of each kind, two where the second one meets what the first left.
OnceOrTwice == [op \in Ops |-> IF op \in {"readdir", "close"} THEN 2 ELSE 1]
=============================================================================
