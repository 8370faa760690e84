---------------------------- MODULE MCServerFiles ----------------------------
(* Instances of ServerFiles for TLC: a file "f", a directory "d", a free name "g". *)
EXTENDS ServerFiles

Plain(op) == [op |-> op, path |-> "f", to |-> "g", flags |-> {}, parts |-> <<>>]

MCMenu ==
  {Plain(op) : op \in {"stat", "read", "write", "readdir", "fstat", "close"}}
  \union {[Plain("mkdir") EXCEPT !.path = "g"], [Plain("remove") EXCEPT !.path = "d"],
          Plain("rename"), Plain("hardlink"),
          [Plain("open") EXCEPT !.flags = {"read"}],
          [Plain("open") EXCEPT !.path = "d", !.flags = {"write", "creat"}],
          [Plain("open") EXCEPT !.path = "g", !.flags = {"read", "write", "creat", "excl"}],
          [Plain("opendir") EXCEPT !.path = "d"],
          [Plain("setstat") EXCEPT !.parts = <<"size", "times">>],
          [Plain("fsetstat") EXCEPT !.parts = <<"size", "permissions", "owner", "times">>]}

MCInitName == [f \in Names |-> CASE f = "f" -> MaxPackets + 1 [] f = "d" -> MaxPackets + 2
                                  [] OTHER -> 0]

\* Once each, twice where the second meets what the first left.
OnceOrTwice == [op \in Operations |-> IF op \in {"open", "close"} THEN 2 ELSE 1]
=============================================================================
