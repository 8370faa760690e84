------------------------------ MODULE Allocator ------------------------------
(***************************************************************************)
(* The page allocator a server may be configured with (allocator.go).      *)
(*                                                                         *)
(* A page holds a packet that is received or the data a read returns.  It  *)
(* is in use for the request with a given order id until ReleasePages is   *)
(* called for that id; then it is available to any later request.  A page  *)
(* is the number of its making: what matters is when two users get the     *)
(* same one.  Every operation holds the allocator's lock from end to end.  *)
(***************************************************************************)
EXTENDS Naturals, Sequences

CONSTANT OrderIDs  \* order ids of requests

VARIABLES
  available,  \* released pages: the one released last is handed out first
  used,       \* the pages in use, by order id (<<>> where the map has no entry)
  made        \* number of pages made so far

pageVars == <<available, used, made>>

Pages == 1..made

PagesTypeOK ==
  /\ made \in Nat
  /\ available \in Seq(Pages)
  /\ used \in [OrderIDs -> Seq(Pages)]

InitPages ==
  /\ available = <<>>
  /\ used = [id \in OrderIDs |-> <<>>]
  /\ made = 0

\* The page GetPage returns.
NextPage == IF available = <<>> THEN made + 1 ELSE available[Len(available)]

GetPage(id) ==
  /\ used' = [used EXCEPT ![id] = Append(@, NextPage)]
  /\ \/ available = <<>> /\ made' = made + 1 /\ UNCHANGED available
     \/ /\ available # <<>>
        /\ available' = SubSeq(available, 1, Len(available) - 1)
        /\ UNCHANGED made

\* Mutant: the entry of the map is not deleted.
ReleasePagesKept(id) ==
  /\ available' = available \o used[id]
  /\ UNCHANGED <<used, made>>

ReleasePages(id) ==
  /\ available' = available \o used[id]
  /\ used' = [used EXCEPT ![id] = <<>>]
  /\ UNCHANGED made

\* Mutant: the available pages survive.
FreeUsedOnly ==
  /\ used' = [id \in OrderIDs |-> <<>>]
  /\ UNCHANGED <<available, made>>

Free ==
  /\ available' = <<>>
  /\ used' = [id \in OrderIDs |-> <<>>]
  /\ UNCHANGED made

-----------------------------------------------------------------------------
(* The allocator on its own: its operations are called in any order.       *)

NextCall ==
  \/ \E id \in OrderIDs : GetPage(id)
  \/ \E id \in OrderIDs : ReleasePages(id)
  \/ Free

AllocatorSpec == InitPages /\ [][NextCall]_pageVars

Items(s) == {s[i] : i \in DOMAIN s}

NoRepeat(s) == \A i, j \in DOMAIN s : s[i] = s[j] => i = j

\* No page is in two places: none is in use for two requests, twice for one,
\* or in use and available, whoever calls what in which order.
NoPageTwice ==
  /\ NoRepeat(available) /\ \A id \in OrderIDs : NoRepeat(used[id])
  /\ \A id \in OrderIDs : Items(used[id]) \cap Items(available) = {}
  /\ \A a, b \in OrderIDs : a # b => Items(used[a]) \cap Items(used[b]) = {}
=============================================================================
