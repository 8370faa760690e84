---------------------------- MODULE OrderedReplies ----------------------------
(***************************************************************************)
(* What the packet pipeline promises to the handlers and to the client,    *)
(* with no goroutine and no channel: requests arrive, each is begun and    *)
(* finished once, and the replies leave in the order of arrival.           *)
(*                                                                         *)
(*   - A read or write may overtake nothing that is not begun yet, but it  *)
(*     may be served while earlier packets are still being served.         *)
(*   - The other packets (commands) are served one after another.          *)
(*   - The close of a handle is served when everything earlier is.         *)
(***************************************************************************)
EXTENDS Naturals, Sequences

CONSTANT MaxPackets   \* bound of the model

Kinds == {"rw", "close", "cmd"}

VARIABLES
  arrived,   \* kinds of the packets received, by arrival number
  begun,     \* packets a handler has been started for
  finished,  \* packets whose handler has produced a response
  replies    \* packets answered to the client, in the order of the answers

vars == <<arrived, begun, finished, replies>>

Init == arrived = <<>> /\ begun = {} /\ finished = {} /\ replies = <<>>

Earlier(n) == 1..(n - 1)

EarlierCommands(n) == {m \in Earlier(n) : arrived[m] # "rw"}

Receive(kind) ==
  /\ Len(arrived) < MaxPackets
  /\ arrived' = Append(arrived, kind)
  /\ UNCHANGED <<begun, finished, replies>>

Begin(n) ==
  /\ n \in (1..Len(arrived)) \ begun
  /\ arrived[n] = "rw" => Earlier(n) \subseteq begun
  /\ arrived[n] # "rw" => EarlierCommands(n) \subseteq finished
  /\ arrived[n] = "close" => Earlier(n) \subseteq finished
  /\ begun' = begun \cup {n}
  /\ UNCHANGED <<arrived, finished, replies>>

Finish(n) ==
  /\ n \in begun \ finished
  /\ finished' = finished \cup {n}
  /\ UNCHANGED <<arrived, begun, replies>>

Reply ==
  /\ Len(replies) + 1 \in finished
  /\ replies' = Append(replies, Len(replies) + 1)
  /\ UNCHANGED <<arrived, begun, finished>>

Next ==
  \/ \E kind \in Kinds : Receive(kind)
  \/ \E n \in 1..Len(arrived) : Begin(n) \/ Finish(n)
  \/ Reply

Spec == Init /\ [][Next]_vars
=============================================================================
