------------------------------ MODULE ClientConn ------------------------------
(***************************************************************************)
(* The client's side of a connection (conn.go, the result-channel pool of  *)
(* pool.go and nextID of client.go): goroutines that make calls multiplex  *)
(* their requests on one connection, and the goroutine that runs recv      *)
(* hands each reply to the call it belongs to.                             *)
(*                                                                         *)
(* A call takes an id and a result channel of capacity one, registers the  *)
(* channel in inflight under the id, writes the request and waits on the   *)
(* channel.  Three parties may send on it: recv with the reply, the caller *)
(* itself when its write fails, and broadcastErr when the connection ends. *)
(*                                                                         *)
(* The server is the environment: it answers the requests that reach it in *)
(* any order, may answer one again, and may hang up at any time.           *)
(***************************************************************************)
EXTENDS Integers, Sequences, FiniteSets

CONSTANTS
  Callers,     \* goroutines that make calls
  Channels,    \* result channels; one that nobody refers to is a new one
  PoolDepth,   \* capacity of the pool of result channels
  MaxRequests  \* bound of the model: requests made, below the 2^32 ids there are

ASSUME CallersAssumption == IsFiniteSet(Callers)
ASSUME ChannelsAssumption == IsFiniteSet(Channels)
ASSUME BoundsAssumption == PoolDepth \in Nat /\ MaxRequests \in Nat

Ids == 1..MaxRequests

\* Neither is a result channel: the absence of one, and the channel by which
\* broadcastErr replaces those it has sent on.
NoChan == "none"
Dummy  == "dummy"

ASSUME ChannelNames == NoChan \notin Channels /\ Dummy \notin Channels

\* What arrives on a result channel: the reply to a request, the error of the
\* caller's own write, or ErrSSHFxConnectionLost.
Reply(id) == [kind |-> "reply", id |-> id]
WriteFailed == [kind |-> "writeFailed", id |-> 0]
ConnectionLost == [kind |-> "connectionLost", id |-> 0]

Results == {Reply(id) : id \in Ids} \cup {WriteFailed, ConnectionLost}

\* A call that has not ended, and one that ended without a result.
Pending == [kind |-> "pending", id |-> 0]
Canceled == [kind |-> "canceled", id |-> 0]

VARIABLES
  nextid,      \* the last id given out
  clPc,        \* each caller's position in its call
  clId,        \* the id of its request
  clCh,        \* its result channel
  buf,         \* what each result channel holds (capacity one)
  pool,        \* result channels kept for reuse
  inflight,    \* the channel registered under each id
  wire,        \* requests the server has received and may answer
  rvPc,        \* the goroutine that runs recv, then broadcastErr
  rvId,        \* the id of the reply it handles
  rvCh,        \* the channel it is about to send on
  connClosed,  \* the write side of the connection is closed
  closed,      \* the channel closed is closed, and err is set
  closerPc,    \* a goroutine that calls Close
  got          \* history: how each request ended, as its caller saw it

callerVars == <<clPc, clId, clCh>>
recvVars   == <<rvPc, rvId, rvCh>>
vars == <<nextid, callerVars, buf, pool, inflight, wire, recvVars, connClosed,
          closed, closerPc, got>>

TypeOK ==
  /\ nextid \in 0..MaxRequests
  /\ clPc \in [Callers -> {"idle", "put", "write", "undo", "deliver", "wait"}]
  /\ clId \in [Callers -> 0..MaxRequests]
  /\ clCh \in [Callers -> Channels \cup {NoChan}]
  /\ buf \in [Channels -> Seq(Results)] /\ \A ch \in Channels : Len(buf[ch]) <= 1
  /\ pool \subseteq Channels
  /\ inflight \in [Ids -> Channels \cup {NoChan, Dummy}]
  /\ wire \subseteq Ids
  /\ rvPc \in {"recv", "lookup", "deliver", "closing", "broadcast", "ended"}
  /\ rvId \in 0..MaxRequests /\ rvCh \in Channels \cup {NoChan}
  /\ connClosed \in BOOLEAN /\ closed \in BOOLEAN
  /\ closerPc \in {"idle", "waiting", "returned"}
  /\ got \in [Ids -> Results \cup {Pending, Canceled}]

Init ==
  /\ nextid = 0
  /\ clPc = [c \in Callers |-> "idle"]
  /\ clId = [c \in Callers |-> 0]
  /\ clCh = [c \in Callers |-> NoChan]
  /\ buf = [ch \in Channels |-> <<>>]
  /\ pool = {}
  /\ inflight = [id \in Ids |-> NoChan]
  /\ wire = {}
  /\ rvPc = "recv" /\ rvId = 0 /\ rvCh = NoChan
  /\ connClosed = FALSE /\ closed = FALSE
  /\ closerPc = "idle"
  /\ got = [id \in Ids |-> Pending]

\* Channels somebody holds a reference to.
Referenced ==
  pool \cup {clCh[c] : c \in Callers} \cup {inflight[id] : id \in Ids} \cup {rvCh}

\* Mutant: result channels without a buffer take a result when the caller waits.
HasReceiver(ch) == \E c \in Callers : clPc[c] = "wait" /\ clCh[c] = ch

HasRoom(ch) == buf[ch] = <<>>

Send(ch, res) == buf' = [buf EXCEPT ![ch] = Append(@, res)]

-----------------------------------------------------------------------------
(* A call: nextID, a channel, dispatchRequest, and the wait for the result. *)

\* Mutant: the pool keeps the channel it hands out.
BorrowFromPool(c, ch) ==
  /\ ch \in pool
  /\ clCh' = [clCh EXCEPT ![c] = ch]
  /\ UNCHANGED <<buf, pool>>

\* The channel comes from the pool or is made for the call.
TakeFromPool(c, ch) ==
  /\ ch \in pool
  /\ pool' = pool \ {ch}
  /\ clCh' = [clCh EXCEPT ![c] = ch]
  /\ UNCHANGED buf

MakeChannel(c, ch) ==
  /\ ch \in Channels \ Referenced
  /\ buf' = [buf EXCEPT ![ch] = <<>>]
  /\ clCh' = [clCh EXCEPT ![c] = ch]
  /\ UNCHANGED pool

\* Mutant: the increment of nextid can be lost to another goroutine's.
StartCallRacy(c) ==
  /\ clPc[c] = "idle" /\ nextid < MaxRequests
  /\ nextid' \in {nextid, nextid + 1}
  /\ clId' = [clId EXCEPT ![c] = nextid + 1]
  /\ \E ch \in Channels : TakeFromPool(c, ch) \/ MakeChannel(c, ch)
  /\ clPc' = [clPc EXCEPT ![c] = "put"]
  /\ UNCHANGED <<inflight, wire, recvVars, connClosed, closed, closerPc, got>>

StartCall(c) ==
  /\ clPc[c] = "idle" /\ nextid < MaxRequests
  /\ nextid' = nextid + 1
  /\ clId' = [clId EXCEPT ![c] = nextid + 1]
  /\ \E ch \in Channels : TakeFromPool(c, ch) \/ MakeChannel(c, ch)
  /\ clPc' = [clPc EXCEPT ![c] = "put"]
  /\ UNCHANGED <<inflight, wire, recvVars, connClosed, closed, closerPc, got>>

\* putChannel, under the lock: after broadcastErr the call fails at once,
\* otherwise the channel is registered.
PutChannel(c) ==
  /\ clPc[c] = "put"
  /\ \/ /\ closed /\ HasRoom(clCh[c])
        /\ Send(clCh[c], ConnectionLost)
        /\ clPc' = [clPc EXCEPT ![c] = "wait"]
        /\ UNCHANGED inflight
     \/ /\ ~ closed
        /\ inflight' = [inflight EXCEPT ![clId[c]] = clCh[c]]
        /\ clPc' = [clPc EXCEPT ![c] = "write"]
        /\ UNCHANGED buf
  /\ UNCHANGED <<nextid, clId, clCh, pool, wire, recvVars, connClosed, closed,
                 closerPc, got>>

WriteRequest(c) ==
  /\ clPc[c] = "write" /\ ~ connClosed
  /\ wire' = wire \cup {clId[c]}
  /\ clPc' = [clPc EXCEPT ![c] = "wait"]
  /\ UNCHANGED <<nextid, clId, clCh, buf, pool, inflight, recvVars, connClosed,
                 closed, closerPc, got>>

\* A write that reports an error may have reached the server all the same,
\* unless the connection was closed before.
WriteFails(c) ==
  /\ clPc[c] = "write"
  /\ wire' \in {wire} \cup (IF connClosed THEN {} ELSE {wire \cup {clId[c]}})
  /\ clPc' = [clPc EXCEPT ![c] = "undo"]
  /\ UNCHANGED <<nextid, clId, clCh, buf, pool, inflight, recvVars, connClosed,
                 closed, closerPc, got>>

\* getChannel after a failed write: only who removes the channel from inflight
\* sends on it.  A send on the replacement broadcastErr left never blocks, and
\* nobody receives from it.
UndoPut(c) ==
  /\ clPc[c] = "undo"
  /\ clPc' = [clPc EXCEPT ![c] = IF inflight[clId[c]] \in Channels THEN "deliver" ELSE "wait"]
  /\ inflight' = [inflight EXCEPT ![clId[c]] = NoChan]
  /\ UNCHANGED <<nextid, clId, clCh, buf, pool, wire, recvVars, connClosed, closed,
                 closerPc, got>>

\* The channel found under its own id is the caller's own.
DeliverWriteError(c) ==
  /\ clPc[c] = "deliver" /\ HasRoom(clCh[c])
  /\ Send(clCh[c], WriteFailed)
  /\ clPc' = [clPc EXCEPT ![c] = "wait"]
  /\ UNCHANGED <<nextid, clId, clCh, pool, inflight, wire, recvVars, connClosed,
                 closed, closerPc, got>>

EndCall(c, outcome) ==
  /\ got' = [got EXCEPT ![clId[c]] = outcome]
  /\ clPc' = [clPc EXCEPT ![c] = "idle"]
  /\ clCh' = [clCh EXCEPT ![c] = NoChan]

\* The result arrives; a transfer puts the channel back in its pool if there is
\* room, other calls drop it.
ReceiveResult(c) ==
  /\ clPc[c] = "wait" /\ buf[clCh[c]] # <<>>
  /\ EndCall(c, Head(buf[clCh[c]]))
  /\ buf' = [buf EXCEPT ![clCh[c]] = Tail(@)]
  /\ \/ UNCHANGED pool
     \/ Cardinality(pool) < PoolDepth /\ pool' = pool \cup {clCh[c]}
  /\ UNCHANGED <<nextid, clId, inflight, wire, recvVars, connClosed, closed, closerPc>>

\* Mutant: an abandoned call puts its channel back in the pool.
AbandonToPool(c) ==
  /\ clPc[c] = "wait"
  /\ EndCall(c, Canceled)
  /\ pool' = IF Cardinality(pool) < PoolDepth THEN pool \cup {clCh[c]} ELSE pool
  /\ UNCHANGED <<nextid, clId, buf, inflight, wire, recvVars, connClosed, closed,
                 closerPc>>

\* The context of the call is done, or the transfer it belongs to is cancelled:
\* the channel is dropped while inflight still refers to it.
AbandonCall(c) ==
  /\ clPc[c] = "wait"
  /\ EndCall(c, Canceled)
  /\ UNCHANGED <<nextid, clId, buf, pool, inflight, wire, recvVars, connClosed, closed,
                 closerPc>>

-----------------------------------------------------------------------------
(* The goroutine that runs recv and, when it fails, broadcastErr.           *)

\* A reply to a request the server has received; it may answer it again later.
RecvReply(id) ==
  /\ rvPc = "recv" /\ id \in wire
  /\ rvId' = id
  /\ wire' \in {wire, wire \ {id}}
  /\ rvPc' = "lookup"
  /\ UNCHANGED <<nextid, callerVars, buf, pool, inflight, rvCh, connClosed, closed,
                 closerPc, got>>

\* The server hung up, or sent what is not a packet.
RecvFails ==
  /\ rvPc = "recv"
  /\ rvPc' = "closing"
  /\ UNCHANGED <<nextid, callerVars, buf, pool, inflight, wire, rvId, rvCh, connClosed,
                 closed, closerPc, got>>

\* getChannel: an id nobody waits for ends the connection.
LookupChannel ==
  /\ rvPc = "lookup"
  /\ inflight' = [inflight EXCEPT ![rvId] = NoChan]
  /\ \/ /\ inflight[rvId] # NoChan
        /\ rvCh' = inflight[rvId] /\ rvPc' = "deliver"
     \/ /\ inflight[rvId] = NoChan
        /\ rvPc' = "closing" /\ UNCHANGED rvCh
  /\ UNCHANGED <<nextid, callerVars, buf, pool, wire, rvId, connClosed, closed, closerPc,
                 got>>

DeliverReply ==
  /\ rvPc = "deliver" /\ HasRoom(rvCh)
  /\ Send(rvCh, Reply(rvId))
  /\ rvPc' = "recv" /\ rvCh' = NoChan
  /\ UNCHANGED <<nextid, callerVars, pool, inflight, wire, rvId, connClosed, closed,
                 closerPc, got>>

\* Mutant: the recv goroutine ends without broadcastErr.
RecvClosesSilently ==
  /\ rvPc = "closing"
  /\ connClosed' = TRUE
  /\ rvPc' = "ended"
  /\ UNCHANGED <<nextid, callerVars, buf, pool, inflight, wire, rvId, rvCh, closed,
                 closerPc, got>>

\* The deferred conn.Close of recv.
RecvCloses ==
  /\ rvPc = "closing"
  /\ connClosed' = TRUE
  /\ rvPc' = "broadcast"
  /\ UNCHANGED <<nextid, callerVars, buf, pool, inflight, wire, rvId, rvCh, closed,
                 closerPc, got>>

Registered == {inflight[id] : id \in Ids} \cap Channels

\* Mutant: the channels broadcastErr has sent on stay registered.
BroadcastKeepsChannels ==
  /\ rvPc = "broadcast" /\ \A ch \in Registered : HasRoom(ch)
  /\ buf' = [ch \in Channels |-> IF ch \in Registered THEN <<ConnectionLost>> ELSE buf[ch]]
  /\ closed' = TRUE
  /\ rvPc' = "ended"
  /\ UNCHANGED <<nextid, callerVars, pool, inflight, wire, rvId, rvCh, connClosed,
                 closerPc, got>>

\* Mutant: the goroutine goes back to recv after broadcastErr.
BroadcastAndReceive ==
  /\ rvPc = "broadcast" /\ \A ch \in Registered : HasRoom(ch)
  /\ buf' = [ch \in Channels |-> IF ch \in Registered THEN <<ConnectionLost>> ELSE buf[ch]]
  /\ inflight' = [id \in Ids |-> IF inflight[id] = NoChan THEN NoChan ELSE Dummy]
  /\ closed' = TRUE
  /\ rvPc' = "recv"
  /\ UNCHANGED <<nextid, callerVars, pool, wire, rvId, rvCh, connClosed, closerPc, got>>

\* Mutant: broadcastErr takes the channels away and sends nothing.
BroadcastNothing ==
  /\ rvPc = "broadcast"
  /\ inflight' = [id \in Ids |-> IF inflight[id] = NoChan THEN NoChan ELSE Dummy]
  /\ closed' = TRUE
  /\ rvPc' = "ended"
  /\ UNCHANGED <<nextid, callerVars, buf, pool, wire, rvId, rvCh, connClosed, closerPc, got>>

\* broadcastErr, under the lock: send the error on every registered channel and
\* take the channel away; then set err and close closed.
BroadcastErr ==
  /\ rvPc = "broadcast" /\ \A ch \in Registered : HasRoom(ch)
  /\ buf' = [ch \in Channels |-> IF ch \in Registered THEN <<ConnectionLost>> ELSE buf[ch]]
  /\ inflight' = [id \in Ids |-> IF inflight[id] = NoChan THEN NoChan ELSE Dummy]
  /\ closed' = TRUE
  /\ rvPc' = "ended"
  /\ UNCHANGED <<nextid, callerVars, pool, wire, rvId, rvCh, connClosed, closerPc, got>>

-----------------------------------------------------------------------------
(* Close: close the connection, then wait for the recv goroutine.           *)

CallClose ==
  /\ closerPc = "idle"
  /\ connClosed' = TRUE
  /\ closerPc' = "waiting"
  /\ UNCHANGED <<nextid, callerVars, buf, pool, inflight, wire, recvVars, closed, got>>

CloseReturns ==
  /\ closerPc = "waiting" /\ rvPc = "ended"
  /\ closerPc' = "returned"
  /\ UNCHANGED <<nextid, callerVars, buf, pool, inflight, wire, recvVars, connClosed,
                 closed, got>>

-----------------------------------------------------------------------------
\* Nothing is left to do: the connection has ended and no call is pending.
AllEnded ==
  /\ rvPc = "ended" /\ closerPc = "returned" /\ nextid = MaxRequests
  /\ \A c \in Callers : clPc[c] = "idle"

Ended == AllEnded /\ UNCHANGED vars

Dispatch(c) ==
  \/ PutChannel(c) \/ WriteRequest(c) \/ WriteFails(c) \/ UndoPut(c)
  \/ DeliverWriteError(c)

Caller(c) == StartCall(c) \/ Dispatch(c) \/ ReceiveResult(c) \/ AbandonCall(c)

HandleReply == LookupChannel \/ DeliverReply \/ RecvCloses \/ BroadcastErr

Recv == (\E id \in Ids : RecvReply(id)) \/ RecvFails \/ HandleReply

Next ==
  \/ \E c \in Callers : Caller(c)
  \/ Recv \/ CallClose \/ CloseReturns \/ Ended

Spec == Init /\ [][Next]_vars

\* The goroutines run, and a write returns.  The server need not answer, nor
\* hang up; but once the client has closed the connection its input ends: this
\* is what Close itself relies on when it waits for recv.
Fairness ==
  /\ \A c \in Callers : WF_vars(Dispatch(c)) /\ WF_vars(ReceiveResult(c))
  /\ WF_vars(HandleReply) /\ WF_vars(CloseReturns)
  /\ WF_vars(connClosed /\ RecvFails)

FairSpec == Spec /\ Fairness

-----------------------------------------------------------------------------
(* Properties.                                                             *)

\* Nobody ever sends on a result channel that still holds a result: recv, a
\* caller whose write failed, and broadcastErr (which holds the lock while it
\* sends) never block, "this guarantees always-only-once sending".
SendsNeverBlock ==
  /\ rvPc = "deliver" => rvCh \in Channels /\ HasRoom(rvCh)
  /\ \A c \in Callers :
       clPc[c] = "deliver" \/ (clPc[c] = "put" /\ closed) => HasRoom(clCh[c])
  /\ rvPc = "broadcast" => \A ch \in Registered : HasRoom(ch)

\* A call that waits is never forgotten: its result is in its channel, or its
\* channel is registered under its id with broadcastErr still to come, or recv is
\* about to send on it.
NoCallForgotten ==
  \A c \in Callers :
    clPc[c] = "wait" =>
      \/ buf[clCh[c]] # <<>>
      \/ inflight[clId[c]] = clCh[c] /\ ~ closed
      \/ rvPc = "deliver" /\ rvCh = clCh[c]

\* A reply reaches the call whose request it answers, although result channels
\* are reused by later calls and replies may come late, twice or never.
RepliesReachTheirCall == \A id \in Ids : got[id].kind = "reply" => got[id].id = id

\* A channel in the pool is nobody else's and empty: whoever takes it finds no
\* result of an earlier call in it and gets none later.
PoolIsClean ==
  \A ch \in pool :
    /\ buf[ch] = <<>> /\ ch # rvCh /\ ch \notin Registered
    /\ \A c \in Callers : clCh[c] # ch

\* How a call ended does not change: no result is taken for a second time.
OutcomesAreFinal ==
  [][\A id \in Ids : got[id] # Pending => got'[id] = got[id]]_vars

\* Once the connection is closed, by either side, every call returns.
CallsReturnAfterClose ==
  \A c \in Callers : connClosed /\ clPc[c] # "idle" ~> clPc[c] = "idle"

\* Close returns.
CloseCompletes == closerPc = "waiting" ~> closerPc = "returned"
=============================================================================
