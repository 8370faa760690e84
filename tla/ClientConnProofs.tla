--------------------------- MODULE ClientConnProofs ---------------------------
(***************************************************************************)
(* Theorems about ClientConn, for any number of callers, channels and      *)
(* requests.                                                               *)
(***************************************************************************)
EXTENDS ClientConn, TLAPS

USE DEF callerVars, recvVars

\* Where a caller is: not calling, holding a channel nobody else may send on,
\* or one that is registered, being sent on, or full.
Active(c) == clPc[c] # "idle"
Exclusive(c) == clPc[c] \in {"put", "deliver"}
Shared(c) == clPc[c] \in {"write", "undo", "wait"}

\* Calls in progress have an id and a channel each of their own.
CallsDistinct ==
  /\ \A c \in Callers : Active(c) => clCh[c] \in Channels /\ clId[c] \in 1..nextid
  /\ \A c \in Callers : ~ Active(c) => clCh[c] = NoChan
  /\ \A c, d \in Callers :
       c # d /\ Active(c) /\ Active(d) => clCh[c] # clCh[d] /\ clId[c] # clId[d]

\* No channel is registered under two ids, nor under an id not given out; nothing
\* is registered under the id of a call that has not registered yet, or whose
\* channel the caller itself has taken back.
InflightDistinct ==
  /\ \A id \in Ids : inflight[id] # NoChan => id <= nextid
  /\ \A i, j \in Ids : i # j /\ inflight[i] \in Channels => inflight[i] # inflight[j]
  /\ \A c \in Callers : Exclusive(c) => inflight[clId[c]] = NoChan

\* broadcastErr is the last thing the recv goroutine does: before it no channel
\* has been replaced, after it none is registered.
ClosedLast ==
  /\ closed <=> rvPc = "ended"
  /\ closed => \A id \in Ids : inflight[id] \notin Channels
  /\ ~ closed => \A id \in Ids : inflight[id] # Dummy

\* A registered channel is empty and has no other owner than the call whose id
\* it is registered under, which has registered it.
RegisteredInv ==
  \A id \in Ids : inflight[id] \in Channels =>
    /\ buf[inflight[id]] = <<>> /\ inflight[id] \notin pool /\ inflight[id] # rvCh
    /\ \A c \in Callers : clCh[c] = inflight[id] => clId[c] = id /\ Shared(c)

\* The same for the channel recv is about to send on.
DeliverInv ==
  /\ rvPc # "deliver" => rvCh = NoChan
  /\ rvPc \in {"lookup", "deliver"} => rvId \in Ids
  /\ rvPc = "deliver" =>
       /\ rvCh \in Channels /\ buf[rvCh] = <<>> /\ rvCh \notin pool
       /\ \A c \in Callers : clCh[c] = rvCh => clId[c] = rvId /\ Shared(c)

\* The channel of a call: empty while the caller alone may send on it; later
\* registered under its id, or about to be sent on, or full.
ChannelOf(c) ==
  /\ Exclusive(c) => buf[clCh[c]] = <<>>
  /\ Shared(c) => \/ buf[clCh[c]] # <<>>
                  \/ inflight[clId[c]] = clCh[c]
                  \/ rvPc = "deliver" /\ rvCh = clCh[c]
  /\ Shared(c) /\ inflight[clId[c]] \in Channels => inflight[clId[c]] = clCh[c]
  /\ Active(c) /\ buf[clCh[c]] # <<>> =>
       (buf[clCh[c]][1].kind = "reply" => buf[clCh[c]][1].id = clId[c])

PoolInv == \A ch \in pool : buf[ch] = <<>> /\ \A c \in Callers : clCh[c] # ch

ConnInv ==
  /\ CallsDistinct /\ InflightDistinct /\ ClosedLast /\ RegisteredInv /\ DeliverInv
  /\ (\A c \in Callers : ChannelOf(c)) /\ PoolInv
  /\ RepliesReachTheirCall

-----------------------------------------------------------------------------
(* Type correctness.                                                       *)

BufType == buf \in [Channels -> Seq(Results)] /\ \A ch \in Channels : Len(buf[ch]) <= 1

\* A send on a channel with room leaves one result in it.
LEMMA SendOne ==
  ASSUME BufType, NEW ch, NEW r \in Results, HasRoom(ch), Send(ch, r)
  PROVE  /\ BufType'
         /\ ch \in Channels => buf'[ch] = <<r>>
         /\ \A x \in Channels : x # ch => buf'[x] = buf[x]
<1>1. buf' = [buf EXCEPT ![ch] = Append(buf[ch], r)] /\ buf[ch] = <<>>
  BY DEF HasRoom, Send
<1>2. Append(<<>>, r) = <<r>> /\ Len(<<r>>) = 1 /\ <<r>> \in Seq(Results)
  OBVIOUS
<1>3. buf' = [buf EXCEPT ![ch] = <<r>>]
  BY <1>1, <1>2
<1>4. BufType'
  <2>1. buf' \in [Channels -> Seq(Results)]
    BY <1>2, <1>3 DEF BufType
  <2>2. \A x \in Channels : buf'[x] = buf[x] \/ buf'[x] = <<r>>
    BY <1>3 DEF BufType
  <2>3. \A x \in Channels : Len(buf'[x]) <= 1
    <3>1. ASSUME NEW x \in Channels, buf'[x] = buf[x] PROVE Len(buf'[x]) <= 1
      BY <3>1 DEF BufType
    <3>2. ASSUME NEW x \in Channels, buf'[x] = <<r>> PROVE Len(buf'[x]) <= 1
      BY <3>2, <1>2
    <3> QED BY <2>2, <3>1, <3>2
  <2> QED BY <2>1, <2>3 DEF BufType
<1> QED BY <1>3, <1>4 DEF BufType

LEMMA InitType == Init => TypeOK
<1> SUFFICES ASSUME Init PROVE TypeOK
  OBVIOUS
<1>1. nextid \in 0..MaxRequests /\ 0 \in 0..MaxRequests
  BY BoundsAssumption DEF Init
<1>2. buf \in [Channels -> Seq(Results)] /\ \A ch \in Channels : Len(buf[ch]) <= 1
  BY DEF Init
<1> QED BY <1>1, <1>2 DEF Init, TypeOK

LEMMA NextType ==
  ASSUME TypeOK, ConnInv, [Next]_vars
  PROVE  TypeOK'
<1> USE DEF TypeOK, ConnInv
<1>a. BufType
  BY DEF BufType
<1>b. WriteFailed \in Results /\ ConnectionLost \in Results
      /\ \A id \in Ids : Reply(id) \in Results
  BY DEF Results
<1>c. \A c \in Callers : Active(c) => clId[c] \in Ids
  BY BoundsAssumption DEF CallsDistinct, Ids
<1>1. ASSUME NEW c \in Callers, StartCall(c) PROVE TypeOK'
  <2>1. nextid' \in 0..MaxRequests /\ nextid + 1 \in 0..MaxRequests
    BY <1>1, BoundsAssumption DEF StartCall
  <2>2. ASSUME NEW ch \in Channels, TakeFromPool(c, ch) \/ MakeChannel(c, ch)
        PROVE  /\ BufType' /\ pool' \subseteq Channels
               /\ clCh' \in [Callers -> Channels \cup {NoChan}]
    <3>1. <<>> \in Seq(Results) /\ Len(<<>>) <= 1
      OBVIOUS
    <3>2. BufType'
      BY <2>2, <3>1, <1>a DEF TakeFromPool, MakeChannel, BufType
    <3>3. pool' \subseteq Channels /\ clCh' \in [Callers -> Channels \cup {NoChan}]
      BY <2>2 DEF TakeFromPool, MakeChannel
    <3> QED BY <3>2, <3>3
  <2> QED BY <1>1, <2>1, <2>2 DEF StartCall, BufType
<1>2. ASSUME NEW c \in Callers, PutChannel(c) PROVE TypeOK'
  <2>1. BufType'
    BY <1>2, <1>a, <1>b, SendOne DEF PutChannel, BufType
  <2> QED BY <1>2, <2>1 DEF PutChannel, BufType
<1>3. ASSUME NEW c \in Callers, WriteRequest(c) \/ WriteFails(c) PROVE TypeOK'
  <2>1. wire' \subseteq Ids
    BY <1>3, <1>c DEF WriteRequest, WriteFails, Active
  <2> QED BY <1>3, <2>1 DEF WriteRequest, WriteFails
<1>4. ASSUME NEW c \in Callers, UndoPut(c) PROVE TypeOK'
  BY <1>4 DEF UndoPut
<1>5. ASSUME NEW c \in Callers, DeliverWriteError(c) PROVE TypeOK'
  <2>1. BufType'
    BY <1>5, <1>a, <1>b, SendOne DEF DeliverWriteError
  <2> QED BY <1>5, <2>1 DEF DeliverWriteError, BufType
<1>6. ASSUME NEW c \in Callers, ReceiveResult(c) PROVE TypeOK'
  <2>1. /\ clCh[c] \in Channels /\ buf[clCh[c]] \in Seq(Results) /\ buf[clCh[c]] # <<>>
        /\ Len(buf[clCh[c]]) <= 1
    BY <1>6 DEF ReceiveResult, CallsDistinct, Active
  <2>2. Head(buf[clCh[c]]) \in Results /\ Tail(buf[clCh[c]]) \in Seq(Results)
        /\ Len(Tail(buf[clCh[c]])) <= 1
    BY <2>1
  <2>3. BufType'
    BY <1>6, <1>a, <2>2 DEF ReceiveResult, BufType
  <2> QED BY <1>6, <2>1, <2>2, <2>3 DEF ReceiveResult, EndCall, BufType
<1>7. ASSUME NEW c \in Callers, AbandonCall(c) PROVE TypeOK'
  BY <1>7 DEF AbandonCall, EndCall
<1>8. ASSUME NEW id \in Ids, RecvReply(id) PROVE TypeOK'
  BY <1>8, BoundsAssumption DEF RecvReply, Ids
<1>9. CASE RecvFails \/ RecvCloses \/ CallClose \/ CloseReturns \/ Ended \/ UNCHANGED vars
  BY <1>9 DEF RecvFails, RecvCloses, CallClose, CloseReturns, Ended, vars
<1>10. CASE LookupChannel
  BY <1>10 DEF LookupChannel, ClosedLast, DeliverInv
<1>11. CASE DeliverReply
  <2>1. BufType'
    BY <1>11, <1>a, <1>b, SendOne DEF DeliverReply, DeliverInv
  <2> QED BY <1>11, <2>1 DEF DeliverReply, BufType
<1>12. CASE BroadcastErr
  <2>1. <<ConnectionLost>> \in Seq(Results) /\ Len(<<ConnectionLost>>) <= 1
    BY <1>b
  <2>2. BufType'
    BY <1>12, <1>a, <2>1 DEF BroadcastErr, BufType
  <2> QED BY <1>12, <2>2 DEF BroadcastErr, BufType
<1> QED BY <1>1, <1>2, <1>3, <1>4, <1>5, <1>6, <1>7, <1>8, <1>9, <1>10, <1>11, <1>12
        DEF Next, Caller, Dispatch, Recv, HandleReply

-----------------------------------------------------------------------------
(* The ownership of the result channels.                                   *)

LEMMA InitConn == Init => ConnInv
<1> SUFFICES ASSUME Init PROVE ConnInv
  OBVIOUS
<1> USE ChannelNames DEF Init
<1>1. CallsDistinct /\ (\A c \in Callers : ChannelOf(c))
  BY DEF CallsDistinct, ChannelOf, Active, Exclusive, Shared
<1>2. NoChan # Dummy
  BY DEF NoChan, Dummy
<1>3. InflightDistinct /\ ClosedLast /\ RegisteredInv
  BY <1>2 DEF InflightDistinct, Exclusive, ClosedLast, RegisteredInv
<1>4. DeliverInv /\ PoolInv
  BY DEF DeliverInv, PoolInv
<1>5. RepliesReachTheirCall
  BY DEF RepliesReachTheirCall, Pending
<1> QED BY <1>1, <1>3, <1>4, <1>5 DEF ConnInv

LEMMA NextConn ==
  ASSUME TypeOK, ConnInv, [Next]_vars
  PROVE  ConnInv'
<1> USE ChannelNames DEF TypeOK, ConnInv
<1>0. TypeOK' /\ NoChan # Dummy
  BY NextType DEF NoChan, Dummy
<1>3. ASSUME NEW c \in Callers, WriteRequest(c) \/ WriteFails(c) PROVE ConnInv'
  <2>1. \A x \in Callers : Shared(x) => Shared(x)'
    BY <1>3 DEF WriteRequest, WriteFails, Shared
  <2>21. CallsDistinct'
    BY <1>3, <1>0, <2>1 DEF WriteRequest, WriteFails, CallsDistinct, Active
  <2>22. InflightDistinct'
    BY <1>3, <1>0, <2>1 DEF WriteRequest, WriteFails, InflightDistinct, Exclusive, Ids
  <2>23. ClosedLast'
    BY <1>3, <1>0, <2>1 DEF WriteRequest, WriteFails, ClosedLast
  <2>24. RegisteredInv'
    BY <1>3, <1>0, <2>1 DEF WriteRequest, WriteFails, RegisteredInv
  <2>25. DeliverInv'
    BY <1>3, <1>0, <2>1 DEF WriteRequest, WriteFails, DeliverInv
  <2>26. ASSUME NEW x \in Callers PROVE ChannelOf(x)'
    BY <1>3, <1>0, <2>1 DEF WriteRequest, WriteFails, ChannelOf, Active, Exclusive, Shared, CallsDistinct, RegisteredInv, DeliverInv, InflightDistinct
  <2>27. PoolInv'
    BY <1>3, <1>0, <2>1 DEF WriteRequest, WriteFails, PoolInv
  <2>28. RepliesReachTheirCall'
    BY <1>3, <1>0, <2>1 DEF WriteRequest, WriteFails, RepliesReachTheirCall
  <2> QED BY <2>21, <2>22, <2>23, <2>24, <2>25, <2>26, <2>27, <2>28
<1>4. ASSUME NEW c \in Callers, UndoPut(c) PROVE ConnInv'
  <2>21. CallsDistinct'
    BY <1>4, <1>0 DEF UndoPut, CallsDistinct, Active
  <2>22. InflightDistinct'
    BY <1>4, <1>0 DEF UndoPut, InflightDistinct, Exclusive, Ids
  <2>23. ClosedLast'
    BY <1>4, <1>0 DEF UndoPut, ClosedLast
  <2>24. RegisteredInv'
    BY <1>4, <1>0 DEF UndoPut, RegisteredInv, Shared
  <2>25. DeliverInv'
    BY <1>4, <1>0 DEF UndoPut, DeliverInv, Shared, ChannelOf, RegisteredInv
  <2>26. ASSUME NEW x \in Callers PROVE ChannelOf(x)'
    BY <1>4, <1>0 DEF UndoPut, ChannelOf, Active, Exclusive, Shared, CallsDistinct, RegisteredInv, DeliverInv, InflightDistinct
  <2>27. PoolInv'
    BY <1>4, <1>0 DEF UndoPut, PoolInv
  <2>28. RepliesReachTheirCall'
    BY <1>4, <1>0 DEF UndoPut, RepliesReachTheirCall
  <2> QED BY <2>21, <2>22, <2>23, <2>24, <2>25, <2>26, <2>27, <2>28
<1>7. ASSUME NEW c \in Callers, AbandonCall(c) PROVE ConnInv'
  <2>21. CallsDistinct'
    BY <1>7, <1>0 DEF AbandonCall, EndCall, CallsDistinct, Active
  <2>22. InflightDistinct'
    BY <1>7, <1>0 DEF AbandonCall, EndCall, InflightDistinct, Exclusive, Ids
  <2>23. ClosedLast'
    BY <1>7, <1>0 DEF AbandonCall, EndCall, ClosedLast
  <2>24. RegisteredInv'
    BY <1>7, <1>0 DEF AbandonCall, EndCall, RegisteredInv, Shared
  <2>25. DeliverInv'
    BY <1>7, <1>0 DEF AbandonCall, EndCall, DeliverInv, Shared
  <2>26. ASSUME NEW x \in Callers PROVE ChannelOf(x)'
    BY <1>7, <1>0 DEF AbandonCall, EndCall, ChannelOf, Active, Exclusive, Shared, CallsDistinct, RegisteredInv, DeliverInv, InflightDistinct
  <2>27. PoolInv'
    BY <1>7, <1>0 DEF AbandonCall, EndCall, PoolInv
  <2>28. RepliesReachTheirCall'
    BY <1>7, <1>0 DEF AbandonCall, EndCall, RepliesReachTheirCall, Canceled
  <2> QED BY <2>21, <2>22, <2>23, <2>24, <2>25, <2>26, <2>27, <2>28
<1>8. ASSUME NEW id \in Ids, RecvReply(id) PROVE ConnInv'
  <2>21. CallsDistinct'
    BY <1>8, <1>0 DEF RecvReply, CallsDistinct, Active
  <2>22. InflightDistinct'
    BY <1>8, <1>0 DEF RecvReply, InflightDistinct, Exclusive, Ids
  <2>23. ClosedLast'
    BY <1>8, <1>0 DEF RecvReply, ClosedLast
  <2>24. RegisteredInv'
    BY <1>8, <1>0 DEF RecvReply, RegisteredInv, Shared
  <2>25. DeliverInv'
    BY <1>8, <1>0 DEF RecvReply, DeliverInv, Shared
  <2>26. ASSUME NEW x \in Callers PROVE ChannelOf(x)'
    BY <1>8, <1>0 DEF RecvReply, ChannelOf, Active, Exclusive, Shared, CallsDistinct, RegisteredInv, DeliverInv, InflightDistinct
  <2>27. PoolInv'
    BY <1>8, <1>0 DEF RecvReply, PoolInv
  <2>28. RepliesReachTheirCall'
    BY <1>8, <1>0 DEF RecvReply, RepliesReachTheirCall
  <2> QED BY <2>21, <2>22, <2>23, <2>24, <2>25, <2>26, <2>27, <2>28
<1>9. CASE RecvFails \/ RecvCloses
  <2>21. CallsDistinct'
    BY <1>9, <1>0 DEF RecvFails, RecvCloses, CallsDistinct, Active
  <2>22. InflightDistinct'
    BY <1>9, <1>0 DEF RecvFails, RecvCloses, InflightDistinct, Exclusive, Ids
  <2>23. ClosedLast'
    BY <1>9, <1>0 DEF RecvFails, RecvCloses, ClosedLast
  <2>24. RegisteredInv'
    BY <1>9, <1>0 DEF RecvFails, RecvCloses, RegisteredInv, Shared
  <2>25. DeliverInv'
    BY <1>9, <1>0 DEF RecvFails, RecvCloses, DeliverInv, Shared
  <2>26. ASSUME NEW x \in Callers PROVE ChannelOf(x)'
    BY <1>9, <1>0 DEF RecvFails, RecvCloses, ChannelOf, Active, Exclusive, Shared, CallsDistinct, RegisteredInv, DeliverInv, InflightDistinct
  <2>27. PoolInv'
    BY <1>9, <1>0 DEF RecvFails, RecvCloses, PoolInv
  <2>28. RepliesReachTheirCall'
    BY <1>9, <1>0 DEF RecvFails, RecvCloses, RepliesReachTheirCall
  <2> QED BY <2>21, <2>22, <2>23, <2>24, <2>25, <2>26, <2>27, <2>28
<1>10. CASE LookupChannel
  <2>1. rvId \in Ids /\ (inflight[rvId] # NoChan => inflight[rvId] \in Channels)
    BY <1>10 DEF LookupChannel, DeliverInv, ClosedLast
  <2>21. CallsDistinct'
    BY <1>10, <1>0, <2>1 DEF LookupChannel, CallsDistinct, Active
  <2>22. InflightDistinct'
    BY <1>10, <1>0, <2>1 DEF LookupChannel, InflightDistinct, Exclusive, Ids
  <2>23. ClosedLast'
    BY <1>10, <1>0, <2>1 DEF LookupChannel, ClosedLast
  <2>24. RegisteredInv'
    BY <1>10, <1>0, <2>1 DEF LookupChannel, RegisteredInv, Shared, InflightDistinct
  <2>25. DeliverInv'
    BY <1>10, <1>0, <2>1 DEF LookupChannel, DeliverInv, Shared, RegisteredInv
  <2>26. ASSUME NEW x \in Callers PROVE ChannelOf(x)'
    BY <1>10, <1>0, <2>1 DEF LookupChannel, ChannelOf, Active, Exclusive, Shared, CallsDistinct, RegisteredInv, DeliverInv, InflightDistinct
  <2>27. PoolInv'
    BY <1>10, <1>0, <2>1 DEF LookupChannel, PoolInv
  <2>28. RepliesReachTheirCall'
    BY <1>10, <1>0, <2>1 DEF LookupChannel, RepliesReachTheirCall
  <2> QED BY <2>21, <2>22, <2>23, <2>24, <2>25, <2>26, <2>27, <2>28
<1>13. CASE CallClose \/ CloseReturns \/ Ended \/ UNCHANGED vars
  <2>21. CallsDistinct'
    BY <1>13, <1>0 DEF CallClose, CloseReturns, Ended, vars, CallsDistinct, Active
  <2>22. InflightDistinct'
    BY <1>13, <1>0 DEF CallClose, CloseReturns, Ended, vars, InflightDistinct, Exclusive, Ids
  <2>23. ClosedLast'
    BY <1>13, <1>0 DEF CallClose, CloseReturns, Ended, vars, ClosedLast
  <2>24. RegisteredInv'
    BY <1>13, <1>0 DEF CallClose, CloseReturns, Ended, vars, RegisteredInv, Shared
  <2>25. DeliverInv'
    BY <1>13, <1>0 DEF CallClose, CloseReturns, Ended, vars, DeliverInv, Shared
  <2>26. ASSUME NEW x \in Callers PROVE ChannelOf(x)'
    BY <1>13, <1>0 DEF CallClose, CloseReturns, Ended, vars, ChannelOf, Active, Exclusive, Shared, CallsDistinct, RegisteredInv, DeliverInv, InflightDistinct
  <2>27. PoolInv'
    BY <1>13, <1>0 DEF CallClose, CloseReturns, Ended, vars, PoolInv
  <2>28. RepliesReachTheirCall'
    BY <1>13, <1>0 DEF CallClose, CloseReturns, Ended, vars, RepliesReachTheirCall
  <2> QED BY <2>21, <2>22, <2>23, <2>24, <2>25, <2>26, <2>27, <2>28
<1>1. ASSUME NEW c \in Callers, StartCall(c) PROVE ConnInv'
  <2>1. PICK ch \in Channels : TakeFromPool(c, ch) \/ MakeChannel(c, ch)
    BY <1>1 DEF StartCall
  <2>2. /\ \A d \in Callers : clCh[d] # ch
        /\ \A id \in Ids : inflight[id] # ch
        /\ ch # rvCh
    <3>1. CASE TakeFromPool(c, ch)
      BY <3>1 DEF TakeFromPool, PoolInv, RegisteredInv, DeliverInv
    <3>2. CASE MakeChannel(c, ch)
      BY <3>2 DEF MakeChannel, Referenced
    <3> QED BY <2>1, <3>1, <3>2
  <2>3. /\ buf'[ch] = <<>> /\ \A x \in Channels : x # ch => buf'[x] = buf[x]
        /\ pool' \subseteq pool /\ ch \notin pool'
    <3>1. CASE TakeFromPool(c, ch)
      BY <3>1 DEF TakeFromPool, PoolInv
    <3>2. CASE MakeChannel(c, ch)
      BY <3>2 DEF MakeChannel, Referenced
    <3> QED BY <2>1, <3>1, <3>2
  <2>4. /\ clCh' = [clCh EXCEPT ![c] = ch] /\ clId' = [clId EXCEPT ![c] = nextid + 1]
        /\ clPc' = [clPc EXCEPT ![c] = "put"] /\ nextid' = nextid + 1
        /\ UNCHANGED <<inflight, recvVars, closed, got>>
    BY <1>1, <2>1 DEF StartCall, TakeFromPool, MakeChannel
  <2>5. /\ \A x \in Callers : x # c => clCh'[x] = clCh[x] /\ clId'[x] = clId[x] /\ clPc'[x] = clPc[x]
        /\ clCh'[c] = ch /\ clId'[c] = nextid + 1 /\ clPc'[c] = "put"
        /\ clPc[c] = "idle" /\ nextid \in Nat /\ nextid + 1 \in Ids
    BY <1>1, <2>4, BoundsAssumption DEF StartCall, Ids
  <2>6. inflight[nextid + 1] = NoChan
    BY <2>5 DEF InflightDistinct
  <2>21. CallsDistinct'
    BY <2>2, <2>3, <2>4, <2>5, <2>6 DEF CallsDistinct, Active
  <2>22. InflightDistinct'
    BY <2>2, <2>3, <2>4, <2>5, <2>6 DEF InflightDistinct, Exclusive, Ids
  <2>23. ClosedLast'
    BY <2>2, <2>3, <2>4, <2>5, <2>6 DEF ClosedLast
  <2>24. RegisteredInv'
    BY <2>2, <2>3, <2>4, <2>5, <2>6 DEF RegisteredInv, Shared
  <2>25. DeliverInv'
    BY <2>2, <2>3, <2>4, <2>5, <2>6 DEF DeliverInv, Shared
  <2>26. ASSUME NEW x \in Callers PROVE ChannelOf(x)'
    BY <2>2, <2>3, <2>4, <2>5, <2>6 DEF ChannelOf, Active, Exclusive, Shared, CallsDistinct
  <2>27. PoolInv'
    BY <2>2, <2>3, <2>4, <2>5, <2>6 DEF PoolInv
  <2>28. RepliesReachTheirCall'
    BY <2>2, <2>3, <2>4, <2>5, <2>6 DEF RepliesReachTheirCall
  <2> QED BY <2>21, <2>22, <2>23, <2>24, <2>25, <2>26, <2>27, <2>28
<1>2. ASSUME NEW c \in Callers, PutChannel(c) PROVE ConnInv'
  <2>1. /\ clPc[c] = "put" /\ Active(c) /\ clCh[c] \in Channels /\ clId[c] \in Ids
        /\ UNCHANGED <<nextid, clId, clCh, pool, recvVars, closed, got>>
    BY <1>2, BoundsAssumption DEF PutChannel, CallsDistinct, Active, Ids
  <2>2. /\ clCh[c] \notin pool /\ clCh[c] # rvCh /\ buf[clCh[c]] = <<>>
        /\ \A id \in Ids : inflight[id] # clCh[c]
        /\ \A d \in Callers : d # c => clCh[d] # clCh[c] /\ (Active(d) => clId[d] # clId[c])
    <3>1. clCh[c] \notin pool /\ buf[clCh[c]] = <<>>
      BY <2>1 DEF PoolInv, ChannelOf, Exclusive
    <3>2. clCh[c] # rvCh
      BY <2>1, ChannelNames DEF DeliverInv, Shared
    <3>3. \A id \in Ids : inflight[id] # clCh[c]
      BY <2>1 DEF RegisteredInv, Shared
    <3>4. \A d \in Callers : d # c => clCh[d] # clCh[c] /\ (Active(d) => clId[d] # clId[c])
      BY <2>1, ChannelNames DEF CallsDistinct
    <3> QED BY <3>1, <3>2, <3>3, <3>4
  <2>3. CASE closed
    <3>1. /\ buf'[clCh[c]] = <<ConnectionLost>>
          /\ \A x \in Channels : x # clCh[c] => buf'[x] = buf[x]
          /\ inflight' = inflight /\ clPc' = [clPc EXCEPT ![c] = "wait"]
      BY <1>2, <2>1, <2>3, SendOne DEF PutChannel, BufType, Results
    <3>2. /\ \A x \in Callers : x # c => clPc'[x] = clPc[x]
          /\ clPc'[c] = "wait"
          /\ buf'[clCh[c]] # <<>> /\ buf'[clCh[c]][1].kind # "reply"
      BY <3>1 DEF ConnectionLost
    <3>21. CallsDistinct'
      BY <2>1, <2>2, <2>3, <3>1, <3>2 DEF CallsDistinct, Active
    <3>22. InflightDistinct'
      BY <2>1, <2>2, <2>3, <3>1, <3>2 DEF InflightDistinct, Exclusive, Ids
    <3>23. ClosedLast'
      BY <2>1, <2>2, <2>3, <3>1, <3>2 DEF ClosedLast
    <3>24. RegisteredInv'
      BY <2>1, <2>2, <2>3, <3>1, <3>2 DEF RegisteredInv, Shared
    <3>25. DeliverInv'
      BY <2>1, <2>2, <2>3, <3>1, <3>2 DEF DeliverInv, Shared
    <3>26. ASSUME NEW x \in Callers PROVE ChannelOf(x)'
      <4>1. CASE x = c
        <5>1. inflight'[clId'[c]] \notin Channels
          BY <2>1, <2>3, <3>1 DEF ClosedLast
        <5> QED BY <2>1, <3>2, <5>1, <4>1 DEF ChannelOf, Exclusive, Shared
      <4>2. CASE x # c /\ Active(x)
        <5>1. buf'[clCh'[x]] = buf[clCh[x]]
          BY <2>1, <2>2, <3>1, <4>2 DEF CallsDistinct
        <5> QED BY <2>1, <3>1, <3>2, <4>2, <5>1 DEF ChannelOf, Active, Exclusive, Shared
      <4>3. CASE x # c /\ ~ Active(x)
        BY <3>2, <4>3 DEF ChannelOf, Active, Exclusive, Shared
      <4> QED BY <4>1, <4>2, <4>3
    <3>27. PoolInv'
      BY <2>1, <2>2, <2>3, <3>1, <3>2 DEF PoolInv
    <3>28. RepliesReachTheirCall'
      BY <2>1, <2>2, <2>3, <3>1, <3>2 DEF RepliesReachTheirCall
    <3> QED BY <3>21, <3>22, <3>23, <3>24, <3>25, <3>26, <3>27, <3>28
  <2>4. CASE ~ closed
    <3>1. /\ inflight' = [inflight EXCEPT ![clId[c]] = clCh[c]] /\ buf' = buf
          /\ clPc' = [clPc EXCEPT ![c] = "write"]
      BY <1>2, <2>4 DEF PutChannel
    <3>2. /\ \A x \in Callers : x # c => clPc'[x] = clPc[x]
          /\ clPc'[c] = "write" /\ inflight'[clId[c]] = clCh[c]
          /\ \A id \in Ids : id # clId[c] => inflight'[id] = inflight[id]
      BY <2>1, <3>1
    <3>21. CallsDistinct'
      BY <2>1, <2>2, <2>4, <3>1, <3>2 DEF CallsDistinct, Active
    <3>22. InflightDistinct'
      <4>1. \A id \in Ids : inflight'[id] # NoChan => id <= nextid'
        BY <2>1, <3>2 DEF InflightDistinct, CallsDistinct
      <4>2. ASSUME NEW i \in Ids, NEW j \in Ids, i # j, inflight'[i] \in Channels
            PROVE  inflight'[i] # inflight'[j]
        BY <2>2, <3>2, <4>2 DEF InflightDistinct
      <4>3. ASSUME NEW d \in Callers, Exclusive(d)' PROVE inflight'[clId'[d]] = NoChan
        <5>1. d # c /\ Exclusive(d) /\ Active(d) /\ clId[d] # clId[c]
          BY <2>2, <3>2, <4>3 DEF Exclusive, Active
        <5>2. clId[d] \in Ids
          BY <5>1, BoundsAssumption DEF CallsDistinct, Ids
        <5> QED BY <2>1, <3>2, <5>1, <5>2 DEF InflightDistinct
      <4> QED BY <4>1, <4>2, <4>3 DEF InflightDistinct
    <3>23. ClosedLast'
      BY <2>1, <2>2, <2>4, <3>1, <3>2 DEF ClosedLast
    <3>24. RegisteredInv'
      BY <2>1, <2>2, <2>4, <3>1, <3>2 DEF RegisteredInv, Shared
    <3>25. DeliverInv'
      BY <2>1, <2>2, <2>4, <3>1, <3>2 DEF DeliverInv, Shared
    <3>26. ASSUME NEW x \in Callers PROVE ChannelOf(x)'
      BY <2>1, <2>2, <2>4, <3>1, <3>2 DEF ChannelOf, Active, Exclusive, Shared, CallsDistinct
    <3>27. PoolInv'
      BY <2>1, <2>2, <2>4, <3>1, <3>2 DEF PoolInv
    <3>28. RepliesReachTheirCall'
      BY <2>1, <2>2, <2>4, <3>1, <3>2 DEF RepliesReachTheirCall
    <3> QED BY <3>21, <3>22, <3>23, <3>24, <3>25, <3>26, <3>27, <3>28
  <2> QED BY <2>3, <2>4
<1>5. ASSUME NEW c \in Callers, DeliverWriteError(c) PROVE ConnInv'
  <2>1. /\ clPc[c] = "deliver" /\ Active(c) /\ clCh[c] \in Channels
        /\ clPc' = [clPc EXCEPT ![c] = "wait"]
        /\ UNCHANGED <<nextid, clId, clCh, pool, inflight, recvVars, closed, got>>
    BY <1>5 DEF DeliverWriteError, CallsDistinct, Active
  <2>2. /\ clCh[c] \notin pool /\ clCh[c] # rvCh
        /\ \A id \in Ids : inflight[id] # clCh[c]
        /\ \A d \in Callers : d # c => clCh[d] # clCh[c]
    <3>1. clCh[c] \notin pool
      BY <2>1 DEF PoolInv
    <3>2. clCh[c] # rvCh
      BY <2>1, ChannelNames DEF DeliverInv, Shared
    <3>3. \A id \in Ids : inflight[id] # clCh[c]
      BY <2>1 DEF RegisteredInv, Shared
    <3>4. \A d \in Callers : d # c => clCh[d] # clCh[c]
      BY <2>1, ChannelNames DEF CallsDistinct
    <3> QED BY <3>1, <3>2, <3>3, <3>4
  <2>3. /\ buf'[clCh[c]] = <<WriteFailed>>
        /\ \A x \in Channels : x # clCh[c] => buf'[x] = buf[x]
    BY <1>5, <2>1, SendOne DEF DeliverWriteError, BufType, Results
  <2>4. /\ \A x \in Callers : x # c => clPc'[x] = clPc[x]
        /\ clPc'[c] = "wait"
        /\ buf'[clCh[c]] # <<>> /\ buf'[clCh[c]][1].kind # "reply"
    BY <2>1, <2>3 DEF WriteFailed
  <2>5. inflight[clId[c]] \notin Channels
    BY <2>1, ChannelNames DEF InflightDistinct, Exclusive
  <2>21. CallsDistinct'
    BY <2>1, <2>2, <2>3, <2>4, <2>5 DEF CallsDistinct, Active
  <2>22. InflightDistinct'
    BY <2>1, <2>2, <2>3, <2>4, <2>5 DEF InflightDistinct, Exclusive, Ids
  <2>23. ClosedLast'
    BY <2>1, <2>2, <2>3, <2>4, <2>5 DEF ClosedLast
  <2>24. RegisteredInv'
    BY <2>1, <2>2, <2>3, <2>4, <2>5 DEF RegisteredInv, Shared
  <2>25. DeliverInv'
    BY <2>1, <2>2, <2>3, <2>4, <2>5 DEF DeliverInv, Shared
  <2>26. ASSUME NEW x \in Callers PROVE ChannelOf(x)'
    <3>1. CASE x = c
      BY <2>1, <2>4, <2>5, <3>1 DEF ChannelOf, Exclusive, Shared
    <3>2. CASE x # c /\ Active(x)
      <4>1. buf'[clCh'[x]] = buf[clCh[x]]
        BY <2>1, <2>2, <2>3, <3>2 DEF CallsDistinct
      <4> QED BY <2>1, <2>4, <3>2, <4>1 DEF ChannelOf, Active, Exclusive, Shared
    <3>3. CASE x # c /\ ~ Active(x)
      BY <2>4, <3>3 DEF ChannelOf, Active, Exclusive, Shared
    <3> QED BY <3>1, <3>2, <3>3
  <2>27. PoolInv'
    BY <2>1, <2>2, <2>3, <2>4, <2>5 DEF PoolInv
  <2>28. RepliesReachTheirCall'
    BY <2>1, <2>2, <2>3, <2>4, <2>5 DEF RepliesReachTheirCall
  <2> QED BY <2>21, <2>22, <2>23, <2>24, <2>25, <2>26, <2>27, <2>28
<1>6. ASSUME NEW c \in Callers, ReceiveResult(c) PROVE ConnInv'
  <2>1. /\ clPc[c] = "wait" /\ Active(c) /\ clCh[c] \in Channels /\ clId[c] \in Ids
        /\ buf[clCh[c]] # <<>> /\ got' = [got EXCEPT ![clId[c]] = Head(buf[clCh[c]])]
        /\ clPc' = [clPc EXCEPT ![c] = "idle"] /\ clCh' = [clCh EXCEPT ![c] = NoChan]
        /\ buf' = [buf EXCEPT ![clCh[c]] = Tail(buf[clCh[c]])]
        /\ pool' \subseteq pool \cup {clCh[c]}
        /\ UNCHANGED <<nextid, clId, inflight, recvVars, closed>>
    BY <1>6, BoundsAssumption DEF ReceiveResult, EndCall, CallsDistinct, Active, Ids
  <2>2. /\ buf[clCh[c]] \in Seq(Results) /\ Len(buf[clCh[c]]) <= 1
        /\ Tail(buf[clCh[c]]) = <<>> /\ Head(buf[clCh[c]]) = buf[clCh[c]][1]
    BY <2>1
  <2>3. /\ clCh[c] # rvCh
        /\ \A id \in Ids : inflight[id] # clCh[c]
        /\ \A d \in Callers : d # c => clCh[d] # clCh[c]
    BY <2>1, ChannelNames DEF DeliverInv, RegisteredInv, CallsDistinct
  <2>4. /\ \A x \in Callers : x # c => clPc'[x] = clPc[x] /\ clCh'[x] = clCh[x]
        /\ clPc'[c] = "idle" /\ clCh'[c] = NoChan
        /\ buf'[clCh[c]] = <<>> /\ \A x \in Channels : x # clCh[c] => buf'[x] = buf[x]
    BY <2>1, <2>2
  <2>5. /\ got'[clId[c]] = buf[clCh[c]][1]
        /\ \A id \in Ids : id # clId[c] => got'[id] = got[id]
    BY <2>1, <2>2
  <2>21. CallsDistinct'
    BY <2>1, <2>3, <2>4, <2>5 DEF CallsDistinct, Active
  <2>22. InflightDistinct'
    BY <2>1, <2>3, <2>4, <2>5 DEF InflightDistinct, Exclusive, Ids
  <2>23. ClosedLast'
    BY <2>1, <2>3, <2>4, <2>5 DEF ClosedLast
  <2>24. RegisteredInv'
    BY <2>1, <2>3, <2>4, <2>5 DEF RegisteredInv, Shared
  <2>25. DeliverInv'
    BY <2>1, <2>3, <2>4, <2>5 DEF DeliverInv, Shared
  <2>26. ASSUME NEW x \in Callers PROVE ChannelOf(x)'
    BY <2>1, <2>3, <2>4, <2>5 DEF ChannelOf, Active, Exclusive, Shared, CallsDistinct
  <2>27. PoolInv'
    BY <2>1, <2>3, <2>4, <2>5 DEF PoolInv
  <2>28. RepliesReachTheirCall'
    BY <2>1, <2>3, <2>4, <2>5 DEF RepliesReachTheirCall, ChannelOf
  <2> QED BY <2>21, <2>22, <2>23, <2>24, <2>25, <2>26, <2>27, <2>28
<1>11. CASE DeliverReply
  <2>1. /\ rvPc = "deliver" /\ rvCh \in Channels /\ rvId \in Ids
        /\ rvPc' = "recv" /\ rvCh' = NoChan
        /\ UNCHANGED <<nextid, callerVars, pool, inflight, rvId, closed, got>>
    BY <1>11 DEF DeliverReply, DeliverInv
  <2>2. /\ buf'[rvCh] = <<Reply(rvId)>> /\ \A x \in Channels : x # rvCh => buf'[x] = buf[x]
    BY <1>11, <2>1, SendOne DEF DeliverReply, BufType, Results
  <2>3. buf'[rvCh] # <<>> /\ buf'[rvCh][1].id = rvId
    BY <2>2 DEF Reply
  <2>4. /\ rvCh \notin pool /\ \A id \in Ids : inflight[id] # rvCh
        /\ \A c \in Callers : clCh[c] = rvCh => clId[c] = rvId /\ Shared(c)
    BY <2>1 DEF DeliverInv, RegisteredInv
  <2>21. CallsDistinct'
    BY <2>1, <2>2, <2>3, <2>4 DEF CallsDistinct, Active
  <2>22. InflightDistinct'
    BY <2>1, <2>2, <2>3, <2>4 DEF InflightDistinct, Exclusive, Ids
  <2>23. ClosedLast'
    BY <2>1, <2>2, <2>3, <2>4 DEF ClosedLast
  <2>24. RegisteredInv'
    BY <2>1, <2>2, <2>3, <2>4 DEF RegisteredInv, Shared
  <2>25. DeliverInv'
    BY <2>1, <2>2, <2>3, <2>4 DEF DeliverInv, Shared
  <2>26. ASSUME NEW x \in Callers PROVE ChannelOf(x)'
    <3>1. CASE Active(x) /\ clCh[x] = rvCh
      BY <2>1, <2>3, <2>4, <3>1 DEF ChannelOf, Exclusive, Shared
    <3>2. CASE Active(x) /\ clCh[x] # rvCh
      <4>1. buf'[clCh'[x]] = buf[clCh[x]]
        BY <2>1, <2>2, <3>2 DEF CallsDistinct
      <4> QED BY <2>1, <3>2, <4>1 DEF ChannelOf, Active, Exclusive, Shared
    <3>3. CASE ~ Active(x)
      BY <2>1, <3>3 DEF ChannelOf, Active, Exclusive, Shared
    <3> QED BY <3>1, <3>2, <3>3
  <2>27. PoolInv'
    BY <2>1, <2>2, <2>3, <2>4 DEF PoolInv
  <2>28. RepliesReachTheirCall'
    BY <2>1, <2>2, <2>3, <2>4 DEF RepliesReachTheirCall
  <2> QED BY <2>21, <2>22, <2>23, <2>24, <2>25, <2>26, <2>27, <2>28
<1>12. CASE BroadcastErr
  <2>1. /\ rvPc = "broadcast" /\ rvPc' = "ended" /\ closed' = TRUE /\ rvCh = NoChan /\ ~ closed
        /\ UNCHANGED <<nextid, callerVars, pool, rvId, rvCh, got>>
    BY <1>12 DEF BroadcastErr, DeliverInv, ClosedLast
  <2>2. \A id \in Ids : inflight'[id] = IF inflight[id] = NoChan THEN NoChan ELSE Dummy
    BY <1>12 DEF BroadcastErr
  <2>3. /\ \A id \in Ids : inflight[id] \in Channels => buf'[inflight[id]] = <<ConnectionLost>>
        /\ \A x \in Channels : (\A id \in Ids : inflight[id] # x) => buf'[x] = buf[x]
        /\ \A x \in Channels : buf'[x] = buf[x] \/ buf'[x] = <<ConnectionLost>>
    BY <1>12 DEF BroadcastErr, Registered
  <2>4. <<ConnectionLost>> # <<>> /\ <<ConnectionLost>>[1].kind # "reply"
    BY DEF ConnectionLost
  <2>5. /\ \A id \in Ids : inflight'[id] \notin Channels
        /\ \A id \in Ids : inflight'[id] # NoChan => inflight[id] # NoChan
        /\ \A id \in Ids : inflight[id] = NoChan => inflight'[id] = NoChan
        /\ \A c \in Callers : Exclusive(c) => clId[c] \in Ids
    <3>1. \A c \in Callers : Exclusive(c) => clId[c] \in Ids
      BY BoundsAssumption DEF CallsDistinct, Exclusive, Active, Ids
    <3> QED BY <2>2, <3>1, ChannelNames DEF NoChan, Dummy
  <2>21. CallsDistinct'
    BY <2>1, <2>2, <2>3, <2>4, BoundsAssumption DEF CallsDistinct, Active
  <2>22. InflightDistinct'
    BY <2>1, <2>2, <2>5 DEF InflightDistinct, Exclusive
  <2>23. ClosedLast'
    BY <2>1, <2>2, <2>3, <2>4, BoundsAssumption DEF ClosedLast
  <2>24. RegisteredInv'
    BY <2>5 DEF RegisteredInv
  <2>25. DeliverInv'
    BY <2>1, <2>2, <2>3, <2>4, BoundsAssumption DEF DeliverInv, Shared
  <2>26. ASSUME NEW x \in Callers PROVE ChannelOf(x)'
    <3>1. CASE ~ Active(x)
      BY <2>1, <3>1 DEF ChannelOf, Active, Exclusive, Shared
    <3>2. CASE Active(x)
      <4>1. clCh[x] \in Channels /\ clId[x] \in Ids /\ inflight'[clId'[x]] \notin Channels
        BY <2>1, <2>5, <3>2, BoundsAssumption DEF CallsDistinct, Ids
      <4>2. CASE buf'[clCh[x]] = <<ConnectionLost>>
        <5>1. ASSUME Exclusive(x) PROVE buf'[clCh[x]] = buf[clCh[x]]
          BY <2>3, <4>1, <5>1 DEF RegisteredInv, Shared, Exclusive
        <5> QED BY <2>1, <2>4, <4>1, <4>2, <5>1 DEF ChannelOf, Exclusive, Shared
      <4>3. CASE buf'[clCh[x]] = buf[clCh[x]]
        <5>1. ASSUME Shared(x), buf[clCh[x]] = <<>> PROVE FALSE
          <6>1. inflight[clId[x]] = clCh[x]
            BY <2>1, <5>1 DEF ChannelOf
          <6>2. buf'[clCh[x]] = <<ConnectionLost>>
            BY <2>3, <4>1, <6>1
          <6> QED BY <2>4, <4>3, <5>1, <6>2
        <5> QED BY <2>1, <4>1, <4>3, <5>1 DEF ChannelOf, Active, Exclusive, Shared
      <4> QED BY <2>3, <4>1, <4>2, <4>3
    <3> QED BY <3>1, <3>2
  <2>27. PoolInv'
    BY <2>1, <2>2, <2>3, <2>4, BoundsAssumption DEF PoolInv, RegisteredInv
  <2>28. RepliesReachTheirCall'
    BY <2>1, <2>2, <2>3, <2>4, BoundsAssumption DEF RepliesReachTheirCall
  <2> QED BY <2>21, <2>22, <2>23, <2>24, <2>25, <2>26, <2>27, <2>28
<1> QED BY <1>1, <1>2, <1>3, <1>4, <1>5, <1>6, <1>7, <1>8, <1>9, <1>10, <1>11, <1>12, <1>13
        DEF Next, Caller, Dispatch, Recv, HandleReply

-----------------------------------------------------------------------------
(* The theorems.                                                           *)

THEOREM ConnInductive == Spec => [](TypeOK /\ ConnInv)
<1>1. Init => TypeOK /\ ConnInv
  BY InitType, InitConn
<1>2. TypeOK /\ ConnInv /\ [Next]_vars => (TypeOK /\ ConnInv)'
  BY NextType, NextConn
<1> QED BY <1>1, <1>2, PTL DEF Spec

\* Every variable keeps its type: no counter passes its bound, no result channel
\* holds two results, and recv only ever sends on a result channel.
THEOREM TypeCorrect == Spec => []TypeOK
BY ConnInductive, PTL

\* Whoever sends on a result channel finds it empty: recv, the caller whose
\* write failed, putChannel after the end, and broadcastErr under its lock.
THEOREM NoSendBlocks == Spec => []SendsNeverBlock
<1>1. TypeOK /\ ConnInv => SendsNeverBlock
  BY DEF ConnInv, SendsNeverBlock, DeliverInv, ChannelOf, Exclusive, RegisteredInv,
     Registered, HasRoom
<1> QED BY <1>1, ConnInductive, PTL

\* A waiting call has its result, is registered, or is being answered.
THEOREM EveryWaiterServed == Spec => []NoCallForgotten
<1>1. TypeOK /\ ConnInv => NoCallForgotten
  <2> SUFFICES ASSUME TypeOK, ConnInv, NEW c \in Callers, clPc[c] = "wait"
               PROVE  \/ buf[clCh[c]] # <<>>
                      \/ inflight[clId[c]] = clCh[c] /\ ~ closed
                      \/ rvPc = "deliver" /\ rvCh = clCh[c]
    BY DEF NoCallForgotten
  <2>1. clCh[c] \in Channels /\ clId[c] \in Ids
    BY BoundsAssumption DEF ConnInv, CallsDistinct, Active, TypeOK, Ids
  <2>2. inflight[clId[c]] = clCh[c] => ~ closed
    BY <2>1 DEF ConnInv, ClosedLast
  <2>3. \/ buf[clCh[c]] # <<>>
        \/ inflight[clId[c]] = clCh[c]
        \/ rvPc = "deliver" /\ rvCh = clCh[c]
    BY DEF ConnInv, ChannelOf, Shared
  <2> QED BY <2>2, <2>3
<1> QED BY <1>1, ConnInductive, PTL

\* No call returns the reply to another, whatever channels are reused.
THEOREM NoCrossedReplies == Spec => []RepliesReachTheirCall
<1>1. TypeOK /\ ConnInv => RepliesReachTheirCall
  BY DEF ConnInv
<1> QED BY <1>1, ConnInductive, PTL

\* A channel in the pool belongs to nobody and is empty.
THEOREM PooledChannelsClean == Spec => []PoolIsClean
<1>1. TypeOK /\ ConnInv => PoolIsClean
  <2> SUFFICES ASSUME TypeOK, ConnInv, NEW ch \in pool
               PROVE  /\ buf[ch] = <<>> /\ ch # rvCh /\ ch \notin Registered
                      /\ \A c \in Callers : clCh[c] # ch
    BY DEF PoolIsClean
  <2>1. ch \in Channels
    BY DEF TypeOK
  <2>2. ch # rvCh
    BY <2>1, ChannelNames DEF ConnInv, DeliverInv
  <2>3. ch \notin Registered
    BY DEF ConnInv, RegisteredInv, Registered
  <2> QED BY <2>2, <2>3 DEF ConnInv, PoolInv
<1> QED BY <1>1, ConnInductive, PTL

-----------------------------------------------------------------------------
(* Outcomes.                                                               *)

\* The request of a call that has not returned has no outcome yet, nor has an
\* id that was not given out.
OutcomeInv ==
  /\ \A c \in Callers : Active(c) => got[clId[c]] = Pending
  /\ \A id \in Ids : id > nextid => got[id] = Pending

Unchanging == \A id \in Ids : got[id] # Pending => got'[id] = got[id]

\* A call that returns leaves every other call's request alone.
LEMMA EndsOne ==
  ASSUME TypeOK, ConnInv, OutcomeInv, NEW c \in Callers, clPc[c] = "wait",
         NEW outcome, EndCall(c, outcome), UNCHANGED <<nextid, clId>>
  PROVE  OutcomeInv' /\ Unchanging
<1>1. clId[c] \in Ids /\ clId[c] <= nextid /\ got[clId[c]] = Pending /\ nextid \in Nat
  BY BoundsAssumption DEF TypeOK, ConnInv, CallsDistinct, OutcomeInv, Active, Ids
<1>2. /\ \A id \in Ids : id # clId[c] => got'[id] = got[id]
      /\ \A d \in Callers : Active(d)' => Active(d) /\ d # c
  BY DEF EndCall, TypeOK, Active
<1>3. \A d \in Callers : Active(d) /\ d # c => clId[d] \in Ids /\ clId[d] # clId[c]
  BY <1>1, BoundsAssumption DEF TypeOK, ConnInv, CallsDistinct, Active, Ids
<1>4. \A d \in Callers : Active(d)' => got'[clId'[d]] = Pending
  BY <1>2, <1>3 DEF OutcomeInv
<1>5. \A id \in Ids : id > nextid' => got'[id] = Pending
  <2> SUFFICES ASSUME NEW id \in Ids, id > nextid PROVE got'[id] = Pending
    OBVIOUS
  <2>1. id # clId[c]
    BY <1>1, BoundsAssumption DEF Ids
  <2> QED BY <1>2, <2>1 DEF OutcomeInv
<1>6. Unchanging
  BY <1>1, <1>2 DEF Unchanging
<1> QED BY <1>4, <1>5, <1>6 DEF OutcomeInv

LEMMA NextOutcome ==
  ASSUME TypeOK, ConnInv, OutcomeInv, [Next]_vars
  PROVE  OutcomeInv' /\ Unchanging
<1>1. ASSUME UNCHANGED <<nextid, clId, got>>, \A c \in Callers : Active(c)' => Active(c)
      PROVE  OutcomeInv' /\ Unchanging
  BY <1>1 DEF OutcomeInv, Unchanging
<1>2. ASSUME NEW c \in Callers, StartCall(c)
      PROVE  OutcomeInv' /\ Unchanging
  <2>1. /\ nextid' = nextid + 1 /\ nextid < MaxRequests /\ nextid \in Nat
        /\ clId'[c] = nextid + 1 /\ got' = got
        /\ \A d \in Callers : d # c => clId'[d] = clId[d] /\ (Active(d)' => Active(d))
    BY <1>2, BoundsAssumption DEF StartCall, TypeOK, Active
  <2>2. nextid + 1 \in Ids /\ got[nextid + 1] = Pending
    BY <2>1, BoundsAssumption DEF OutcomeInv, Ids
  <2>3. \A d \in Callers : Active(d)' => got'[clId'[d]] = Pending
    BY <2>1, <2>2 DEF OutcomeInv
  <2>4. \A id \in Ids : id > nextid' => got'[id] = Pending
    BY <2>1, BoundsAssumption DEF OutcomeInv, Ids
  <2> QED BY <2>1, <2>3, <2>4 DEF OutcomeInv, Unchanging
<1>3. ASSUME NEW c \in Callers, Dispatch(c)
      PROVE  OutcomeInv' /\ Unchanging
  <2>1. /\ UNCHANGED <<nextid, clId, got>>
        /\ \A d \in Callers : d # c => clPc'[d] = clPc[d]
        /\ clPc[c] # "idle"
    BY <1>3 DEF Dispatch, PutChannel, WriteRequest, WriteFails, UndoPut, DeliverWriteError, TypeOK
  <2> QED BY <1>1, <2>1 DEF Active
<1>4. ASSUME NEW c \in Callers, ReceiveResult(c)
      PROVE  OutcomeInv' /\ Unchanging
  BY <1>4, EndsOne DEF ReceiveResult
<1>5. ASSUME NEW c \in Callers, AbandonCall(c)
      PROVE  OutcomeInv' /\ Unchanging
  BY <1>5, EndsOne DEF AbandonCall
<1>6. ASSUME Recv \/ CallClose \/ CloseReturns \/ Ended \/ UNCHANGED vars
      PROVE  OutcomeInv' /\ Unchanging
  <2>1. UNCHANGED <<nextid, clPc, clId, got>>
    BY <1>6 DEF Recv, RecvReply, RecvFails, HandleReply, LookupChannel, DeliverReply, RecvCloses,
       BroadcastErr, CallClose, CloseReturns, Ended, vars
  <2> QED BY <1>1, <2>1 DEF Active
<1> QED BY <1>2, <1>3, <1>4, <1>5, <1>6 DEF Next, Caller

\* A call returns once: nothing that arrives later, and no later call, changes how a
\* request ended.
THEOREM OutcomesStay == Spec => OutcomesAreFinal
<1>1. Init => OutcomeInv
  BY DEF Init, OutcomeInv, Active
<1>2. TypeOK /\ ConnInv /\ OutcomeInv /\ [Next]_vars => OutcomeInv'
  BY NextOutcome
<1>3. TypeOK /\ ConnInv /\ OutcomeInv /\ [Next]_vars =>
        [\A id \in Ids : got[id] # Pending => got'[id] = got[id]]_vars
  BY NextOutcome DEF Unchanging
<1>4. Spec => []OutcomeInv
  BY <1>1, <1>2, ConnInductive, PTL DEF Spec
<1> QED BY <1>3, <1>4, ConnInductive, PTL DEF Spec, OutcomesAreFinal
=============================================================================
