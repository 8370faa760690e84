------------------------- MODULE PacketManagerProofs -------------------------
(***************************************************************************)
(* Theorems about PacketManager, and about PagedServer with the allocator, *)
(* for any number of workers, packets and pages.                           *)
(***************************************************************************)
EXTENDS PagedServer, FiniteSetTheorems, SequenceTheorems, TLAPS

USE DEF serveVars, dispVars, workerVars, controlVars

-----------------------------------------------------------------------------
(* Channels and order ids.                                                 *)

\* A send puts one packet behind the others.
LEMMA AppendItems ==
  ASSUME NEW s \in Seq(Nat), NEW n \in Nat
  PROVE  /\ Append(s, n) \in Seq(Nat)
         /\ Len(Append(s, n)) = Len(s) + 1
         /\ \A i \in 1..Len(s) : Append(s, n)[i] = s[i]
         /\ Append(s, n)[Len(s) + 1] = n
         /\ Items(Append(s, n)) = Items(s) \cup {n}
BY DEF Items

\* A receive takes the first packet and moves the others up by one.
LEMMA TailItems ==
  ASSUME NEW s \in Seq(Nat), s # <<>>
  PROVE  /\ Head(s) = s[1] /\ Head(s) \in Nat
         /\ Tail(s) \in Seq(Nat)
         /\ Len(Tail(s)) = Len(s) - 1
         /\ \A i \in 1..Len(Tail(s)) : Tail(s)[i] = s[i + 1]
         /\ Items(s) = {Head(s)} \cup Items(Tail(s))
<1>1. /\ Head(s) = s[1] /\ Head(s) \in Nat
      /\ Tail(s) \in Seq(Nat)
      /\ Len(Tail(s)) = Len(s) - 1
      /\ \A i \in 1..Len(Tail(s)) : Tail(s)[i] = s[i + 1]
  OBVIOUS
<1>2. Items(s) = {Head(s)} \cup Items(Tail(s))
  <2>1. DOMAIN s = 1..Len(s) /\ DOMAIN Tail(s) = 1..Len(Tail(s))
    BY <1>1
  <2>2. ASSUME NEW i \in 1..Len(s)
        PROVE  s[i] = Head(s) \/ (i - 1 \in 1..Len(Tail(s)) /\ s[i] = Tail(s)[i - 1])
    BY <1>1
  <2>3. ASSUME NEW i \in 1..Len(Tail(s))
        PROVE  i + 1 \in 1..Len(s) /\ Tail(s)[i] = s[i + 1]
    BY <1>1
  <2>4. 1 \in 1..Len(s)
    OBVIOUS
  <2>5. Items(s) = {s[i] : i \in 1..Len(s)}
        /\ Items(Tail(s)) = {Tail(s)[i] : i \in 1..Len(Tail(s))}
    BY <2>1 DEF Items
  <2>6. ASSUME NEW x \in Items(s)
        PROVE  x = Head(s) \/ x \in Items(Tail(s))
    BY <2>2, <2>5
  <2>7. ASSUME NEW x \in Items(Tail(s))
        PROVE  x \in Items(s)
    BY <2>3, <2>5
  <2>8. Head(s) \in Items(s)
    BY <1>1, <2>4, <2>5
  <2> QED BY <2>6, <2>7, <2>8
<1> QED BY <1>1, <1>2

\* Before the counter wraps, an order id is the arrival number itself.
LEMMA OrderIDBeforeWrap ==
  ASSUME NEW n \in Nat, n < OrderWrap
  PROVE  OrderID(n) = n
BY OrderWrapAssumption DEF OrderID

-----------------------------------------------------------------------------
(* Types.                                                                  *)

\* TypeOK with the weaker type of working: that the counter never goes below
\* zero is a consequence of WorkingCounts and is proved with it.
WeakTypeOK ==
  /\ arrived \in Seq(Kinds) /\ Len(arrived) <= MaxPackets
  /\ svPc \in {"reading", "pushing", "waiting", "returned"}
  /\ pktChan \in Seq(Nat)
  /\ dpPc \in {"range", "barrier", "register", "handoff", "closing", "done"}
  /\ dpPkt \in Nat
  /\ working \in Int
  /\ requests \in Seq(Nat) /\ rwChan \in Seq(Nat) /\ responses \in Seq(Nat)
  /\ wkPc \in [Workers -> {"idle", "serving", "ready", "exited"}]
  /\ wkPkt \in [Workers -> Nat]
  /\ ctlPc \in {"select", "sending", "stopped"}
  /\ incoming \subseteq Nat /\ outgoing \subseteq Nat
  /\ sent \in Seq(Nat)

LEMMA InitType == Init => WeakTypeOK
BY MaxPacketsAssumption DEF Init, WeakTypeOK, Workers, Kinds

LEMMA NextType == WeakTypeOK /\ [Next]_vars => WeakTypeOK'
<1> SUFFICES ASSUME WeakTypeOK, [Next]_vars PROVE WeakTypeOK'
  OBVIOUS
<1> USE DEF WeakTypeOK
<1>1. ASSUME NEW kind \in Kinds, RecvPacket(kind) PROVE WeakTypeOK'
  BY <1>1, MaxPacketsAssumption DEF RecvPacket
<1>2. CASE PushPacket
  BY <1>2 DEF PushPacket
<1>3. CASE StopReading \/ ServeReturns
  BY <1>3 DEF StopReading, ServeReturns
<1>4. CASE TakePacket
  BY <1>4, TailItems DEF TakePacket
<1>5. CASE AwaitWorking \/ CloseWorkerChans \/ CloseFini
  BY <1>5 DEF AwaitWorking, CloseWorkerChans, CloseFini
<1>6. CASE IncomingPacket
  BY <1>6 DEF IncomingPacket
<1>7. CASE HandToRWChan
  BY <1>7 DEF HandToRWChan
<1>8. CASE HandToCmdWorker
  BY <1>8 DEF HandToCmdWorker
<1>9. ASSUME NEW w \in Workers, TakeRW(w) PROVE WeakTypeOK'
  BY <1>9, TailItems DEF TakeRW
<1>10. ASSUME NEW w \in Workers, ReadyPacket(w) PROVE WeakTypeOK'
  BY <1>10 DEF ReadyPacket
<1>11. ASSUME NEW w \in Workers, WorkingDone(w) PROVE WeakTypeOK'
  BY <1>11 DEF WorkingDone
<1>12. ASSUME NEW w \in Workers, WorkerExit(w) PROVE WeakTypeOK'
  BY <1>12 DEF WorkerExit
<1>13. CASE ControllerTakesRequest
  BY <1>13, TailItems DEF ControllerTakesRequest
<1>14. CASE ControllerTakesResponse
  BY <1>14, TailItems DEF ControllerTakesResponse
<1>15. CASE ControllerStops \/ NothingToSend
  BY <1>15 DEF ControllerStops, NothingToSend
<1>16. ASSUME NEW out \in outgoing, NEW in \in incoming, SendReply(out, in)
       PROVE  WeakTypeOK'
  BY <1>16 DEF SendReply
<1>17. CASE Ended \/ UNCHANGED vars
  BY <1>17 DEF Ended, vars
<1> QED BY <1>1, <1>2, <1>3, <1>4, <1>5, <1>6, <1>7, <1>8, <1>9, <1>10, <1>11,
           <1>12, <1>13, <1>14, <1>15, <1>16, <1>17
        DEF Next, Serve, Dispatcher, Worker, Controller

LEMMA WeakTypeInvariant == Spec => []WeakTypeOK
BY InitType, NextType, PTL DEF Spec

-----------------------------------------------------------------------------
(* The order of the packets along the pipeline.                            *)

\* One packet may be between recvPacket and pktChan, and one between pktChan
\* and incomingPacket.
Pending == IF svPc = "pushing" THEN 1 ELSE 0
Held == IF dpPc \in {"barrier", "register"} THEN 1 ELSE 0

\* How many packets incomingPacket has registered, and how many of them the
\* controller has put on its incoming list.
Registered == Len(arrived) - Pending - Len(pktChan) - Held
Listed == Registered - Len(requests)

Busy(w) == wkPc[w] \in {"serving", "ready"}

\* Between Serve and the controller the packets stand in the order of their
\* arrival: requests, dispatcher and pktChan follow each other without a gap.
ChainInOrder ==
  /\ Listed \in Nat
  /\ \A i \in 1..Len(requests) : requests[i] = Listed + i
  /\ Held = 1 => dpPkt = Registered + 1
  /\ \A i \in 1..Len(pktChan) : pktChan[i] = Registered + Held + i

\* Downstream of the dispatcher every packet is a registered one.
OnlyRegistered ==
  /\ dpPc = "handoff" => dpPkt = Registered /\ dpPkt >= 1
  /\ Items(rwChan) \subseteq 1..Registered
  /\ \A w \in Workers : Busy(w) => wkPkt[w] \in 1..Registered
  /\ Items(responses) \subseteq 1..Registered
  /\ outgoing \subseteq 1..Registered

PipelineInv == ChainInOrder /\ OnlyRegistered

\* The incoming list holds what the controller has taken and not answered.
IncomingInOrder ==
  /\ Len(sent) <= Listed
  /\ incoming = (Len(sent) + 1)..Listed
  /\ InOrder

LEMMA InitPipeline == Init => PipelineInv /\ IncomingInOrder
<1> SUFFICES ASSUME Init PROVE PipelineInv /\ IncomingInOrder
  OBVIOUS
<1>1. Pending = 0 /\ Held = 0 /\ Registered = 0 /\ Listed = 0
  <2>1. Len(arrived) = 0 /\ Len(pktChan) = 0 /\ Len(requests) = 0
    BY DEF Init
  <2>2. Pending = 0 /\ Held = 0
    BY DEF Init, Pending, Held
  <2> QED BY <2>1, <2>2 DEF Registered, Listed
<1>2. ChainInOrder
  BY <1>1 DEF Init, ChainInOrder
<1>3. OnlyRegistered
  <2>1. Items(rwChan) = {} /\ Items(responses) = {}
    BY DEF Init, Items
  <2>2. \A w \in Workers : ~ Busy(w)
    BY DEF Init, Busy
  <2> QED BY <2>1, <2>2 DEF Init, OnlyRegistered
<1>4. IncomingInOrder
  BY <1>1 DEF Init, InOrder, IncomingInOrder
<1> QED BY <1>2, <1>3, <1>4 DEF PipelineInv

\* The counts are integers, and nothing is registered before it arrives.
LEMMA Counts ==
  ASSUME WeakTypeOK
  PROVE  /\ Pending \in {0, 1} /\ Held \in {0, 1}
         /\ Registered \in Int /\ Listed \in Int
         /\ Registered <= Len(arrived) /\ Listed <= Registered
<1>1. Len(arrived) \in Nat /\ Len(pktChan) \in Nat /\ Len(requests) \in Nat
  BY DEF WeakTypeOK
<1>2. Pending \in {0, 1} /\ Held \in {0, 1}
  BY DEF Pending, Held
<1> QED BY <1>1, <1>2 DEF Registered, Listed

LEMMA NextPipeline ==
  ASSUME WeakTypeOK, PipelineInv, [Next]_vars
  PROVE  PipelineInv'
<1> USE DEF PipelineInv
<1>0. WeakTypeOK'
  BY NextType
<1>a. /\ Registered \in Nat /\ Listed \in Nat /\ Held \in {0, 1}
      /\ Registered <= Len(arrived) /\ Listed <= Registered
      /\ Len(requests) \in Nat /\ Registered = Listed + Len(requests)
  BY Counts DEF ChainInOrder, WeakTypeOK, Listed
<1>1. ASSUME NEW kind \in Kinds, RecvPacket(kind) PROVE PipelineInv'
  <2>1. Registered' = Registered /\ Listed' = Listed /\ Held' = Held
    BY <1>1, AppendItems DEF RecvPacket, WeakTypeOK, Registered, Listed, Pending, Held
  <2>2. ChainInOrder'
    BY <1>1, <1>a, <2>1, AppendItems DEF RecvPacket, WeakTypeOK, ChainInOrder
  <2>3. OnlyRegistered'
    BY <1>1, <1>a, <2>1, AppendItems DEF RecvPacket, WeakTypeOK, OnlyRegistered, Busy
  <2> QED BY <2>2, <2>3 DEF PipelineInv
<1>2. CASE PushPacket
  <2>1. Registered' = Registered /\ Listed' = Listed /\ Held' = Held
    BY <1>2, AppendItems DEF PushPacket, WeakTypeOK, Registered, Listed, Pending, Held
  <2>a. /\ Len(pktChan) \in Nat /\ Len(pktChan') = Len(pktChan) + 1
        /\ \A i \in 1..Len(pktChan) : pktChan'[i] = pktChan[i]
        /\ pktChan'[Len(pktChan) + 1] = Registered + Held + Len(pktChan) + 1
    <3>1. Pending = 1 /\ Len(arrived) \in Nat /\ pktChan \in Seq(Nat)
      BY <1>2 DEF PushPacket, Pending, WeakTypeOK
    <3> QED BY <1>2, <1>a, <3>1, AppendItems DEF PushPacket, Registered
  <2>b. ASSUME NEW i \in 1..Len(pktChan') PROVE pktChan'[i] = Registered' + Held' + i
    <3>1. CASE i \in 1..Len(pktChan)
      BY <1>a, <2>1, <2>a, <3>1 DEF ChainInOrder
    <3>2. CASE i = Len(pktChan) + 1
      BY <1>a, <2>1, <2>a, <3>2
    <3> QED BY <2>a, <3>1, <3>2
  <2>2. ChainInOrder'
    BY <1>2, <2>1, <2>b DEF PushPacket, ChainInOrder
  <2>3. OnlyRegistered'
    BY <1>2, <1>a, <2>1, AppendItems DEF PushPacket, WeakTypeOK, OnlyRegistered, Busy
  <2> QED BY <2>2, <2>3 DEF PipelineInv
<1>3. CASE StopReading \/ ServeReturns
  <2>1. Registered' = Registered /\ Listed' = Listed /\ Held' = Held
    BY <1>3 DEF StopReading, ServeReturns, WeakTypeOK, Registered, Listed, Pending, Held
  <2>2. ChainInOrder'
    BY <1>3, <1>a, <2>1 DEF StopReading, ServeReturns, WeakTypeOK, ChainInOrder
  <2>3. OnlyRegistered'
    BY <1>3, <1>a, <2>1 DEF StopReading, ServeReturns, WeakTypeOK, OnlyRegistered, Busy
  <2> QED BY <2>2, <2>3 DEF PipelineInv
<1>4. CASE TakePacket
  <2>1. Registered' = Registered /\ Listed' = Listed /\ Held = 0 /\ Held' = 1
    BY <1>4, TailItems DEF TakePacket, WeakTypeOK, Registered, Listed, Pending, Held
  <2>a. /\ Len(pktChan) \in Nat \ {0} /\ dpPkt' = pktChan[1]
        /\ Len(pktChan') = Len(pktChan) - 1
        /\ \A i \in 1..Len(pktChan') : pktChan'[i] = pktChan[i + 1]
    BY <1>4, TailItems DEF TakePacket, WeakTypeOK
  <2>b. ASSUME NEW i \in 1..Len(pktChan') PROVE pktChan'[i] = Registered' + Held' + i
    <3>1. i + 1 \in 1..Len(pktChan)
      BY <2>a
    <3> QED BY <1>a, <2>1, <2>a, <3>1 DEF ChainInOrder
  <2>c. dpPkt' = Registered' + 1
    BY <1>a, <2>1, <2>a DEF ChainInOrder
  <2>2. ChainInOrder'
    BY <1>4, <2>1, <2>b, <2>c DEF TakePacket, ChainInOrder
  <2>3. OnlyRegistered'
    BY <1>4, <1>a, <2>1, TailItems DEF TakePacket, WeakTypeOK, OnlyRegistered, Busy
  <2> QED BY <2>2, <2>3 DEF PipelineInv
<1>5. CASE AwaitWorking \/ CloseWorkerChans \/ CloseFini
  <2>1. Registered' = Registered /\ Listed' = Listed /\ Held' = Held
    BY <1>5 DEF AwaitWorking, CloseWorkerChans, CloseFini, WeakTypeOK, Registered, Listed, Pending, Held
  <2>2. ChainInOrder'
    BY <1>5, <1>a, <2>1 DEF AwaitWorking, CloseWorkerChans, CloseFini, WeakTypeOK, ChainInOrder
  <2>3. OnlyRegistered'
    BY <1>5, <1>a, <2>1 DEF AwaitWorking, CloseWorkerChans, CloseFini, WeakTypeOK, OnlyRegistered, Busy
  <2> QED BY <2>2, <2>3 DEF PipelineInv
<1>6. CASE IncomingPacket
  <2>1. Registered' = Registered + 1 /\ Listed' = Listed /\ Held = 1 /\ Held' = 0
    BY <1>6, AppendItems DEF IncomingPacket, WeakTypeOK, Registered, Listed, Pending, Held
  <2>a. dpPkt = Registered + 1 /\ dpPkt' = dpPkt /\ pktChan' = pktChan
    BY <1>6, <2>1 DEF IncomingPacket, ChainInOrder
  <2>b. /\ Len(requests') = Len(requests) + 1
        /\ \A i \in 1..Len(requests) : requests'[i] = requests[i]
        /\ requests'[Len(requests) + 1] = Registered + 1
    BY <1>6, <2>a, AppendItems DEF IncomingPacket, WeakTypeOK
  <2>c. ASSUME NEW i \in 1..Len(requests') PROVE requests'[i] = Listed' + i
    <3>1. CASE i \in 1..Len(requests)
      BY <1>a, <2>1, <2>b, <3>1 DEF ChainInOrder
    <3>2. CASE i = Len(requests) + 1
      BY <1>a, <2>1, <2>b, <3>2
    <3> QED BY <1>a, <2>b, <3>1, <3>2
  <2>d. ASSUME NEW i \in 1..Len(pktChan') PROVE pktChan'[i] = Registered' + Held' + i
    BY <1>a, <2>1, <2>a DEF ChainInOrder
  <2>2. ChainInOrder'
    BY <1>6, <2>1, <2>c, <2>d DEF IncomingPacket, ChainInOrder
  <2>3. OnlyRegistered'
    <3>1. 1..Registered \subseteq 1..Registered' /\ dpPkt' = Registered' /\ dpPkt' >= 1
      BY <1>a, <2>1, <2>a
    <3> QED BY <1>6, <3>1 DEF IncomingPacket, OnlyRegistered, Busy
  <2> QED BY <2>2, <2>3 DEF PipelineInv
<1>7. CASE HandToRWChan
  <2>1. Registered' = Registered /\ Listed' = Listed /\ Held' = Held
    BY <1>7, AppendItems DEF HandToRWChan, WeakTypeOK, Registered, Listed, Pending, Held
  <2>2. ChainInOrder'
    BY <1>7, <1>a, <2>1, AppendItems DEF HandToRWChan, WeakTypeOK, ChainInOrder
  <2>3. OnlyRegistered'
    BY <1>7, <1>a, <2>1, AppendItems DEF HandToRWChan, WeakTypeOK, OnlyRegistered, Busy
  <2> QED BY <2>2, <2>3 DEF PipelineInv
<1>8. CASE HandToCmdWorker
  <2>1. Registered' = Registered /\ Listed' = Listed /\ Held' = Held
    BY <1>8 DEF HandToCmdWorker, WeakTypeOK, Registered, Listed, Pending, Held
  <2>2. ChainInOrder'
    BY <1>8, <1>a, <2>1 DEF HandToCmdWorker, WeakTypeOK, ChainInOrder
  <2>3. OnlyRegistered'
    BY <1>8, <1>a, <2>1 DEF HandToCmdWorker, WeakTypeOK, OnlyRegistered, Busy
  <2> QED BY <2>2, <2>3 DEF PipelineInv
<1>9. ASSUME NEW w \in Workers, TakeRW(w) PROVE PipelineInv'
  <2>1. Registered' = Registered /\ Listed' = Listed /\ Held' = Held
    BY <1>9, TailItems DEF TakeRW, WeakTypeOK, Registered, Listed, Pending, Held
  <2>2. ChainInOrder'
    BY <1>9, <1>a, <2>1, TailItems DEF TakeRW, WeakTypeOK, ChainInOrder
  <2>3. OnlyRegistered'
    BY <1>9, <1>a, <2>1, TailItems DEF TakeRW, WeakTypeOK, OnlyRegistered, Busy
  <2> QED BY <2>2, <2>3 DEF PipelineInv
<1>10. ASSUME NEW w \in Workers, ReadyPacket(w) PROVE PipelineInv'
  <2>1. Registered' = Registered /\ Listed' = Listed /\ Held' = Held
    BY <1>10, AppendItems DEF ReadyPacket, WeakTypeOK, Registered, Listed, Pending, Held
  <2>2. ChainInOrder'
    BY <1>10, <1>a, <2>1, AppendItems DEF ReadyPacket, WeakTypeOK, ChainInOrder
  <2>3. OnlyRegistered'
    BY <1>10, <1>a, <2>1, AppendItems DEF ReadyPacket, WeakTypeOK, OnlyRegistered, Busy
  <2> QED BY <2>2, <2>3 DEF PipelineInv
<1>11. ASSUME NEW w \in Workers, WorkingDone(w) \/ WorkerExit(w) PROVE PipelineInv'
  <2>1. Registered' = Registered /\ Listed' = Listed /\ Held' = Held
    BY <1>11 DEF WorkingDone, WorkerExit, WeakTypeOK, Registered, Listed, Pending, Held
  <2>2. ChainInOrder'
    BY <1>11, <1>a, <2>1 DEF WorkingDone, WorkerExit, WeakTypeOK, ChainInOrder
  <2>3. OnlyRegistered'
    BY <1>11, <1>a, <2>1 DEF WorkingDone, WorkerExit, WeakTypeOK, OnlyRegistered, Busy
  <2> QED BY <2>2, <2>3 DEF PipelineInv
<1>12. CASE ControllerTakesRequest
  <2>1. Registered' = Registered /\ Listed' = Listed + 1 /\ Held' = Held
    BY <1>12, TailItems DEF ControllerTakesRequest, WeakTypeOK, Registered, Listed, Pending, Held
  <2>a. /\ Len(requests) \in Nat \ {0}
        /\ Len(requests') = Len(requests) - 1
        /\ \A i \in 1..Len(requests') : requests'[i] = requests[i + 1]
    BY <1>12, TailItems DEF ControllerTakesRequest, WeakTypeOK
  <2>b. ASSUME NEW i \in 1..Len(requests') PROVE requests'[i] = Listed' + i
    <3>1. i + 1 \in 1..Len(requests)
      BY <2>a
    <3> QED BY <1>a, <2>1, <2>a, <3>1 DEF ChainInOrder
  <2>2. ChainInOrder'
    BY <1>12, <1>a, <2>1, <2>b DEF ControllerTakesRequest, ChainInOrder
  <2>3. OnlyRegistered'
    BY <1>12, <1>a, <2>1, TailItems DEF ControllerTakesRequest, WeakTypeOK, OnlyRegistered, Busy
  <2> QED BY <2>2, <2>3 DEF PipelineInv
<1>13. CASE ControllerTakesResponse
  <2>1. Registered' = Registered /\ Listed' = Listed /\ Held' = Held
    BY <1>13, TailItems DEF ControllerTakesResponse, WeakTypeOK, Registered, Listed, Pending, Held
  <2>2. ChainInOrder'
    BY <1>13, <1>a, <2>1, TailItems DEF ControllerTakesResponse, WeakTypeOK, ChainInOrder
  <2>3. OnlyRegistered'
    BY <1>13, <1>a, <2>1, TailItems DEF ControllerTakesResponse, WeakTypeOK, OnlyRegistered, Busy
  <2> QED BY <2>2, <2>3 DEF PipelineInv
<1>14. CASE ControllerStops \/ NothingToSend
  <2>1. Registered' = Registered /\ Listed' = Listed /\ Held' = Held
    BY <1>14 DEF ControllerStops, NothingToSend, WeakTypeOK, Registered, Listed, Pending, Held
  <2>2. ChainInOrder'
    BY <1>14, <1>a, <2>1 DEF ControllerStops, NothingToSend, WeakTypeOK, ChainInOrder
  <2>3. OnlyRegistered'
    BY <1>14, <1>a, <2>1 DEF ControllerStops, NothingToSend, WeakTypeOK, OnlyRegistered, Busy
  <2> QED BY <2>2, <2>3 DEF PipelineInv
<1>15. ASSUME NEW out \in outgoing, NEW in \in incoming, SendReply(out, in)
       PROVE  PipelineInv'
  <2>1. Registered' = Registered /\ Listed' = Listed /\ Held' = Held
    BY <1>15 DEF SendReply, WeakTypeOK, Registered, Listed, Pending, Held
  <2>2. ChainInOrder'
    BY <1>15, <1>a, <2>1 DEF SendReply, WeakTypeOK, ChainInOrder
  <2>3. OnlyRegistered'
    BY <1>15, <1>a, <2>1 DEF SendReply, WeakTypeOK, OnlyRegistered, Busy
  <2> QED BY <2>2, <2>3 DEF PipelineInv
<1>16. CASE Ended \/ UNCHANGED vars
  <2>1. UNCHANGED vars
    BY <1>16 DEF Ended
  <2>2. Registered' = Registered /\ Listed' = Listed /\ Held' = Held
    BY <2>1 DEF vars, Registered, Listed, Pending, Held
  <2> QED BY <2>1, <2>2 DEF vars, ChainInOrder, OnlyRegistered, Busy
<1> QED BY <1>1, <1>2, <1>3, <1>4, <1>5, <1>6, <1>7, <1>8, <1>9, <1>10, <1>11,
           <1>12, <1>13, <1>14, <1>15, <1>16
        DEF Next, Serve, Dispatcher, Worker, Controller

LEMMA PipelineInvariant == Spec => []PipelineInv
<1>1. Init => PipelineInv
  BY InitPipeline
<1>2. WeakTypeOK /\ PipelineInv /\ [Next]_vars => PipelineInv'
  BY NextPipeline
<1> QED BY <1>1, <1>2, WeakTypeInvariant, PTL DEF Spec

-----------------------------------------------------------------------------
(* The order of the replies.                                               *)

\* Only the controller moves packets on and off the incoming list: every step
\* lists a request, sends a reply, or leaves list and replies alone.
LEMMA ListSteps ==
  ASSUME WeakTypeOK, [Next]_vars
  PROVE  \/ UNCHANGED <<Listed, incoming, sent>>
         \/ ControllerTakesRequest /\ Listed' = Listed + 1
         \/ /\ \E out \in outgoing, in \in incoming : SendReply(out, in)
            /\ Listed' = Listed
<1> DEFINE Goal == \/ UNCHANGED <<Listed, incoming, sent>>
                   \/ ControllerTakesRequest /\ Listed' = Listed + 1
                   \/ /\ \E out \in outgoing, in \in incoming : SendReply(out, in)
                      /\ Listed' = Listed
<1> USE DEF WeakTypeOK, Listed, Registered, Pending, Held
<1>1. CASE Serve
  <2>1. ASSUME NEW kind \in Kinds, RecvPacket(kind) PROVE Listed' = Listed
    BY <2>1, AppendItems DEF RecvPacket
  <2>2. CASE PushPacket
    <3>1. Len(arrived) \in Nat /\ Len(pktChan') = Len(pktChan) + 1
      BY <2>2, AppendItems DEF PushPacket
    <3>2. Listed' = Listed
      BY <2>2, <3>1 DEF PushPacket
    <3> QED BY <2>2, <3>2 DEF PushPacket
  <2>3. CASE StopReading \/ ServeReturns
    BY <2>3 DEF StopReading, ServeReturns
  <2> QED BY <1>1, <2>1, <2>2, <2>3 DEF Serve, RecvPacket
<1>2. CASE TakePacket \/ IncomingPacket
  <2>1. CASE TakePacket
    <3>1. Listed' = Listed
      BY <2>1, TailItems DEF TakePacket
    <3> QED BY <2>1, <3>1 DEF TakePacket
  <2>2. CASE IncomingPacket
    <3>1. Len(requests') = Len(requests) + 1
      BY <2>2, AppendItems DEF IncomingPacket
    <3>2. Listed' = Listed
      BY <2>2, <3>1 DEF IncomingPacket
    <3> QED BY <2>2, <3>2 DEF IncomingPacket
  <2> QED BY <1>2, <2>1, <2>2
<1>3. CASE AwaitWorking \/ HandToRWChan \/ HandToCmdWorker \/ CloseWorkerChans \/ CloseFini
  BY <1>3 DEF AwaitWorking, HandToRWChan, HandToCmdWorker, CloseWorkerChans, CloseFini
<1>4. ASSUME NEW w \in Workers, Worker(w) PROVE Goal
  BY <1>4 DEF Worker, TakeRW, ReadyPacket, WorkingDone, WorkerExit
<1>5. CASE ControllerTakesRequest
  BY <1>5, TailItems DEF ControllerTakesRequest
<1>6. CASE ControllerTakesResponse \/ ControllerStops \/ NothingToSend
  BY <1>6 DEF ControllerTakesResponse, ControllerStops, NothingToSend
<1>7. CASE \E out \in outgoing, in \in incoming : SendReply(out, in)
  BY <1>7 DEF SendReply
<1>8. CASE Ended \/ UNCHANGED vars
  BY <1>8 DEF Ended, vars
<1> QED BY <1>1, <1>2, <1>3, <1>4, <1>5, <1>6, <1>7, <1>8 DEF Next, Dispatcher, Controller

\* The only reply the controller can send is the next one in order: the head
\* of incoming is the successor of the last packet answered, and before the
\* counter wraps no other packet has its order id.
LEMMA NextReply ==
  ASSUME WeakTypeOK, PipelineInv, IncomingInOrder, MaxPackets < OrderWrap,
         NEW out \in outgoing, NEW in \in incoming, HeadsMatch(out, in)
  PROVE  in = Len(sent) + 1 /\ out = in
<1> USE DEF PipelineInv
<1>1. Len(sent) \in Nat /\ Listed \in Nat /\ Listed <= MaxPackets
      /\ Registered \in Int /\ Registered <= MaxPackets
  BY Counts, MaxPacketsAssumption DEF WeakTypeOK, ChainInOrder
<1>2. \A n \in incoming \cup outgoing : n \in Nat /\ OrderID(n) = n
  <2> TAKE n \in incoming \cup outgoing
  <2>1. n \in Nat /\ n <= MaxPackets
    BY <1>1, MaxPacketsAssumption DEF IncomingInOrder, ChainInOrder, OnlyRegistered
  <2> QED BY <2>1, MaxPacketsAssumption, OrderWrapAssumption, OrderIDBeforeWrap
<1>3. Len(sent) + 1 \in incoming
  BY <1>1 DEF IncomingInOrder
<1>4. in <= Len(sent) + 1
  BY <1>2, <1>3 DEF HeadsMatch, Heads
<1>5. in = Len(sent) + 1
  BY <1>1, <1>4 DEF IncomingInOrder
<1>6. out = in
  BY <1>2 DEF HeadsMatch
<1> QED BY <1>5, <1>6

LEMMA NextIncoming ==
  ASSUME MaxPackets < OrderWrap, WeakTypeOK, PipelineInv, IncomingInOrder, [Next]_vars
  PROVE  IncomingInOrder'
<1>1. Listed \in Nat /\ Len(sent) \in Nat
  BY DEF WeakTypeOK, PipelineInv, ChainInOrder
<1>2. CASE UNCHANGED <<Listed, incoming, sent>>
  BY <1>2 DEF IncomingInOrder, InOrder
<1>3. CASE ControllerTakesRequest /\ Listed' = Listed + 1
  <2>1. requests[1] = Listed + 1 /\ incoming' = incoming \cup {requests[1]} /\ sent' = sent
    <3>1. /\ 1 \in 1..Len(requests) /\ incoming' = incoming \cup {requests[1]}
          /\ sent' = sent
      BY <1>3, TailItems DEF ControllerTakesRequest, WeakTypeOK
    <3> QED BY <3>1 DEF PipelineInv, ChainInOrder
  <2>2. \A m, n \in Nat : m <= n => (m + 1)..n \cup {n + 1} = (m + 1)..(n + 1)
    OBVIOUS
  <2>3. incoming' = (Len(sent) + 1)..(Listed + 1)
    BY <1>1, <2>1, <2>2 DEF IncomingInOrder
  <2> QED BY <1>1, <1>3, <2>1, <2>3 DEF IncomingInOrder, InOrder
<1>4. ASSUME NEW out \in outgoing, NEW in \in incoming, SendReply(out, in),
             Listed' = Listed
      PROVE  IncomingInOrder'
  <2>1. in = Len(sent) + 1 /\ out = in
    BY <1>4, NextReply DEF SendReply
  <2>2. /\ Len(sent') = Len(sent) + 1 /\ sent'[Len(sent) + 1] = Len(sent) + 1
        /\ \A i \in 1..Len(sent) : sent'[i] = sent[i]
        /\ incoming' = incoming \ {Len(sent) + 1}
    BY <1>1, <1>4, <2>1, AppendItems DEF SendReply, WeakTypeOK
  <2>3. InOrder'
    BY <1>1, <2>2 DEF IncomingInOrder, InOrder
  <2> QED BY <1>1, <1>4, <2>1, <2>2, <2>3 DEF IncomingInOrder
<1> QED BY <1>2, <1>3, <1>4, ListSteps

\* Replies leave in the order of the requests on every connection on which
\* fewer packets arrive than an order id has values.
THEOREM RepliesInOrder ==
  ASSUME MaxPackets < OrderWrap
  PROVE  Spec => []InOrder
<1>1. Init => IncomingInOrder
  BY InitPipeline
<1>2. IncomingInOrder => InOrder
  BY DEF IncomingInOrder
<1>3. WeakTypeOK /\ PipelineInv /\ IncomingInOrder /\ [Next]_vars => IncomingInOrder'
  BY NextIncoming
<1> QED BY <1>1, <1>2, <1>3, WeakTypeInvariant, PipelineInvariant, PTL DEF Spec

-----------------------------------------------------------------------------
(* The packets in progress.                                                *)

\* No packet is in two hands at once.
Distinct ==
  /\ \A i, j \in 1..Len(rwChan) : i # j => rwChan[i] # rwChan[j]
  /\ \A w \in Workers : Busy(w) => wkPkt[w] \notin Items(rwChan)
  /\ \A v, w \in Workers : v # w /\ Busy(v) /\ Busy(w) => wkPkt[v] # wkPkt[w]
  /\ dpPc = "handoff" =>
       /\ dpPkt \notin Items(rwChan)
       /\ \A w \in Workers : Busy(w) => wkPkt[w] # dpPkt

\* The first packet of a channel without repetitions is not behind itself.
LEMMA HeadNotInTail ==
  ASSUME NEW s \in Seq(Nat), s # <<>>,
         \A i, j \in 1..Len(s) : i # j => s[i] # s[j]
  PROVE  /\ Head(s) \notin Items(Tail(s))
         /\ \A i, j \in 1..Len(Tail(s)) : i # j => Tail(s)[i] # Tail(s)[j]
<1>1. /\ Head(s) = s[1] /\ Len(s) \in Nat \ {0} /\ Len(Tail(s)) = Len(s) - 1
      /\ \A i \in 1..Len(Tail(s)) : Tail(s)[i] = s[i + 1]
      /\ DOMAIN Tail(s) = 1..Len(Tail(s))
  BY TailItems
<1>2. \A i \in 1..Len(Tail(s)) : i + 1 \in 1..Len(s) /\ i + 1 # 1
  BY <1>1
<1> QED BY <1>1, <1>2 DEF Items

LEMMA NextDistinct ==
  ASSUME WeakTypeOK, PipelineInv, Distinct, [Next]_vars
  PROVE  Distinct'
<1> USE DEF PipelineInv, Busy
<1>0. WeakTypeOK'
  BY NextType
<1>1. CASE UNCHANGED <<rwChan, wkPc, wkPkt>> /\ dpPc' # "handoff"
  BY <1>1 DEF Distinct
<1>2. CASE UNCHANGED <<rwChan, wkPc, wkPkt, dpPc, dpPkt>>
  BY <1>2 DEF Distinct
<1>3. CASE IncomingPacket
  <2>1. dpPkt = Registered + 1 /\ Registered \in Nat
    BY <1>3, Counts DEF IncomingPacket, ChainInOrder, Held, WeakTypeOK, Listed
  <2>2. dpPkt \notin 1..Registered
    BY <2>1
  <2> QED BY <1>3, <2>2 DEF IncomingPacket, OnlyRegistered, Distinct
<1>4. CASE HandToRWChan
  <2>1. /\ Items(rwChan') = Items(rwChan) \cup {dpPkt}
        /\ Len(rwChan) \in Nat /\ Len(rwChan') = Len(rwChan) + 1
        /\ \A i \in 1..Len(rwChan) : rwChan'[i] = rwChan[i] /\ rwChan[i] \in Items(rwChan)
        /\ rwChan'[Len(rwChan) + 1] = dpPkt
    <3>1. rwChan \in Seq(Nat) /\ dpPkt \in Nat /\ rwChan' = Append(rwChan, dpPkt)
      BY <1>4 DEF HandToRWChan, WeakTypeOK
    <3>2. \A i \in 1..Len(rwChan) : rwChan[i] \in Items(rwChan)
      BY <3>1 DEF Items
    <3> QED BY <3>1, <3>2, AppendItems
  <2>2. ASSUME NEW i \in 1..Len(rwChan'), NEW j \in 1..Len(rwChan'), i # j
        PROVE  rwChan'[i] # rwChan'[j]
    <3>1. i \in 1..Len(rwChan) \/ i = Len(rwChan) + 1
      BY <2>1
    <3>2. j \in 1..Len(rwChan) \/ j = Len(rwChan) + 1
      BY <2>1
    <3> QED BY <1>4, <2>1, <2>2, <3>1, <3>2 DEF HandToRWChan, Distinct
  <2> QED BY <1>4, <2>1, <2>2 DEF HandToRWChan, Distinct
<1>5. CASE HandToCmdWorker
  BY <1>5 DEF HandToCmdWorker, Distinct, WeakTypeOK, Workers
<1>6. ASSUME NEW w \in Workers, TakeRW(w) PROVE Distinct'
  <2>1. /\ Items(rwChan) = {Head(rwChan)} \cup Items(rwChan')
        /\ Head(rwChan) \notin Items(rwChan')
        /\ \A i, j \in 1..Len(rwChan') : i # j => rwChan'[i] # rwChan'[j]
    BY <1>6, TailItems, HeadNotInTail DEF TakeRW, WeakTypeOK, Distinct
  <2> QED BY <1>6, <2>1 DEF TakeRW, Distinct, WeakTypeOK
<1>7. ASSUME NEW w \in Workers, ReadyPacket(w) \/ WorkingDone(w) \/ WorkerExit(w)
      PROVE  Distinct'
  <2>1. rwChan' = rwChan /\ dpPc' = dpPc /\ dpPkt' = dpPkt
    BY <1>7 DEF ReadyPacket, WorkingDone, WorkerExit
  <2>2. ASSUME NEW v \in Workers, Busy(v)' PROVE Busy(v) /\ wkPkt'[v] = wkPkt[v]
    BY <1>7, <2>2 DEF ReadyPacket, WorkingDone, WorkerExit, WeakTypeOK
  <2> QED BY <2>1, <2>2 DEF Distinct
<1>8. CASE Serve \/ Controller \/ Ended \/ UNCHANGED vars
  BY <1>2, <1>8 DEF Serve, RecvPacket, PushPacket, StopReading, ServeReturns,
     Controller, ControllerTakesRequest, ControllerTakesResponse, ControllerStops,
     SendReply, NothingToSend, Ended, vars
<1>9. CASE TakePacket \/ AwaitWorking \/ CloseWorkerChans \/ CloseFini
  BY <1>1, <1>9 DEF TakePacket, AwaitWorking, CloseWorkerChans, CloseFini
<1> QED BY <1>3, <1>4, <1>5, <1>6, <1>7, <1>8, <1>9 DEF Next, Dispatcher, Worker

\* A step registers a packet, ends one, or leaves the packets in progress and
\* their count alone (whoever holds them).
LEMMA ProgressSteps ==
  ASSUME WeakTypeOK, PipelineInv, Distinct, [Next]_vars
  PROVE  \/ InProgress' = InProgress /\ working' = working /\ ~ IncomingPacket
         \/ /\ IncomingPacket /\ working' = working + 1
            /\ dpPkt \notin InProgress /\ InProgress' = InProgress \cup {dpPkt}
         \/ \E w \in Workers :
              /\ WorkingDone(w) /\ ~ IncomingPacket /\ working' = working - 1
              /\ wkPkt[w] \in InProgress /\ InProgress' = InProgress \ {wkPkt[w]}
<1> USE DEF PipelineInv
<1>1. CASE IncomingPacket
  <2>1. dpPkt = Registered + 1 /\ Registered \in Nat
    BY <1>1, Counts DEF IncomingPacket, ChainInOrder, Held, WeakTypeOK, Listed
  <2>2. dpPkt \notin 1..Registered
    BY <2>1
  <2>3. dpPkt \notin InProgress
    BY <1>1, <2>2 DEF IncomingPacket, OnlyRegistered, InProgress, Busy
  <2>4. InProgress' = InProgress \cup {dpPkt}
    BY <1>1 DEF IncomingPacket, InProgress
  <2> QED BY <1>1, <2>3, <2>4 DEF IncomingPacket
<1>2. CASE HandToRWChan
  <2>1. Items(rwChan') = Items(rwChan) \cup {dpPkt}
    BY <1>2, AppendItems DEF HandToRWChan, WeakTypeOK
  <2> QED BY <1>2, <2>1 DEF HandToRWChan, IncomingPacket, InProgress
<1>3. CASE HandToCmdWorker
  BY <1>3 DEF HandToCmdWorker, IncomingPacket, InProgress, WeakTypeOK, Workers
<1>4. ASSUME NEW w \in Workers, TakeRW(w)
      PROVE  InProgress' = InProgress /\ working' = working /\ ~ IncomingPacket
  <2>1. Items(rwChan) = {Head(rwChan)} \cup Items(rwChan')
    BY <1>4, TailItems DEF TakeRW, WeakTypeOK
  <2> QED BY <1>4, <2>1 DEF TakeRW, IncomingPacket, InProgress, WeakTypeOK
<1>5. ASSUME NEW w \in Workers, ReadyPacket(w) \/ WorkerExit(w)
      PROVE  InProgress' = InProgress /\ working' = working /\ ~ IncomingPacket
  BY <1>5 DEF ReadyPacket, WorkerExit, IncomingPacket, InProgress, WeakTypeOK
<1>6. ASSUME NEW w \in Workers, WorkingDone(w)
      PROVE  /\ ~ IncomingPacket /\ working' = working - 1
             /\ wkPkt[w] \in InProgress /\ InProgress' = InProgress \ {wkPkt[w]}
  BY <1>6 DEF WorkingDone, IncomingPacket, InProgress, Distinct, Busy, WeakTypeOK
<1>7. CASE Serve \/ Controller \/ Ended \/ UNCHANGED vars
  BY <1>7 DEF Serve, RecvPacket, PushPacket, StopReading, ServeReturns, Controller,
     ControllerTakesRequest, ControllerTakesResponse, ControllerStops, SendReply,
     NothingToSend, Ended, vars, IncomingPacket, InProgress
<1>8. CASE TakePacket \/ AwaitWorking \/ CloseWorkerChans \/ CloseFini
  BY <1>8 DEF TakePacket, AwaitWorking, CloseWorkerChans, CloseFini, IncomingPacket,
     InProgress
<1> QED BY <1>1, <1>2, <1>3, <1>4, <1>5, <1>6, <1>7, <1>8 DEF Next, Dispatcher, Worker

CountInv == Distinct /\ IsFiniteSet(InProgress) /\ WorkingCounts

LEMMA InitCount == Init => CountInv
<1> SUFFICES ASSUME Init PROVE CountInv
  OBVIOUS
<1>1. InProgress = {}
  BY DEF Init, InProgress, Items
<1>2. Distinct
  BY DEF Init, Distinct, Busy, Items
<1> QED BY <1>1, <1>2, FS_EmptySet DEF Init, CountInv, WorkingCounts

LEMMA NextCount ==
  ASSUME WeakTypeOK, PipelineInv, CountInv, [Next]_vars
  PROVE  CountInv'
<1> USE DEF CountInv, WorkingCounts
<1>1. Distinct'
  BY NextDistinct
<1>2. CASE InProgress' = InProgress /\ working' = working
  BY <1>1, <1>2
<1>3. CASE working' = working + 1 /\ dpPkt \notin InProgress /\ InProgress' = InProgress \cup {dpPkt}
  BY <1>1, <1>3, FS_AddElement
<1>4. ASSUME NEW w \in Workers, working' = working - 1, wkPkt[w] \in InProgress,
             InProgress' = InProgress \ {wkPkt[w]}
      PROVE  CountInv'
  BY <1>1, <1>4, FS_RemoveElement
<1> QED BY <1>2, <1>3, <1>4, ProgressSteps

LEMMA CountInvariant == Spec => []CountInv
<1>1. WeakTypeOK /\ PipelineInv /\ CountInv /\ [Next]_vars => CountInv'
  BY NextCount
<1> QED BY <1>1, InitCount, WeakTypeInvariant, PipelineInvariant, PTL DEF Spec

\* The WaitGroup counts exactly the packets in progress.
THEOREM WaitGroupExact == Spec => []WorkingCounts
<1>1. CountInv => WorkingCounts
  BY DEF CountInv
<1> QED BY <1>1, CountInvariant, PTL

\* The full type invariant: the counter is the size of a finite set, so it
\* never goes negative.
THEOREM TypeCorrect == Spec => []TypeOK
<1>1. WeakTypeOK /\ CountInv => TypeOK
  BY FS_CardinalityType DEF WeakTypeOK, TypeOK, CountInv, WorkingCounts
<1> QED BY <1>1, WeakTypeInvariant, CountInvariant, PTL

-----------------------------------------------------------------------------
(* The barrier in front of a close.                                        *)

\* Only reads and writes reach rwChan; a close is registered when nothing is
\* in progress, and is alone in progress until it has a worker.
BarrierInv ==
  /\ \A n \in Items(rwChan) : arrived[n] = "rw"
  /\ dpPc = "register" /\ arrived[dpPkt] = "close" => InProgress = {}
  /\ dpPc = "handoff" /\ arrived[dpPkt] = "close" => InProgress \subseteq {dpPkt}
  /\ CloseWaitsForEarlier

LEMMA InitBarrier == Init => BarrierInv
BY DEF Init, BarrierInv, CloseWaitsForEarlier, Items, InProgress

\* The kind of a packet that has arrived does not change.
LEMMA KindsStay ==
  ASSUME WeakTypeOK, [Next]_vars, NEW n \in 1..Len(arrived)
  PROVE  arrived'[n] = arrived[n]
<1>1. ASSUME NEW kind \in Kinds, RecvPacket(kind) PROVE arrived'[n] = arrived[n]
  BY <1>1 DEF RecvPacket, WeakTypeOK
<1>2. CASE UNCHANGED arrived
  BY <1>2
<1> QED
  BY <1>1, <1>2 DEF Next, Serve, Dispatcher, Worker, Controller, PushPacket,
     StopReading, ServeReturns, TakePacket, AwaitWorking, IncomingPacket,
     HandToRWChan, HandToCmdWorker, CloseWorkerChans, CloseFini, TakeRW,
     ReadyPacket, WorkingDone, WorkerExit, ControllerTakesRequest,
     ControllerTakesResponse, ControllerStops, SendReply, NothingToSend, Ended, vars

\* Packets in the hands of the dispatcher or of anyone behind it have arrived.
LEMMA HaveArrived ==
  ASSUME WeakTypeOK, PipelineInv
  PROVE  /\ dpPc \in {"register", "handoff"} => dpPkt \in 1..Len(arrived)
         /\ Items(rwChan) \subseteq 1..Len(arrived)
         /\ \A w \in Workers : Busy(w) => wkPkt[w] \in 1..Len(arrived)
         /\ InProgress \subseteq 1..Registered
<1>1. /\ Registered \in Nat /\ Pending \in {0, 1} /\ Held \in {0, 1}
      /\ Len(arrived) \in Nat /\ Len(pktChan) \in Nat
  BY Counts DEF WeakTypeOK, PipelineInv, ChainInOrder, Listed
<1>2. Registered + Held <= Len(arrived)
  BY <1>1 DEF Registered
<1>3. 1..Registered \subseteq 1..Len(arrived)
  BY <1>1, <1>2
<1>4. dpPc = "register" => dpPkt \in 1..Len(arrived)
  BY <1>1, <1>2 DEF PipelineInv, ChainInOrder, Held
<1>5. dpPc = "handoff" => dpPkt \in 1..Registered
  BY <1>1 DEF PipelineInv, OnlyRegistered
<1>6. InProgress \subseteq 1..Registered
  BY <1>5 DEF PipelineInv, OnlyRegistered, InProgress, Busy
<1> QED BY <1>3, <1>4, <1>5, <1>6 DEF PipelineInv, OnlyRegistered

LEMMA NextBarrier ==
  ASSUME WeakTypeOK, PipelineInv, CountInv, BarrierInv, [Next]_vars
  PROVE  BarrierInv'
<1>1. WeakTypeOK'
  BY NextType
<1>2. \/ InProgress' \subseteq InProgress /\ ~ IncomingPacket
      \/ /\ IncomingPacket /\ InProgress' = InProgress \cup {dpPkt}
         /\ dpPkt = Registered + 1 /\ Registered \in Nat
  <2>1. IncomingPacket => dpPkt = Registered + 1 /\ Registered \in Nat
    BY Counts DEF IncomingPacket, PipelineInv, ChainInOrder, Held, WeakTypeOK, Listed
  <2> QED BY <2>1, ProgressSteps DEF CountInv
<1>3. \A n \in Items(rwChan') : arrived'[n] = "rw"
  <2>1. \A n \in Items(rwChan) : arrived'[n] = "rw"
    BY HaveArrived, KindsStay DEF BarrierInv
  <2>2. CASE rwChan' = rwChan
    BY <2>1, <2>2
  <2>3. CASE HandToRWChan
    <3>1. Items(rwChan') = Items(rwChan) \cup {dpPkt} /\ arrived'[dpPkt] = "rw"
      BY <2>3, AppendItems DEF HandToRWChan, WeakTypeOK
    <3> QED BY <2>1, <3>1
  <2>4. ASSUME NEW w \in Workers, TakeRW(w)
        PROVE  \A n \in Items(rwChan') : arrived'[n] = "rw"
    BY <2>1, <2>4, TailItems DEF TakeRW, WeakTypeOK
  <2> QED
    BY <2>2, <2>3, <2>4 DEF Next, Serve, Dispatcher, Worker, Controller, RecvPacket,
       PushPacket, StopReading, ServeReturns, TakePacket, AwaitWorking,
       IncomingPacket, HandToCmdWorker, CloseWorkerChans, CloseFini, ReadyPacket,
       WorkingDone, WorkerExit, ControllerTakesRequest, ControllerTakesResponse,
       ControllerStops, SendReply, NothingToSend, Ended, vars
<1>4. ASSUME dpPc' = "register", arrived'[dpPkt'] = "close" PROVE InProgress' = {}
  <2>1. CASE dpPc = "register" /\ dpPkt' = dpPkt
    <3>1. arrived[dpPkt] = "close" /\ ~ IncomingPacket
      BY <1>4, <2>1, HaveArrived, KindsStay DEF IncomingPacket
    <3> QED BY <1>2, <2>1, <3>1 DEF BarrierInv
  <2>2. CASE AwaitWorking
    <3>1. Cardinality(InProgress) = 0 /\ IsFiniteSet(InProgress)
      BY <2>2 DEF AwaitWorking, CountInv, WorkingCounts
    <3>2. InProgress = {}
      BY <3>1, FS_EmptySet
    <3> QED BY <2>2, <3>2 DEF AwaitWorking, InProgress
  <2>3. CASE TakePacket
    BY <1>4, <2>3 DEF TakePacket
  <2> QED
    BY <1>4, <2>1, <2>2, <2>3 DEF Next, Serve, Dispatcher, Worker, Controller,
       RecvPacket, PushPacket, StopReading, ServeReturns, IncomingPacket,
       HandToRWChan, HandToCmdWorker, CloseWorkerChans, CloseFini, TakeRW,
       ReadyPacket, WorkingDone, WorkerExit, ControllerTakesRequest,
       ControllerTakesResponse, ControllerStops, SendReply, NothingToSend, Ended, vars
<1>5. ASSUME dpPc' = "handoff", arrived'[dpPkt'] = "close"
      PROVE  InProgress' \subseteq {dpPkt'}
  <2>1. /\ dpPkt' = dpPkt
        /\ \/ dpPc = "handoff" /\ ~ IncomingPacket
           \/ dpPc = "register" /\ IncomingPacket
    BY <1>5 DEF Next, Serve, Dispatcher, Worker, Controller, RecvPacket, PushPacket,
       StopReading, ServeReturns, TakePacket, AwaitWorking, IncomingPacket,
       HandToRWChan, HandToCmdWorker, CloseWorkerChans, CloseFini, TakeRW,
       ReadyPacket, WorkingDone, WorkerExit, ControllerTakesRequest,
       ControllerTakesResponse, ControllerStops, SendReply, NothingToSend, Ended, vars
  <2>2. arrived[dpPkt] = "close"
    BY <1>5, <2>1, HaveArrived, KindsStay
  <2> QED BY <1>2, <2>1, <2>2 DEF BarrierInv
<1>6. CloseWaitsForEarlier'
  <2> SUFFICES ASSUME NEW w \in Workers, wkPc'[w] = "serving",
                      arrived'[wkPkt'[w]] = "close", NEW n \in InProgress'
               PROVE  n >= wkPkt'[w]
    BY DEF CloseWaitsForEarlier
  <2>1. CASE wkPc[w] = "serving" /\ wkPkt'[w] = wkPkt[w]
    <3>1. wkPkt[w] \in 1..Registered /\ arrived[wkPkt[w]] = "close"
      BY <2>1, HaveArrived, KindsStay DEF PipelineInv, OnlyRegistered, Busy
    <3> QED BY <1>2, <2>1, <3>1 DEF BarrierInv, CloseWaitsForEarlier
  <2>2. CASE HandToCmdWorker /\ w = CmdWorker
    <3>1. wkPkt'[w] = dpPkt /\ dpPc = "handoff" /\ arrived' = arrived /\ dpPkt \in Nat
          /\ ~ IncomingPacket
      BY <2>2 DEF HandToCmdWorker, WeakTypeOK, Workers, IncomingPacket
    <3> QED BY <1>2, <3>1 DEF BarrierInv
  <2>3. CASE TakeRW(w)
    <3>1. wkPkt'[w] = Head(rwChan) /\ arrived' = arrived /\ Head(rwChan) \in Items(rwChan)
      BY <2>3, TailItems DEF TakeRW, WeakTypeOK
    <3> QED BY <3>1 DEF BarrierInv
  <2> QED
    BY <2>1, <2>2, <2>3 DEF WeakTypeOK, Next, Serve, Dispatcher, Worker, Controller,
       RecvPacket, PushPacket, StopReading, ServeReturns, TakePacket, AwaitWorking,
       IncomingPacket, HandToRWChan, HandToCmdWorker, CloseWorkerChans, CloseFini,
       TakeRW, ReadyPacket, WorkingDone, WorkerExit, ControllerTakesRequest,
       ControllerTakesResponse, ControllerStops, SendReply, NothingToSend, Ended, vars
<1> QED BY <1>3, <1>4, <1>5, <1>6 DEF BarrierInv

\* No close is served while a packet that arrived before it is in progress.
THEOREM CloseIsABarrier == Spec => []CloseWaitsForEarlier
<1>1. BarrierInv => CloseWaitsForEarlier
  BY DEF BarrierInv
<1>2. WeakTypeOK /\ PipelineInv /\ CountInv /\ BarrierInv /\ [Next]_vars => BarrierInv'
  BY NextBarrier
<1> QED BY <1>1, <1>2, InitBarrier, WeakTypeInvariant, PipelineInvariant,
           CountInvariant, PTL DEF Spec

-----------------------------------------------------------------------------
(* Nothing is lost before Serve returns.                                   *)

\* Every registered packet is in progress or has its response; a worker has
\* ended, and Serve has returned, only when the channels it reads are drained.
DrainInv ==
  /\ 1..Registered \subseteq InProgress \cup Answered
  /\ \A w \in Workers : wkPc[w] = "ready" => wkPkt[w] \in Answered
  /\ Items(sent) \subseteq 1..Registered
  /\ \A w \in Workers : wkPc[w] = "exited" =>
       workerChansClosed /\ (w \in RWWorkers => rwChan = <<>>)
  /\ workerChansClosed => pktChanClosed /\ pktChan = <<>>
  /\ svPc = "returned" => \A w \in Workers : wkPc[w] = "exited"

LEMMA InitDrain == Init => DrainInv
<1> SUFFICES ASSUME Init PROVE DrainInv
  OBVIOUS
<1>1. Registered = 0
  <2>1. Len(arrived) = 0 /\ Len(pktChan) = 0 /\ Pending = 0 /\ Held = 0
    BY DEF Init, Pending, Held
  <2> QED BY <2>1 DEF Registered
<1> QED BY <1>1 DEF Init, DrainInv, Items, workerChansClosed, Workers

\* incomingPacket is the only step that changes the number of registered packets.
LEMMA RegisteredSteps ==
  ASSUME WeakTypeOK, [Next]_vars
  PROVE  \/ IncomingPacket /\ Registered' = Registered + 1
         \/ ~ IncomingPacket /\ Registered' = Registered
<1> USE DEF WeakTypeOK, Registered, Pending, Held
<1>1. ASSUME NEW kind \in Kinds, RecvPacket(kind)
      PROVE  ~ IncomingPacket /\ Registered' = Registered
  BY <1>1, AppendItems DEF RecvPacket, IncomingPacket
<1>2. CASE PushPacket
  <2>1. Len(arrived) \in Nat /\ Len(pktChan') = Len(pktChan) + 1 /\ ~ IncomingPacket
    BY <1>2, AppendItems DEF PushPacket, IncomingPacket
  <2> QED BY <1>2, <2>1 DEF PushPacket
<1>3. CASE TakePacket
  BY <1>3, TailItems DEF TakePacket, IncomingPacket
<1>4. CASE IncomingPacket
  BY <1>4 DEF IncomingPacket
<1>5. CASE StopReading \/ ServeReturns \/ AwaitWorking \/ CloseWorkerChans \/ CloseFini
  BY <1>5 DEF StopReading, ServeReturns, AwaitWorking, CloseWorkerChans, CloseFini,
     IncomingPacket
<1>6. CASE HandToRWChan \/ HandToCmdWorker \/ Controller \/ Ended \/ UNCHANGED vars
  BY <1>6 DEF HandToRWChan, HandToCmdWorker, Controller, ControllerTakesRequest,
     ControllerTakesResponse, ControllerStops, SendReply, NothingToSend, Ended, vars,
     IncomingPacket
<1>7. ASSUME NEW w \in Workers, Worker(w)
      PROVE  ~ IncomingPacket /\ Registered' = Registered
  BY <1>7 DEF Worker, TakeRW, ReadyPacket, WorkingDone, WorkerExit, IncomingPacket
<1> QED BY <1>1, <1>2, <1>3, <1>4, <1>5, <1>6, <1>7 DEF Next, Serve, Dispatcher

\* A response, once it exists, is never lost: it moves from responses to the
\* outgoing list and from there to the client.
LEMMA AnsweredGrows ==
  ASSUME WeakTypeOK, [Next]_vars
  PROVE  Answered \subseteq Answered'
<1> USE DEF Answered
<1>1. CASE UNCHANGED <<responses, outgoing, sent>>
  BY <1>1
<1>2. ASSUME NEW w \in Workers, ReadyPacket(w) PROVE Answered \subseteq Answered'
  BY <1>2, AppendItems DEF ReadyPacket, WeakTypeOK
<1>3. CASE ControllerTakesResponse
  BY <1>3, TailItems DEF ControllerTakesResponse, WeakTypeOK
<1>4. ASSUME NEW out \in outgoing, NEW in \in incoming, SendReply(out, in)
      PROVE  Answered \subseteq Answered'
  BY <1>4, AppendItems DEF SendReply, WeakTypeOK
<1> QED
  BY <1>1, <1>2, <1>3, <1>4 DEF Next, Serve, Dispatcher, Worker, Controller, RecvPacket,
     PushPacket, StopReading, ServeReturns, TakePacket, AwaitWorking, IncomingPacket,
     HandToRWChan, HandToCmdWorker, CloseWorkerChans, CloseFini, TakeRW, WorkingDone,
     WorkerExit, ControllerTakesRequest, ControllerStops, NothingToSend, Ended, vars

LEMMA NextDrain ==
  ASSUME WeakTypeOK, PipelineInv, CountInv, DrainInv, [Next]_vars
  PROVE  DrainInv'
<1>1. WeakTypeOK'
  BY NextType
<1>2. ASSUME NEW w \in Workers, wkPc'[w] = "exited"
      PROVE  workerChansClosed' /\ (w \in RWWorkers => rwChan' = <<>>)
  BY <1>2 DEF DrainInv, workerChansClosed, WeakTypeOK, Next, Serve, Dispatcher, Worker,
     Controller, RecvPacket, PushPacket, StopReading, ServeReturns, TakePacket,
     AwaitWorking, IncomingPacket, HandToRWChan, HandToCmdWorker, CloseWorkerChans,
     CloseFini, TakeRW, ReadyPacket, WorkingDone, WorkerExit, ControllerTakesRequest,
     ControllerTakesResponse, ControllerStops, SendReply, NothingToSend, Ended, vars
<1>3. workerChansClosed' => pktChanClosed' /\ pktChan' = <<>>
  BY DEF DrainInv, workerChansClosed, pktChanClosed, Next, Serve, Dispatcher, Worker,
     Controller, RecvPacket, PushPacket, StopReading, ServeReturns, TakePacket,
     AwaitWorking, IncomingPacket, HandToRWChan, HandToCmdWorker, CloseWorkerChans,
     CloseFini, TakeRW, ReadyPacket, WorkingDone, WorkerExit, ControllerTakesRequest,
     ControllerTakesResponse, ControllerStops, SendReply, NothingToSend, Ended, vars
<1>4. svPc' = "returned" => \A w \in Workers : wkPc'[w] = "exited"
  BY DEF DrainInv, WeakTypeOK, Next, Serve, Dispatcher, Worker, Controller, RecvPacket,
     PushPacket, StopReading, ServeReturns, TakePacket, AwaitWorking, IncomingPacket,
     HandToRWChan, HandToCmdWorker, CloseWorkerChans, CloseFini, TakeRW, ReadyPacket,
     WorkingDone, WorkerExit, ControllerTakesRequest, ControllerTakesResponse,
     ControllerStops, SendReply, NothingToSend, Ended, vars
<1>5. 1..Registered' \subseteq InProgress' \cup Answered'
  <2>0. Registered \in Nat
    BY Counts DEF WeakTypeOK, PipelineInv, ChainInOrder, Listed
  <2>1. CASE IncomingPacket
    <3>1. dpPkt = Registered + 1 /\ Registered' = Registered + 1
      BY <2>1, RegisteredSteps DEF IncomingPacket, PipelineInv, ChainInOrder, Held
    <3>2. InProgress' = InProgress \cup {dpPkt}
      BY <2>1, ProgressSteps DEF CountInv
    <3>3. 1..Registered' \subseteq 1..Registered \cup {dpPkt}
      BY <2>0, <3>1
    <3> QED BY <3>2, <3>3, AnsweredGrows DEF DrainInv
  <2>2. CASE ~ IncomingPacket /\ InProgress' = InProgress
    BY <2>2, RegisteredSteps, AnsweredGrows DEF DrainInv
  <2>3. ASSUME NEW w \in Workers, WorkingDone(w), ~ IncomingPacket,
               InProgress' = InProgress \ {wkPkt[w]}
        PROVE  1..Registered' \subseteq InProgress' \cup Answered'
    BY <2>3, RegisteredSteps, AnsweredGrows DEF DrainInv, WorkingDone
  <2> QED BY <2>1, <2>2, <2>3, ProgressSteps DEF CountInv
<1>6. ASSUME NEW w \in Workers, wkPc'[w] = "ready" PROVE wkPkt'[w] \in Answered'
  <2>1. CASE wkPc[w] = "ready" /\ wkPkt'[w] = wkPkt[w]
    BY <2>1, AnsweredGrows DEF DrainInv
  <2>2. CASE ReadyPacket(w)
    BY <2>2, AppendItems DEF ReadyPacket, Answered, WeakTypeOK
  <2> QED
    BY <1>6, <2>1, <2>2 DEF WeakTypeOK, Next, Serve, Dispatcher, Worker, Controller,
       RecvPacket, PushPacket, StopReading, ServeReturns, TakePacket, AwaitWorking,
       IncomingPacket, HandToRWChan, HandToCmdWorker, CloseWorkerChans, CloseFini,
       TakeRW, ReadyPacket, WorkingDone, WorkerExit, ControllerTakesRequest,
       ControllerTakesResponse, ControllerStops, SendReply, NothingToSend, Ended, vars
<1>7. Items(sent') \subseteq 1..Registered'
  <2>1. 1..Registered \subseteq 1..Registered'
    BY RegisteredSteps, Counts
  <2>2. CASE sent' = sent
    BY <2>1, <2>2 DEF DrainInv
  <2>3. ASSUME NEW out \in outgoing, NEW in \in incoming, SendReply(out, in)
        PROVE  Items(sent') \subseteq 1..Registered'
    BY <2>1, <2>3, AppendItems DEF SendReply, DrainInv, PipelineInv, OnlyRegistered,
       WeakTypeOK
  <2> QED BY <2>2, <2>3, ListSteps DEF ControllerTakesRequest
<1> QED BY <1>2, <1>3, <1>4, <1>5, <1>6, <1>7 DEF DrainInv

\* When Serve has returned, every packet received has its response.
THEOREM ServeQuiescent == Spec => []ServeReturnsQuiescent
<1>1. WeakTypeOK /\ PipelineInv /\ DrainInv => ServeReturnsQuiescent
  <2> SUFFICES ASSUME WeakTypeOK, PipelineInv, DrainInv, svPc = "returned"
               PROVE  Answered = 1..Len(arrived)
    BY DEF ServeReturnsQuiescent
  <2>1. PICK w \in RWWorkers : w \in Workers
    BY RWWorkersAssumption DEF Workers
  <2>2. \A v \in Workers : wkPc[v] = "exited"
    BY DEF DrainInv
  <2>3. rwChan = <<>> /\ workerChansClosed /\ pktChan = <<>>
    BY <2>1, <2>2 DEF DrainInv
  <2>4. InProgress = {}
    BY <2>2, <2>3 DEF InProgress, Items, workerChansClosed
  <2>5. Registered = Len(arrived)
    <3>1. Len(pktChan) = 0 /\ Pending = 0 /\ Held = 0 /\ Len(arrived) \in Nat
      BY <2>3 DEF workerChansClosed, Pending, Held, WeakTypeOK
    <3> QED BY <3>1 DEF Registered
  <2>6. Answered \subseteq 1..Registered
    BY DEF Answered, PipelineInv, OnlyRegistered, DrainInv
  <2> QED BY <2>4, <2>5, <2>6 DEF DrainInv
<1>2. WeakTypeOK /\ PipelineInv /\ CountInv /\ DrainInv /\ [Next]_vars => DrainInv'
  BY NextDrain
<1> QED BY <1>1, <1>2, InitDrain, WeakTypeInvariant, PipelineInvariant,
           CountInvariant, PTL DEF Spec

-----------------------------------------------------------------------------
(* The promise of OrderedReplies.                                          *)

\* A packet whose handler is still to run, or running, has no response; the reads and
\* writes wait for their workers in the order of arrival, and these serve nothing else.
PromiseInv ==
  /\ \A w \in Workers : wkPc[w] = "serving" => wkPkt[w] \notin Answered
  /\ dpPc = "handoff" => dpPkt \notin Answered
  /\ \A n \in Items(rwChan) : n \notin Answered
  /\ \A i, j \in 1..Len(rwChan) : i < j => rwChan[i] < rwChan[j]
  /\ \A w \in RWWorkers : Busy(w) => arrived[wkPkt[w]] = "rw"

\* All that is known of the pipeline before the counter of packets wraps.
PipelineFacts ==
  WeakTypeOK /\ PipelineInv /\ IncomingInOrder /\ CountInv /\ BarrierInv /\ DrainInv /\ PromiseInv

\* Only a worker that has run its handler adds a response.
LEMMA AnsweredSteps ==
  ASSUME WeakTypeOK, [Next]_vars
  PROVE  \/ Answered' = Answered /\ \A w \in Workers : ~ ReadyPacket(w)
         \/ \E w \in Workers : ReadyPacket(w) /\ Answered' = Answered \cup {wkPkt[w]}
<1> USE DEF Answered
<1>1. ASSUME NEW w \in Workers, ReadyPacket(w)
      PROVE  Answered' = Answered \cup {wkPkt[w]}
  <2>1. /\ responses' = Append(responses, wkPkt[w]) /\ responses \in Seq(Nat) /\ wkPkt[w] \in Nat
        /\ outgoing' = outgoing /\ sent' = sent
    BY <1>1 DEF ReadyPacket, WeakTypeOK
  <2>2. Items(responses') = Items(responses) \cup {wkPkt[w]}
    BY <2>1, AppendItems
  <2> QED BY <2>1, <2>2
<1>2. CASE \A w \in Workers : ~ ReadyPacket(w)
  <2>1. CASE UNCHANGED <<responses, outgoing, sent>>
    BY <1>2, <2>1
  <2>2. CASE ControllerTakesResponse
    <3>1. Items(responses) = {Head(responses)} \cup Items(responses') /\ sent' = sent
          /\ outgoing' = outgoing \cup {Head(responses)}
      BY <2>2, TailItems DEF ControllerTakesResponse, WeakTypeOK
    <3> QED BY <1>2, <3>1
  <2>3. ASSUME NEW out \in outgoing, NEW in \in incoming, SendReply(out, in)
        PROVE  Answered' = Answered
    <3>1. Items(sent') = Items(sent) \cup {out} /\ outgoing' = outgoing \ {out} /\ responses' = responses
      BY <2>3, AppendItems DEF SendReply, WeakTypeOK
    <3> QED BY <3>1
  <2> QED
    BY <1>2, <2>1, <2>2, <2>3 DEF Next, Serve, Dispatcher, Worker, Controller, RecvPacket,
       PushPacket, StopReading, ServeReturns, TakePacket, AwaitWorking, IncomingPacket,
       HandToRWChan, HandToCmdWorker, CloseWorkerChans, CloseFini, TakeRW, WorkingDone,
       WorkerExit, ControllerTakesRequest, ControllerStops, NothingToSend, Ended, vars
<1> QED BY <1>1, <1>2

\* A packet with a response has been registered.
LEMMA AnsweredRegistered ==
  ASSUME PipelineInv, DrainInv
  PROVE  Answered \subseteq 1..Registered
BY DEF Answered, PipelineInv, OnlyRegistered, DrainInv

LEMMA NextQueue ==
  ASSUME WeakTypeOK, PipelineInv, Distinct, PromiseInv, [Next]_vars
  PROVE  \A i, j \in 1..Len(rwChan') : i < j => rwChan'[i] < rwChan'[j]
<1>1. CASE rwChan' = rwChan
  BY <1>1 DEF PromiseInv
<1>2. CASE HandToRWChan
  <2>1. /\ Len(rwChan) \in Nat /\ Len(rwChan') = Len(rwChan) + 1
        /\ \A i \in 1..Len(rwChan) : rwChan'[i] = rwChan[i] /\ rwChan[i] \in Items(rwChan)
        /\ rwChan'[Len(rwChan) + 1] = dpPkt
    <3>1. rwChan \in Seq(Nat) /\ dpPkt \in Nat /\ rwChan' = Append(rwChan, dpPkt)
      BY <1>2 DEF HandToRWChan, WeakTypeOK
    <3>2. \A i \in 1..Len(rwChan) : rwChan[i] \in Items(rwChan)
      BY <3>1 DEF Items
    <3> QED BY <3>1, <3>2, AppendItems
  <2>2. \A n \in Items(rwChan) : n < dpPkt
    <3>1. /\ dpPkt = Registered /\ dpPkt \notin Items(rwChan) /\ Items(rwChan) \subseteq 1..Registered
          /\ Registered \in Nat
      BY <1>2, Counts DEF HandToRWChan, PipelineInv, ChainInOrder, OnlyRegistered, Distinct, WeakTypeOK, Listed
    <3> QED BY <3>1
  <2>3. ASSUME NEW i \in 1..Len(rwChan'), NEW j \in 1..Len(rwChan'), i < j
        PROVE  rwChan'[i] < rwChan'[j]
    <3>1. i \in 1..Len(rwChan) /\ (j \in 1..Len(rwChan) \/ j = Len(rwChan) + 1)
      BY <2>1, <2>3
    <3> QED BY <2>1, <2>2, <2>3, <3>1 DEF PromiseInv
  <2> QED BY <2>3
<1>3. ASSUME NEW w \in Workers, TakeRW(w)
      PROVE  \A i, j \in 1..Len(rwChan') : i < j => rwChan'[i] < rwChan'[j]
  <2>1. /\ rwChan \in Seq(Nat) /\ Len(rwChan) \in Nat /\ Len(rwChan') = Len(rwChan) - 1
        /\ \A i \in 1..Len(rwChan') : rwChan'[i] = rwChan[i + 1]
    BY <1>3, TailItems DEF TakeRW, WeakTypeOK
  <2>2. ASSUME NEW i \in 1..Len(rwChan'), NEW j \in 1..Len(rwChan'), i < j
        PROVE  rwChan'[i] < rwChan'[j]
    <3>1. i + 1 \in 1..Len(rwChan) /\ j + 1 \in 1..Len(rwChan) /\ i + 1 < j + 1
      BY <2>1, <2>2
    <3>2. rwChan[i + 1] < rwChan[j + 1]
      BY <3>1 DEF PromiseInv
    <3> QED BY <2>1, <3>2
  <2> QED BY <2>2
<1> QED
  BY <1>1, <1>2, <1>3 DEF Next, Serve, Dispatcher, Worker, Controller, RecvPacket,
     PushPacket, StopReading, ServeReturns, TakePacket, AwaitWorking, IncomingPacket,
     HandToCmdWorker, CloseWorkerChans, CloseFini, ReadyPacket, WorkingDone, WorkerExit,
     ControllerTakesRequest, ControllerTakesResponse, ControllerStops, SendReply,
     NothingToSend, Ended, vars

\* Where a packet in the read/write channel, in the dispatcher's hands or with a worker
\* can have come from.
LEMMA QueueSteps ==
  ASSUME WeakTypeOK, [Next]_vars, NEW n \in Items(rwChan')
  PROVE  n \in Items(rwChan) \/ (dpPc = "handoff" /\ n = dpPkt)
<1>1. CASE rwChan' = rwChan
  BY <1>1
<1>2. CASE HandToRWChan
  <2>1. Items(rwChan') = Items(rwChan) \cup {dpPkt}
    BY <1>2, AppendItems DEF HandToRWChan, WeakTypeOK
  <2> QED BY <1>2, <2>1 DEF HandToRWChan
<1>3. ASSUME NEW w \in Workers, TakeRW(w)
      PROVE  n \in Items(rwChan)
  BY <1>3, TailItems DEF TakeRW, WeakTypeOK
<1> QED
  BY <1>1, <1>2, <1>3 DEF Next, Serve, Dispatcher, Worker, Controller, RecvPacket,
     PushPacket, StopReading, ServeReturns, TakePacket, AwaitWorking, IncomingPacket,
     HandToCmdWorker, CloseWorkerChans, CloseFini, ReadyPacket, WorkingDone, WorkerExit,
     ControllerTakesRequest, ControllerTakesResponse, ControllerStops, SendReply,
     NothingToSend, Ended, vars

LEMMA HandoffSteps ==
  ASSUME [Next]_vars, dpPc' = "handoff"
  PROVE  dpPkt' = dpPkt /\ (dpPc = "handoff" \/ IncomingPacket)
<1>1. CASE UNCHANGED <<dpPc, dpPkt>>
  BY <1>1
<1>2. CASE Dispatcher
  BY <1>2 DEF Dispatcher, TakePacket, AwaitWorking, IncomingPacket, HandToRWChan,
     HandToCmdWorker, CloseWorkerChans, CloseFini
<1> QED
  BY <1>1, <1>2 DEF Next, Serve, Worker, Controller, RecvPacket, PushPacket, StopReading,
     ServeReturns, TakeRW, ReadyPacket, WorkingDone, WorkerExit, ControllerTakesRequest,
     ControllerTakesResponse, ControllerStops, SendReply, NothingToSend, Ended, vars

LEMMA WorkerSteps ==
  ASSUME WeakTypeOK, [Next]_vars, NEW w \in Workers, wkPc'[w] \in {"serving", "ready"}
  PROVE  \/ /\ wkPkt'[w] = wkPkt[w] /\ wkPc[w] \in {"serving", "ready"}
            /\ wkPc'[w] = "serving" => wkPc[w] = "serving"
         \/ wkPkt'[w] \in Items(rwChan) /\ w \in RWWorkers
         \/ dpPc = "handoff" /\ wkPkt'[w] = dpPkt /\ w = CmdWorker
<1>1. CASE wkPc'[w] = wkPc[w] /\ wkPkt'[w] = wkPkt[w]
  BY <1>1
<1>2. CASE HandToCmdWorker
  <2>1. CASE w = CmdWorker
    BY <1>2, <2>1 DEF HandToCmdWorker, WeakTypeOK
  <2>2. CASE w # CmdWorker
    BY <1>1, <1>2, <2>2 DEF HandToCmdWorker, WeakTypeOK
  <2> QED BY <2>1, <2>2
<1>3. CASE TakeRW(w)
  BY <1>3, TailItems DEF TakeRW, WeakTypeOK
<1>4. CASE ReadyPacket(w) \/ WorkingDone(w) \/ WorkerExit(w)
  BY <1>4 DEF ReadyPacket, WorkingDone, WorkerExit, WeakTypeOK
<1>5. ASSUME NEW v \in Workers \ {w}, Worker(v)
      PROVE  wkPc'[w] = wkPc[w] /\ wkPkt'[w] = wkPkt[w]
  BY <1>5 DEF Worker, TakeRW, ReadyPacket, WorkingDone, WorkerExit, WeakTypeOK
<1>6. CASE UNCHANGED <<wkPc, wkPkt>>
  BY <1>1, <1>6
<1>7. CASE \E v \in Workers : Worker(v)
  BY <1>1, <1>3, <1>4, <1>5, <1>7 DEF Worker
<1> QED
  BY <1>2, <1>6, <1>7 DEF Next, Serve, Dispatcher, Controller, RecvPacket,
     PushPacket, StopReading, ServeReturns, TakePacket, AwaitWorking, IncomingPacket,
     HandToRWChan, CloseWorkerChans, CloseFini, ControllerTakesRequest,
     ControllerTakesResponse, ControllerStops, SendReply, NothingToSend, Ended, vars

LEMMA NextPromise ==
  ASSUME WeakTypeOK, PipelineInv, CountInv, BarrierInv, DrainInv, PromiseInv, [Next]_vars
  PROVE  PromiseInv'
<1>1. \A i, j \in 1..Len(rwChan') : i < j => rwChan'[i] < rwChan'[j]
  BY NextQueue DEF CountInv
<1>2. \A w \in RWWorkers : Busy(w)' => arrived'[wkPkt'[w]] = "rw"
  <2> SUFFICES ASSUME NEW w \in RWWorkers, wkPc'[w] \in {"serving", "ready"}
               PROVE  arrived'[wkPkt'[w]] = "rw"
    BY DEF Busy
  <2>1. CASE wkPc[w] \in {"serving", "ready"} /\ wkPkt'[w] = wkPkt[w]
    <3> USE DEF Busy
    <3>1. wkPkt[w] \in 1..Len(arrived)
      BY <2>1, HaveArrived DEF Workers
    <3> QED BY <2>1, <3>1, KindsStay DEF PromiseInv
  <2>2. CASE wkPkt'[w] \in Items(rwChan)
    <3>1. wkPkt'[w] \in 1..Len(arrived)
      BY <2>2, HaveArrived
    <3> QED BY <2>2, <3>1, KindsStay DEF BarrierInv
  <2> QED BY <2>1, <2>2, WorkerSteps, CmdWorkerAssumption DEF Workers
<1>3. CASE Answered' = Answered
  <2>1. \A n \in Items(rwChan') : n \notin Answered
    BY QueueSteps DEF PromiseInv
  <2>2. dpPc' = "handoff" => dpPkt' \notin Answered
    <3>1. IncomingPacket => dpPkt = Registered + 1 /\ Registered \in Nat
      BY Counts DEF IncomingPacket, PipelineInv, ChainInOrder, Held, WeakTypeOK, Listed
    <3>2. IncomingPacket => dpPkt \notin 1..Registered
      BY <3>1
    <3> QED BY <3>2, HandoffSteps, AnsweredRegistered DEF PromiseInv
  <2>3. \A w \in Workers : wkPc'[w] = "serving" => wkPkt'[w] \notin Answered
    BY WorkerSteps DEF PromiseInv
  <2> QED BY <1>1, <1>2, <1>3, <2>1, <2>2, <2>3 DEF PromiseInv
<1>4. ASSUME NEW v \in Workers, ReadyPacket(v), Answered' = Answered \cup {wkPkt[v]}
      PROVE  PromiseInv'
  <2>1. /\ UNCHANGED <<rwChan, dpPc, dpPkt, wkPkt>> /\ wkPc[v] = "serving"
        /\ wkPc' = [wkPc EXCEPT ![v] = "ready"] /\ wkPc'[v] = "ready"
        /\ \A w \in Workers \ {v} : wkPc'[w] = wkPc[w]
    BY <1>4 DEF ReadyPacket, WeakTypeOK
  <2>2. /\ \A n \in Items(rwChan) : n # wkPkt[v]
        /\ dpPc = "handoff" => dpPkt # wkPkt[v]
        /\ \A w \in Workers \ {v} : wkPc[w] = "serving" => wkPkt[w] # wkPkt[v]
    BY <2>1 DEF CountInv, Distinct, Busy
  <2> QED BY <1>1, <1>2, <1>4, <2>1, <2>2 DEF PromiseInv
<1> QED BY <1>3, <1>4, AnsweredSteps

LEMMA InitPromise == Init => PromiseInv
BY DEF Init, PromiseInv, Items, Busy, Workers

\* The packets of the abstract server, in terms of those in progress.
LEMMA BegunOrQueued ==
  ASSUME PipelineFacts, NEW n \in 1..Registered
  PROVE  n \in Begun \/ n \in Items(rwChan) \/ (dpPc = "handoff" /\ n = dpPkt)
BY DEF PipelineFacts, DrainInv, InProgress, Begun

\* A read/write worker takes the first packet of its channel.
LEMMA TakeIsBegin ==
  ASSUME PipelineFacts, NEW w \in Workers, TakeRW(w)
  PROVE  Promise!Begin(Head(rwChan)) /\ Head(rwChan) \in 1..Len(arrived)
<1> DEFINE n == Head(rwChan)
<1> USE DEF PipelineFacts
<1>1. /\ rwChan \in Seq(Nat) /\ rwChan # <<>> /\ wkPc[w] = "idle" /\ w \in Workers
      /\ wkPc' = [wkPc EXCEPT ![w] = "serving"] /\ wkPkt' = [wkPkt EXCEPT ![w] = n]
      /\ UNCHANGED <<arrived, responses, outgoing, sent>>
  BY DEF TakeRW, WeakTypeOK
<1>2. n \in Items(rwChan) /\ n = rwChan[1] /\ n \in Nat /\ Len(rwChan) \in Nat /\ 1 \in 1..Len(rwChan)
  BY <1>1, TailItems
<1>3. n \in 1..Len(arrived) /\ n \in 1..Registered /\ arrived[n] = "rw"
  BY <1>2, HaveArrived DEF BarrierInv, PipelineInv, OnlyRegistered
<1>4. n \notin Begun
  BY <1>2 DEF Begun, PromiseInv, CountInv, Distinct, Busy
<1>5. \A m \in Items(rwChan) : n <= m
  <2>1. \A m \in Items(rwChan) : \E i \in 1..Len(rwChan) : m = rwChan[i]
    BY <1>1 DEF Items
  <2>2. \A i \in 1..Len(rwChan) : rwChan[1] <= rwChan[i]
    <3> TAKE i \in 1..Len(rwChan)
    <3>1. i = 1 \/ 1 < i
      BY <1>2
    <3>2. rwChan[1] \in Nat /\ rwChan[i] \in Nat
      BY <1>1
    <3> QED BY <1>2, <3>1, <3>2 DEF PromiseInv
  <2> QED BY <1>2, <2>1, <2>2
<1>6. Promise!Earlier(n) \subseteq Begun
  <2> SUFFICES ASSUME NEW m \in 1..(n - 1)
               PROVE  m \in Begun
    BY DEF Promise!Earlier
  <2>1. m \in 1..Registered /\ m < n
    <3>1. Registered \in Nat /\ n \in 1..Registered
      BY <1>3, Counts
    <3> HIDE DEF n
    <3> QED BY <3>1
  <2>2. m \notin Items(rwChan)
    BY <1>2, <1>5, <2>1
  <2>3. dpPc = "handoff" => m # dpPkt
    BY <1>2, <1>3, <2>1, Counts DEF PipelineInv, OnlyRegistered
  <2> QED BY <2>1, <2>2, <2>3, BegunOrQueued
<1>7. Begun' = Begun \cup {n} /\ Answered' = Answered
  <2>1. Answered' = Answered
    BY <1>1 DEF Answered
  <2>2. /\ \A v \in Workers \ {w} : wkPc'[v] = wkPc[v] /\ wkPkt'[v] = wkPkt[v]
        /\ wkPc'[w] = "serving" /\ wkPkt'[w] = n
    BY <1>1 DEF WeakTypeOK
  <2> HIDE DEF n
  <2> QED BY <1>1, <2>1, <2>2 DEF Begun
<1> HIDE DEF n
<1>8. Promise!Begin(n)
  BY <1>1, <1>3, <1>4, <1>6, <1>7 DEF Promise!Begin
<1> QED BY <1>3, <1>8 DEF n

\* The dispatcher meets the command worker.
LEMMA HandIsBegin ==
  ASSUME PipelineFacts, HandToCmdWorker
  PROVE  Promise!Begin(dpPkt) /\ dpPkt \in 1..Len(arrived)
<1> USE DEF PipelineFacts
<1>1. /\ dpPc = "handoff" /\ arrived[dpPkt] # "rw" /\ wkPc[CmdWorker] = "idle" /\ CmdWorker \in Workers
      /\ wkPc' = [wkPc EXCEPT ![CmdWorker] = "serving"]
      /\ wkPkt' = [wkPkt EXCEPT ![CmdWorker] = dpPkt]
      /\ UNCHANGED <<arrived, responses, outgoing, sent, dpPkt>>
  BY DEF HandToCmdWorker, Workers
<1>2. dpPkt \in 1..Len(arrived) /\ dpPkt = Registered /\ Registered \in Int
  BY <1>1, HaveArrived, Counts DEF PipelineInv, OnlyRegistered
<1>3. dpPkt \notin Begun
  BY <1>1 DEF Begun, PromiseInv, CountInv, Distinct, Busy
<1>4. \A m \in Promise!Earlier(dpPkt) : m \in Answered \/ (m \in InProgress /\ m # dpPkt)
  <2>1. \A m \in Promise!Earlier(dpPkt) : m \in 1..Registered /\ m # dpPkt
    BY <1>2 DEF Promise!Earlier
  <2> QED BY <2>1 DEF DrainInv
<1>5. Promise!EarlierCommands(dpPkt) \subseteq Answered
  <2> SUFFICES ASSUME NEW m \in Promise!Earlier(dpPkt), arrived[m] # "rw", m \in InProgress, m # dpPkt
               PROVE  FALSE
    BY <1>4 DEF Promise!EarlierCommands
  <2>1. m \notin Items(rwChan)
    BY DEF BarrierInv
  <2>2. PICK w \in Workers : Busy(w) /\ wkPkt[w] = m
    BY <2>1 DEF InProgress, Busy
  <2>3. w # CmdWorker
    BY <1>1, <2>2 DEF Busy
  <2>4. w \in RWWorkers
    BY <2>2, <2>3 DEF Workers
  <2> QED BY <2>2, <2>4 DEF PromiseInv
<1>6. arrived[dpPkt] = "close" => Promise!Earlier(dpPkt) \subseteq Answered
  BY <1>1, <1>4 DEF BarrierInv
<1>7. Begun' = Begun \cup {dpPkt} /\ Answered' = Answered
  <2>1. Answered' = Answered
    BY <1>1 DEF Answered
  <2>2. /\ \A v \in Workers \ {CmdWorker} : wkPc'[v] = wkPc[v] /\ wkPkt'[v] = wkPkt[v]
        /\ wkPc'[CmdWorker] = "serving" /\ wkPkt'[CmdWorker] = dpPkt
    BY <1>1 DEF WeakTypeOK
  <2> QED BY <1>1, <2>1, <2>2 DEF Begun
<1>8. Promise!Begin(dpPkt)
  BY <1>1, <1>2, <1>3, <1>5, <1>6, <1>7 DEF Promise!Begin
<1> QED BY <1>2, <1>8

\* A worker queues its response.
LEMMA ReadyIsFinish ==
  ASSUME PipelineFacts, NEW w \in Workers, ReadyPacket(w)
  PROVE  Promise!Finish(wkPkt[w]) /\ wkPkt[w] \in 1..Len(arrived)
<1> USE DEF PipelineFacts
<1>1. /\ wkPc[w] = "serving" /\ wkPc' = [wkPc EXCEPT ![w] = "ready"]
      /\ UNCHANGED <<wkPkt, arrived, outgoing, sent>>
      /\ responses' = Append(responses, wkPkt[w])
  BY DEF ReadyPacket
<1>2. Answered' = Answered \cup {wkPkt[w]}
  BY <1>1, AppendItems DEF Answered, WeakTypeOK
<1>3. wkPkt[w] \in Begun \ Answered /\ wkPkt[w] \in 1..Len(arrived)
  BY <1>1, HaveArrived DEF Begun, PromiseInv, Busy
<1>4. Begun' = Begun
  <2>1. \A v \in Workers \ {w} : wkPc'[v] = wkPc[v]
    BY <1>1 DEF WeakTypeOK
  <2>2. wkPc'[w] = "ready"
    BY <1>1 DEF WeakTypeOK
  <2> QED BY <1>1, <1>2, <2>1, <2>2 DEF Begun
<1> QED BY <1>1, <1>2, <1>3, <1>4 DEF Promise!Finish

LEMMA ReplyIsReply ==
  ASSUME PipelineFacts, MaxPackets < OrderWrap, NEW out \in outgoing, NEW in \in incoming,
         SendReply(out, in)
  PROVE  Promise!Reply
<1> USE DEF PipelineFacts
<1>1. out = Len(sent) + 1
  BY NextReply DEF SendReply
<1>2. /\ sent' = Append(sent, out) /\ outgoing' = outgoing \ {out}
      /\ UNCHANGED <<responses, arrived, wkPc, wkPkt>>
  BY DEF SendReply
<1>3. Items(sent') = Items(sent) \cup {out}
  BY <1>2, AppendItems DEF WeakTypeOK, SendReply
<1>4. Answered' = Answered /\ out \in Answered
  BY <1>2, <1>3 DEF Answered
<1>5. Begun' = Begun
  BY <1>2, <1>4 DEF Begun
<1> QED BY <1>1, <1>2, <1>4, <1>5 DEF Promise!Reply

\* The steps of the goroutines that the client and the handlers do not see.
LEMMA HiddenSteps ==
  ASSUME PipelineFacts, UNCHANGED <<arrived, sent>>,
         \/ UNCHANGED <<responses, outgoing, wkPc, wkPkt>>
         \/ ControllerTakesResponse
         \/ \E w \in Workers : WorkingDone(w) \/ WorkerExit(w)
  PROVE  UNCHANGED Promise!vars
<1> USE DEF PipelineFacts
<1>1. CASE UNCHANGED <<responses, outgoing, wkPc, wkPkt>>
  BY <1>1 DEF Promise!vars, Begun, Answered
<1>2. CASE ControllerTakesResponse
  <2>1. Items(responses) = {Head(responses)} \cup Items(responses')
        /\ outgoing' = outgoing \cup {Head(responses)} /\ UNCHANGED <<wkPc, wkPkt>>
    BY <1>2, TailItems DEF ControllerTakesResponse, WeakTypeOK
  <2>2. Answered' = Answered
    BY <2>1 DEF Answered
  <2> QED BY <2>1, <2>2 DEF Promise!vars, Begun
<1>3. ASSUME NEW w \in Workers, WorkingDone(w) \/ WorkerExit(w)
      PROVE  UNCHANGED Promise!vars
  <2>1. Answered' = Answered
    BY <1>3 DEF Answered, WorkingDone, WorkerExit
  <2>2. \A v \in Workers \ {w} : wkPc'[v] = wkPc[v] /\ wkPkt'[v] = wkPkt[v]
    BY <1>3 DEF WorkingDone, WorkerExit, WeakTypeOK
  <2>3. ~ Busy(w)' /\ (Busy(w) => wkPkt[w] \in Answered)
    BY <1>3 DEF WorkingDone, WorkerExit, WeakTypeOK, Busy, DrainInv
  <2>4. Begun' = Begun
    BY <2>1, <2>2, <2>3 DEF Begun, Busy
  <2> QED BY <2>1, <2>4 DEF Promise!vars
<1> QED BY <1>1, <1>2, <1>3

LEMMA StepOfPromise ==
  ASSUME PipelineFacts, MaxPackets < OrderWrap, [Next]_vars
  PROVE  [Promise!Next]_(Promise!vars)
<1>1. ASSUME NEW kind \in Kinds, RecvPacket(kind)
      PROVE  Promise!Receive(kind) /\ kind \in Promise!Kinds
  <2>1. UNCHANGED <<responses, outgoing, sent, wkPc, wkPkt>>
    BY <1>1 DEF RecvPacket
  <2> QED BY <1>1, <2>1 DEF RecvPacket, Promise!Receive, Begun, Answered, Kinds, Promise!Kinds
<1>2. CASE PushPacket \/ StopReading \/ ServeReturns
  BY <1>2, HiddenSteps DEF PushPacket, StopReading, ServeReturns
<1>3. CASE TakePacket \/ AwaitWorking \/ IncomingPacket \/ HandToRWChan \/ CloseWorkerChans \/ CloseFini
  BY <1>3, HiddenSteps DEF TakePacket, AwaitWorking, IncomingPacket, HandToRWChan,
     CloseWorkerChans, CloseFini
<1>4. CASE ControllerTakesRequest \/ ControllerStops \/ NothingToSend \/ Ended \/ UNCHANGED vars
  BY <1>4, HiddenSteps DEF ControllerTakesRequest, ControllerStops, NothingToSend, Ended, vars
<1>5. CASE ControllerTakesResponse
  BY <1>5, HiddenSteps DEF ControllerTakesResponse
<1>6. CASE \E w \in Workers : WorkingDone(w) \/ WorkerExit(w)
  BY <1>6, HiddenSteps DEF WorkingDone, WorkerExit
<1>7. CASE HandToCmdWorker
  BY <1>7, HandIsBegin DEF Promise!Next
<1>8. ASSUME NEW w \in Workers, TakeRW(w)
      PROVE  Promise!Next
  BY <1>8, TakeIsBegin DEF Promise!Next
<1>9. ASSUME NEW w \in Workers, ReadyPacket(w)
      PROVE  Promise!Next
  BY <1>9, ReadyIsFinish DEF Promise!Next
<1>10. ASSUME NEW out \in outgoing, NEW in \in incoming, SendReply(out, in)
       PROVE  Promise!Next
  BY <1>10, ReplyIsReply DEF Promise!Next
<1>11. ASSUME NEW kind \in Kinds, RecvPacket(kind)
       PROVE  Promise!Next
  BY <1>1, <1>11 DEF Promise!Next
<1> QED BY <1>2, <1>3, <1>4, <1>5, <1>6, <1>7, <1>8, <1>9, <1>10, <1>11
        DEF Next, Serve, Dispatcher, Worker, Controller

\* The goroutines and channels of the pipeline keep what OrderedReplies promises to the
\* handlers and to the client, on every connection on which fewer packets arrive than an
\* order id has values.
THEOREM PipelineKeepsPromise ==
  ASSUME MaxPackets < OrderWrap
  PROVE  Spec => ImplementsOrderedReplies
<1>1. Init => WeakTypeOK /\ PipelineInv /\ IncomingInOrder /\ CountInv /\ BarrierInv /\ DrainInv /\ PromiseInv
  BY InitType, InitPipeline, InitCount, InitBarrier, InitDrain, InitPromise
<1>2. Init => Promise!Init
  BY DEF Init, Promise!Init, Begun, Answered, Items, Workers
<1>3. PipelineFacts /\ [Next]_vars => PipelineFacts'
  BY NextType, NextPipeline, NextIncoming, NextCount, NextBarrier, NextDrain, NextPromise
     DEF PipelineFacts
<1>4. PipelineFacts /\ [Next]_vars => [Promise!Next]_(Promise!vars)
  BY StepOfPromise
<1>5. Init => PipelineFacts
  BY <1>1 DEF PipelineFacts
<1> QED BY <1>2, <1>3, <1>4, <1>5, PTL DEF Spec, ImplementsOrderedReplies, Promise!Spec

-----------------------------------------------------------------------------
(* The allocator on its own, for any number of pages.                      *)

Ids == 0..(OrderWrap - 1)

USE DEF Ids

(* What the three operations on lists of pages do to their elements. *)

LEMMA PageElement ==
  ASSUME NEW S, NEW s \in Seq(S), NEW i \in DOMAIN s
  PROVE  s[i] \in S
OBVIOUS

LEMMA PageAppended ==
  ASSUME NEW S, NEW s \in Seq(S), NEW e \in S
  PROVE  /\ Alloc!Items(Append(s, e)) = Alloc!Items(s) \cup {e}
         /\ Alloc!NoRepeat(s) /\ e \notin Alloc!Items(s) => Alloc!NoRepeat(Append(s, e))
<1> DEFINE t == Append(s, e)
<1>1. Len(s) \in Nat /\ DOMAIN s = 1..Len(s) /\ DOMAIN t = 1..(Len(s) + 1)
  OBVIOUS
<1>2. (\A i \in 1..Len(s) : t[i] = s[i]) /\ t[Len(s) + 1] = e
  OBVIOUS
<1> HIDE DEF t
<1>3. \A i \in DOMAIN t : \/ i \in DOMAIN s /\ t[i] = s[i]
                          \/ i = Len(s) + 1 /\ t[i] = e
  BY <1>1, <1>2
<1>4. Alloc!Items(t) \subseteq Alloc!Items(s) \cup {e}
  BY <1>3 DEF Alloc!Items
<1>5. Alloc!Items(s) \cup {e} \subseteq Alloc!Items(t)
  <2>1. Alloc!Items(s) \subseteq Alloc!Items(t)
    BY <1>1, <1>2 DEF Alloc!Items
  <2>2. e \in Alloc!Items(t)
    BY <1>1, <1>2 DEF Alloc!Items
  <2> QED BY <2>1, <2>2
<1>6. ASSUME Alloc!NoRepeat(s), e \notin Alloc!Items(s) PROVE Alloc!NoRepeat(t)
  <2>1. \A i \in DOMAIN s : s[i] # e
    BY <1>6 DEF Alloc!Items
  <2> QED BY <1>3, <1>6, <2>1 DEF Alloc!NoRepeat
<1> QED BY <1>4, <1>5, <1>6 DEF t

LEMMA PagesConcat ==
  ASSUME NEW S, NEW s \in Seq(S), NEW u \in Seq(S)
  PROVE  /\ Alloc!Items(s \o u) \subseteq Alloc!Items(s) \cup Alloc!Items(u)
         /\ Alloc!NoRepeat(s) /\ Alloc!NoRepeat(u) /\ Alloc!Items(s) \cap Alloc!Items(u) = {} => Alloc!NoRepeat(s \o u)
<1> DEFINE t == s \o u
<1>1. Len(s) \in Nat /\ Len(u) \in Nat /\ DOMAIN s = 1..Len(s) /\ DOMAIN u = 1..Len(u)
  OBVIOUS
<1>2. /\ t \in Seq(S) /\ Len(t) = Len(s) + Len(u)
      /\ \A i \in 1..(Len(s) + Len(u)) : t[i] = IF i <= Len(s) THEN s[i] ELSE u[i - Len(s)]
  BY ConcatProperties
<1>3. DOMAIN t = 1..(Len(s) + Len(u))
  BY <1>2
<1> HIDE DEF t
<1>4. ASSUME NEW i \in DOMAIN t
      PROVE  \/ i <= Len(s) /\ i \in DOMAIN s /\ t[i] = s[i]
             \/ i > Len(s) /\ i - Len(s) \in DOMAIN u /\ t[i] = u[i - Len(s)]
  <2>1. CASE i <= Len(s)
    BY <1>1, <1>2, <1>3, <2>1
  <2>2. CASE i > Len(s)
    BY <1>1, <1>2, <1>3, <2>2
  <2> QED BY <1>1, <1>3, <2>1, <2>2
<1>5. Alloc!Items(t) \subseteq Alloc!Items(s) \cup Alloc!Items(u)
  BY <1>4 DEF Alloc!Items
<1>6. ASSUME Alloc!NoRepeat(s), Alloc!NoRepeat(u), Alloc!Items(s) \cap Alloc!Items(u) = {} PROVE Alloc!NoRepeat(t)
  <2> SUFFICES ASSUME NEW i \in DOMAIN t, NEW j \in DOMAIN t, t[i] = t[j] PROVE i = j
    BY DEF Alloc!NoRepeat
  <2>1. \A k \in DOMAIN s, l \in DOMAIN u : s[k] # u[l]
    BY <1>6 DEF Alloc!Items
  <2>2. CASE i <= Len(s)
    <3>1. i \in DOMAIN s /\ t[i] = s[i]
      BY <1>4, <2>2, <1>3, <1>1
    <3>2. j <= Len(s) /\ j \in DOMAIN s /\ t[j] = s[j]
      BY <1>4, <2>1, <3>1
    <3> QED BY <1>6, <3>1, <3>2 DEF Alloc!NoRepeat
  <2>3. CASE i > Len(s)
    <3>1. i - Len(s) \in DOMAIN u /\ t[i] = u[i - Len(s)]
      BY <1>4, <2>3, <1>3, <1>1
    <3>2. j - Len(s) \in DOMAIN u /\ t[j] = u[j - Len(s)]
      BY <1>4, <2>1, <3>1
    <3>3. i - Len(s) = j - Len(s)
      BY <1>6, <3>1, <3>2 DEF Alloc!NoRepeat
    <3> QED BY <1>1, <1>3, <3>3
  <2> QED BY <1>1, <1>3, <2>2, <2>3
<1> QED BY <1>5, <1>6 DEF t

LEMMA PagesFront ==
  ASSUME NEW S, NEW s \in Seq(S), s # <<>>, Alloc!NoRepeat(s)
  PROVE  LET f == SubSeq(s, 1, Len(s) - 1) IN
         /\ f \in Seq(S) /\ Alloc!NoRepeat(f)
         /\ Alloc!Items(f) \subseteq Alloc!Items(s) /\ s[Len(s)] \in Alloc!Items(s) \ Alloc!Items(f)
<1> DEFINE f == SubSeq(s, 1, Len(s) - 1)
<1>1. Len(s) \in Nat /\ Len(s) > 0 /\ DOMAIN s = 1..Len(s) /\ \A i \in 1..Len(s) : s[i] \in S
  OBVIOUS
<1>2. /\ f \in Seq(S)
      /\ Len(f) = IF 1 <= Len(s) - 1 THEN Len(s) - 1 - 1 + 1 ELSE 0
      /\ \A i \in 1..(Len(s) - 1 - 1 + 1) : f[i] = s[1 + i - 1]
  <2>1. 1 \in Int /\ Len(s) - 1 \in Int /\ \A i \in 1..(Len(s) - 1) : s[i] \in S
    BY <1>1
  <2> QED BY <2>1, SubSeqProperties
<1> HIDE DEF f
<1>3. DOMAIN f = 1..(Len(s) - 1)
  <2>1. DOMAIN f = 1..Len(f)
    BY <1>2
  <2>2. Len(f) = Len(s) - 1
    <3>1. CASE 1 <= Len(s) - 1
      BY <1>1, <1>2, <3>1
    <3>2. CASE ~ 1 <= Len(s) - 1
      BY <1>1, <1>2, <3>2
    <3> QED BY <3>1, <3>2
  <2> QED BY <2>1, <2>2
<1>4. \A i \in DOMAIN f : i \in DOMAIN s /\ i # Len(s) /\ f[i] = s[i]
  <2>1. ASSUME NEW i \in 1..(Len(s) - 1) PROVE f[i] = s[i]
    <3>1. i \in 1..(Len(s) - 1 - 1 + 1) /\ 1 + i - 1 = i
      BY <1>1
    <3> QED BY <1>2, <3>1
  <2> QED BY <1>1, <1>3, <2>1
<1>5. Alloc!NoRepeat(f) /\ Alloc!Items(f) \subseteq Alloc!Items(s)
  BY <1>4 DEF Alloc!NoRepeat, Alloc!Items
<1>6. Len(s) \in DOMAIN s
  BY <1>1
<1>7. s[Len(s)] \in Alloc!Items(s) \ Alloc!Items(f)
  BY <1>4, <1>6 DEF Alloc!NoRepeat, Alloc!Items
<1> QED BY <1>2, <1>5, <1>7 DEF f

-----------------------------------------------------------------------------
(* The operations of the allocator. *)

LEMMA GetPageSafe ==
  ASSUME Alloc!PagesTypeOK, Alloc!NoPageTwice, NEW id \in Ids, Alloc!GetPage(id)
  PROVE  Alloc!PagesTypeOK' /\ Alloc!NoPageTwice'
<1> DEFINE p == Alloc!NextPage
<1>1. /\ made \in Nat /\ available \in Seq(1..made) /\ Alloc!NoRepeat(available)
      /\ used \in [Ids -> Seq(1..made)]
      /\ \A x \in Ids : used[x] \in Seq(1..made)
  BY DEF Alloc!PagesTypeOK, Alloc!Pages, Alloc!NoPageTwice
<1>2. \A x \in Ids : Alloc!Items(used[x]) \subseteq 1..made
  <2> SUFFICES ASSUME NEW x \in Ids, NEW i \in DOMAIN used[x]
               PROVE  used[x][i] \in 1..made
    BY DEF Alloc!Items
  <2>1. used[x] \in Seq(1..made)
    BY <1>1
  <2> QED BY <2>1, PageElement
<1>3. used' = [used EXCEPT ![id] = Append(used[id], p)]
  BY DEF Alloc!GetPage
<1>4. used'[id] = Append(used[id], p) /\ \A x \in Ids : x # id => used'[x] = used[x]
  BY <1>1, <1>3
<1>5. /\ made' \in Nat /\ made <= made' /\ p \in 1..made'
      /\ available' \in Seq(1..made') /\ Alloc!NoRepeat(available')
      /\ Alloc!Items(available') \subseteq Alloc!Items(available) /\ p \notin Alloc!Items(available')
      /\ \A x \in Ids : p \notin Alloc!Items(used[x])
  <2>1. CASE available = <<>>
    <3>1. available' = <<>> /\ made' = made + 1 /\ p = made + 1
      BY <2>1 DEF Alloc!GetPage, Alloc!NextPage
    <3>2. \A x \in Ids : p \notin Alloc!Items(used[x])
      BY <1>1, <1>2, <3>1
    <3> QED BY <1>1, <2>1, <3>1, <3>2 DEF Alloc!Items
  <2>2. CASE available # <<>>
    <3>1. /\ available' = SubSeq(available, 1, Len(available) - 1) /\ made' = made
          /\ p = available[Len(available)]
      BY <2>2 DEF Alloc!GetPage, Alloc!NextPage
    <3>2. /\ available' \in Seq(1..made) /\ Alloc!NoRepeat(available')
          /\ Alloc!Items(available') \subseteq Alloc!Items(available)
          /\ p \in Alloc!Items(available) \ Alloc!Items(available')
      BY <1>1, <2>2, <3>1, PagesFront
    <3>3. p \in 1..made
      BY <1>1, <3>2 DEF Alloc!Items
    <3>4. \A x \in Ids : p \notin Alloc!Items(used[x])
      BY <3>2 DEF Alloc!NoPageTwice
    <3> QED BY <1>1, <3>1, <3>2, <3>3, <3>4
  <2> QED BY <2>1, <2>2
<1> HIDE DEF p
<1>6. \A x \in Ids : used[x] \in Seq(1..made')
  BY <1>1, <1>5
<1>7. /\ Alloc!Items(used'[id]) = Alloc!Items(used[id]) \cup {p} /\ Alloc!NoRepeat(used'[id])
      /\ used'[id] \in Seq(1..made')
  <2>1. Alloc!NoRepeat(used[id]) /\ used[id] \in Seq(1..made') /\ p \in 1..made'
    BY <1>5, <1>6 DEF Alloc!NoPageTwice
  <2> QED BY <1>4, <1>5, <2>1, PageAppended
<1>8. Alloc!PagesTypeOK'
  <2>1. \A x \in Ids : used'[x] \in Seq(1..made')
    BY <1>4, <1>6, <1>7
  <2>2. used' \in [Ids -> Seq(1..made')]
    BY <1>1, <1>3, <2>1
  <2> QED BY <1>5, <2>2 DEF Alloc!PagesTypeOK, Alloc!Pages
<1>9. \A x \in Ids : Alloc!NoRepeat(used'[x])
  BY <1>4, <1>7 DEF Alloc!NoPageTwice
<1>10. \A x \in Ids : Alloc!Items(used'[x]) \cap Alloc!Items(available') = {}
  BY <1>4, <1>5, <1>7 DEF Alloc!NoPageTwice
<1>11. \A a, b \in Ids : a # b => Alloc!Items(used'[a]) \cap Alloc!Items(used'[b]) = {}
  <2> SUFFICES ASSUME NEW a \in Ids, NEW b \in Ids, a # b
               PROVE  Alloc!Items(used'[a]) \cap Alloc!Items(used'[b]) = {}
    OBVIOUS
  <2>1. Alloc!Items(used[a]) \cap Alloc!Items(used[b]) = {}
    BY DEF Alloc!NoPageTwice
  <2>2. CASE a = id
    BY <1>4, <1>5, <1>7, <2>1, <2>2
  <2>3. CASE b = id
    BY <1>4, <1>5, <1>7, <2>1, <2>3
  <2> QED BY <1>4, <2>1, <2>2, <2>3
<1>12. Alloc!NoPageTwice'
  <2>1. (Alloc!Items(available))' = Alloc!Items(available') /\ (Alloc!NoRepeat(available))' = Alloc!NoRepeat(available')
    BY DEF Alloc!Items, Alloc!NoRepeat
  <2> QED BY <1>5, <1>9, <1>10, <1>11 DEF Alloc!NoPageTwice, Alloc!Items, Alloc!NoRepeat
<1> QED BY <1>8, <1>12

LEMMA ReleasePagesSafe ==
  ASSUME Alloc!PagesTypeOK, Alloc!NoPageTwice, NEW id \in Ids, Alloc!ReleasePages(id)
  PROVE  Alloc!PagesTypeOK' /\ Alloc!NoPageTwice'
<1>1. /\ made \in Nat /\ available \in Seq(1..made)
      /\ used \in [Ids -> Seq(1..made)] /\ used[id] \in Seq(1..made)
      /\ Alloc!NoRepeat(available) /\ Alloc!NoRepeat(used[id])
      /\ Alloc!Items(available) \cap Alloc!Items(used[id]) = {}
  BY DEF Alloc!PagesTypeOK, Alloc!Pages, Alloc!NoPageTwice
<1>2. /\ used' = [used EXCEPT ![id] = <<>>] /\ made' = made
      /\ available' = available \o used[id]
  BY DEF Alloc!ReleasePages
<1>3. used'[id] = <<>> /\ \A x \in Ids : x # id => used'[x] = used[x]
  BY <1>1, <1>2
<1>4. /\ available' \in Seq(1..made) /\ Alloc!NoRepeat(available')
      /\ Alloc!Items(available') \subseteq Alloc!Items(available) \cup Alloc!Items(used[id])
  BY <1>1, <1>2, PagesConcat, ConcatProperties
<1>5. Alloc!PagesTypeOK'
  BY <1>1, <1>2, <1>4 DEF Alloc!PagesTypeOK, Alloc!Pages
<1>6. Alloc!Items(<<>>) = {} /\ Alloc!NoRepeat(<<>>)
  BY DEF Alloc!Items, Alloc!NoRepeat
<1>7. \A x \in Ids : Alloc!NoRepeat(used'[x])
  BY <1>3, <1>6 DEF Alloc!NoPageTwice
<1>8. \A x \in Ids : Alloc!Items(used'[x]) \cap Alloc!Items(available') = {}
  <2> SUFFICES ASSUME NEW x \in Ids PROVE Alloc!Items(used'[x]) \cap Alloc!Items(available') = {}
    OBVIOUS
  <2>1. CASE x = id
    BY <1>3, <1>6, <2>1
  <2>2. CASE x # id
    <3>1. /\ Alloc!Items(used[x]) \cap Alloc!Items(available) = {}
          /\ Alloc!Items(used[x]) \cap Alloc!Items(used[id]) = {}
      BY <2>2 DEF Alloc!NoPageTwice
    <3> QED BY <1>3, <1>4, <2>2, <3>1
  <2> QED BY <2>1, <2>2
<1>9. \A a, b \in Ids : a # b => Alloc!Items(used'[a]) \cap Alloc!Items(used'[b]) = {}
  BY <1>3, <1>6 DEF Alloc!NoPageTwice
<1>10. Alloc!NoPageTwice'
  BY <1>4, <1>7, <1>8, <1>9 DEF Alloc!NoPageTwice, Alloc!Items, Alloc!NoRepeat
<1> QED BY <1>5, <1>10

LEMMA FreeSafe ==
  ASSUME Alloc!PagesTypeOK, Alloc!NoPageTwice, Alloc!Free
  PROVE  Alloc!PagesTypeOK' /\ Alloc!NoPageTwice'
BY DEF Alloc!PagesTypeOK, Alloc!Pages, Alloc!NoPageTwice, Alloc!NoRepeat, Alloc!Items, Alloc!Free

LEMMA AllocatorStep ==
  ASSUME Alloc!PagesTypeOK, Alloc!NoPageTwice, [Alloc!NextCall]_(Alloc!pageVars)
  PROVE  Alloc!PagesTypeOK' /\ Alloc!NoPageTwice'
<1>1. CASE UNCHANGED Alloc!pageVars
  <2>1. available' = available /\ used' = used /\ made' = made
    BY <1>1 DEF Alloc!pageVars
  <2>2. Alloc!PagesTypeOK'
    BY <2>1 DEF Alloc!PagesTypeOK, Alloc!Pages
  <2>3. Alloc!NoPageTwice'
    BY <2>1 DEF Alloc!NoPageTwice
  <2> QED BY <2>2, <2>3
<1> QED BY <1>1, GetPageSafe, ReleasePagesSafe, FreeSafe DEF Alloc!NextCall

\* Whoever calls what in which order, no page is ever in two places: what one
\* request writes into its pages never reaches another's.
THEOREM NoPageShared == Alloc!AllocatorSpec => []Alloc!NoPageTwice
<1>1. Alloc!InitPages => Alloc!PagesTypeOK /\ Alloc!NoPageTwice
  BY DEF Alloc!InitPages, Alloc!PagesTypeOK, Alloc!Pages, Alloc!NoPageTwice, Alloc!NoRepeat, Alloc!Items
<1>2. Alloc!PagesTypeOK /\ Alloc!NoPageTwice /\ [Alloc!NextCall]_(Alloc!pageVars) => Alloc!PagesTypeOK' /\ Alloc!NoPageTwice'
  BY AllocatorStep
<1> QED BY <1>1, <1>2, PTL DEF Alloc!AllocatorSpec

-----------------------------------------------------------------------------
(* The pipeline with the allocator: what its steps are.                    *)

LEMMA SameItems == \A s : Alloc!Items(s) = Items(s)
BY DEF Alloc!Items, Items

LEMMA IdOfPacket == \A n \in Nat : OrderID(n) \in Ids
BY OrderWrapAssumption DEF OrderID

\* Counting up to the packet after the last, the ids of two packets differ.
LEMMA DistinctIds ==
  ASSUME MaxPackets < OrderWrap, NEW m \in 1..(MaxPackets + 1), NEW n \in 1..(MaxPackets + 1),
         OrderID(m) = OrderID(n)
  PROVE  m = n
<1> USE MaxPacketsAssumption, OrderWrapAssumption
<1>1. ASSUME NEW k \in 1..(MaxPackets + 1)
      PROVE  OrderID(k) = IF k = OrderWrap THEN 0 ELSE k
  <2>1. CASE k = OrderWrap
    BY <2>1 DEF OrderID
  <2>2. CASE k < OrderWrap
    BY <2>2, OrderIDBeforeWrap
  <2> QED BY <2>1, <2>2
<1> QED BY <1>1

\* Every step of the goroutines is one of the pipeline, and what they do with the
\* allocator is a call of it.
LEMMA PagedStep ==
  ASSUME [PagedNext]_pagedVars
  PROVE  [Next]_vars
<1> USE DEF vars
<1>1. CASE UNCHANGED pagedVars
  BY <1>1 DEF pagedVars
<1>2. ASSUME NEW kind \in Kinds, RecvIntoPage(kind)
      PROVE  Next
  BY <1>2 DEF RecvIntoPage, Next, Serve
<1>3. CASE StopWithPage \/ ServeReturnsAndFrees
  BY <1>3 DEF StopWithPage, ServeReturnsAndFrees, Next, Serve
<1>4. ASSUME NEW out \in outgoing, NEW in \in incoming, SendFromPage(out, in)
      PROVE  Next
  BY <1>4 DEF SendFromPage, Next, Controller
<1>5. CASE NothingToSendFromPages \/ OtherStep
  BY <1>5 DEF NothingToSendFromPages, OtherStep, Next, Serve, Controller
<1>6. CASE AwaitPacket \/ ReleaseSent \/ \E w \in RWWorkers : GetDataSlice(w)
  BY <1>6 DEF AwaitPacket, ReleaseSent, GetDataSlice
<1> QED BY <1>1, <1>2, <1>3, <1>4, <1>5, <1>6 DEF PagedNext

\* The pipeline with pages is the pipeline: what is proved of Spec holds of it.
THEOREM PagedIsPipeline == PagedSpec => Spec
<1>1. PagedInit => Init
  BY DEF PagedInit
<1>2. [PagedNext]_pagedVars => [Next]_vars
  BY PagedStep
<1> QED BY <1>1, <1>2, PTL DEF PagedSpec, Spec

\* Serve does not come back from having returned.
LEMMA ReturnedForGood ==
  ASSUME [Next]_vars, svPc = "returned"
  PROVE  svPc' = "returned" /\ arrived' = arrived
BY DEF Next, Serve, Dispatcher, Worker, Controller, RecvPacket, PushPacket, StopReading,
   ServeReturns, TakePacket, AwaitWorking, IncomingPacket, HandToRWChan, HandToCmdWorker,
   CloseWorkerChans, CloseFini, TakeRW, ReadyPacket, WorkingDone, WorkerExit,
   ControllerTakesRequest, ControllerTakesResponse, ControllerStops, SendReply,
   NothingToSend, Ended, vars

\* The steps that call the allocator, and what they leave as it is.
LEMMA AllocatorCalls ==
  ASSUME [PagedNext]_pagedVars
  PROVE  \/ UNCHANGED bufferVars /\ UNCHANGED <<arrived, sent>> /\ (svPc' = "returned" => svPc = "returned")
         \/ AwaitPacket \/ (\E kind \in Kinds : RecvIntoPage(kind)) \/ ServeReturnsAndFrees
         \/ (\E w \in RWWorkers : GetDataSlice(w))
         \/ (\E out \in outgoing, in \in incoming : SendFromPage(out, in))
         \/ ReleaseSent
<1>1. CASE UNCHANGED pagedVars
  BY <1>1 DEF pagedVars, vars
<1>2. CASE StopWithPage
  BY <1>2 DEF StopWithPage, StopReading
<1>3. CASE NothingToSendFromPages
  BY <1>3 DEF NothingToSendFromPages, NothingToSend
<1>4. CASE OtherStep /\ UNCHANGED bufferVars
  <2>1. UNCHANGED <<arrived, sent>> /\ (svPc' = "returned" => svPc = "returned")
    BY <1>4 DEF OtherStep, Dispatcher, Worker, PushPacket, TakePacket, AwaitWorking,
       IncomingPacket, HandToRWChan, HandToCmdWorker, CloseWorkerChans, CloseFini, TakeRW,
       ReadyPacket, WorkingDone, WorkerExit, ControllerTakesRequest, ControllerTakesResponse,
       ControllerStops, Ended, vars
  <2> QED BY <1>4, <2>1
<1> QED BY <1>1, <1>2, <1>3, <1>4 DEF PagedNext

-----------------------------------------------------------------------------
(* What holds of the pages whether or not the ids wrap.                    *)

PagesInv ==
  /\ Alloc!PagesTypeOK /\ Alloc!NoPageTwice /\ toRelease \in Nat
  /\ NothingHeldAfterServe

\* A call of the allocator, or none.
LEMMA CallStep ==
  ASSUME WeakTypeOK, toRelease \in Nat, [PagedNext]_pagedVars
  PROVE  [Alloc!NextCall]_(Alloc!pageVars) /\ toRelease' \in Nat
<1>1. CASE AwaitPacket
  <2>1. Len(arrived) + 1 \in Nat
    BY DEF WeakTypeOK
  <2>2. OrderID(Len(arrived) + 1) \in Ids
    BY <2>1, IdOfPacket
  <2> QED BY <1>1, <2>2 DEF AwaitPacket, Alloc!NextCall
<1>2. ASSUME NEW kind \in Kinds, RecvIntoPage(kind)
      PROVE  UNCHANGED Alloc!pageVars /\ toRelease' \in Nat
  BY <1>2 DEF RecvIntoPage, Alloc!pageVars
<1>3. CASE ServeReturnsAndFrees
  BY <1>3 DEF ServeReturnsAndFrees, Alloc!NextCall
<1>4. ASSUME NEW w \in RWWorkers, GetDataSlice(w)
      PROVE  Alloc!NextCall /\ toRelease' \in Nat
  <2>1. OrderID(wkPkt[w]) \in Ids
    BY IdOfPacket DEF WeakTypeOK, Workers
  <2> QED BY <1>4, <2>1 DEF GetDataSlice, Alloc!NextCall
<1>5. ASSUME NEW out \in outgoing, NEW in \in incoming, SendFromPage(out, in)
      PROVE  UNCHANGED Alloc!pageVars /\ toRelease' \in Nat
  BY <1>5 DEF SendFromPage, Alloc!pageVars, WeakTypeOK
<1>6. CASE ReleaseSent
  <2>1. OrderID(toRelease) \in Ids
    BY IdOfPacket
  <2> QED BY <1>6, <2>1 DEF ReleaseSent, Alloc!NextCall
<1>7. CASE UNCHANGED bufferVars
  BY <1>7 DEF bufferVars, Alloc!pageVars
<1> QED BY <1>1, <1>2, <1>3, <1>4, <1>5, <1>6, <1>7, AllocatorCalls

\* Once Serve has returned and freed the pages, only the controller calls the allocator.
LEMMA NextNothingHeld ==
  ASSUME WeakTypeOK, DrainInv, Alloc!PagesTypeOK, NothingHeldAfterServe, toRelease \in Nat,
         [PagedNext]_pagedVars
  PROVE  NothingHeldAfterServe'
<1> SUFFICES ASSUME svPc' = "returned"
             PROVE  available' = <<>> /\ \A id \in DOMAIN used' : used'[id] = <<>>
  BY DEF NothingHeldAfterServe
<1>1. CASE ServeReturnsAndFrees
  BY <1>1 DEF ServeReturnsAndFrees, Alloc!Free
<1>2. CASE svPc = "returned"
  <2>1. available = <<>> /\ used \in [Ids -> Seq(1..made)] /\ \A id \in Ids : used[id] = <<>>
    BY <1>2 DEF NothingHeldAfterServe, Alloc!PagesTypeOK, Alloc!Pages
  <2>2. CASE ReleaseSent
    <3>1. OrderID(toRelease) \in Ids
      BY IdOfPacket
    <3> QED BY <2>1, <2>2, <3>1 DEF ReleaseSent, Alloc!ReleasePages
  <2>3. \A w \in Workers : wkPc[w] = "exited"
    BY <1>2 DEF DrainInv
  <2>4. ~ AwaitPacket /\ \A w \in RWWorkers : ~ GetDataSlice(w)
    BY <1>2, <2>3 DEF AwaitPacket, GetDataSlice, Workers
  <2>5. CASE UNCHANGED <<available, used>>
    BY <2>1, <2>5
  <2> QED
    BY <1>1, <2>2, <2>4, <2>5, AllocatorCalls DEF bufferVars, RecvIntoPage, SendFromPage
<1>3. CASE svPc # "returned"
  BY <1>1, <1>3, AllocatorCalls DEF AwaitPacket, RecvIntoPage, RecvPacket, GetDataSlice,
     SendFromPage, SendReply, ReleaseSent, vars
<1> QED BY <1>1, <1>2, <1>3

LEMMA DrainInvariant == Spec => []DrainInv
<1>1. WeakTypeOK /\ PipelineInv /\ CountInv /\ DrainInv /\ [Next]_vars => DrainInv'
  BY NextDrain
<1> QED BY <1>1, InitDrain, WeakTypeInvariant, PipelineInvariant, CountInvariant, PTL DEF Spec

LEMMA PagesInvariant == PagedSpec => []PagesInv
<1>1. PagedInit => PagesInv
  BY DEF PagedInit, Init, PagesInv, NothingHeldAfterServe, Alloc!InitPages, Alloc!PagesTypeOK,
     Alloc!Pages, Alloc!NoPageTwice, Alloc!NoRepeat, Alloc!Items
<1>2. WeakTypeOK /\ DrainInv /\ PagesInv /\ [PagedNext]_pagedVars => PagesInv'
  <2> SUFFICES ASSUME WeakTypeOK, DrainInv, PagesInv, [PagedNext]_pagedVars
               PROVE  PagesInv'
    OBVIOUS
  <2>1. [Alloc!NextCall]_(Alloc!pageVars) /\ toRelease' \in Nat
    BY CallStep DEF PagesInv
  <2>2. Alloc!PagesTypeOK' /\ Alloc!NoPageTwice'
    BY <2>1, AllocatorStep DEF PagesInv
  <2>3. NothingHeldAfterServe'
    BY NextNothingHeld DEF PagesInv
  <2> QED BY <2>1, <2>2, <2>3 DEF PagesInv
<1> QED BY <1>1, <1>2, PagedIsPipeline, WeakTypeInvariant, DrainInvariant, PTL DEF PagedSpec

\* Serve, the handlers and the controller use the allocator as it is meant to be used: in
\* every behaviour of the server its operations are called one at a time, on ids it knows.
THEOREM PagedCallsAllocator == PagedSpec => Alloc!AllocatorSpec
<1>1. PagedInit => Alloc!InitPages
  BY DEF PagedInit
<1>2. WeakTypeOK /\ PagesInv /\ [PagedNext]_pagedVars => [Alloc!NextCall]_(Alloc!pageVars)
  BY CallStep DEF PagesInv
<1> QED
  BY <1>1, <1>2, PagedIsPipeline, WeakTypeInvariant, PagesInvariant, PTL
     DEF PagedSpec, Alloc!AllocatorSpec

\* When Serve has returned the allocator holds nothing, however late the controller
\* releases the pages of what it still sends.
THEOREM NothingIsHeld == PagedSpec => []NothingHeldAfterServe
<1>1. PagesInv => NothingHeldAfterServe
  BY DEF PagesInv
<1> QED BY <1>1, PagesInvariant, PTL

-----------------------------------------------------------------------------
(* Whose pages are whose, while the ids of the packets differ.             *)

\* The packets that may have pages: those not answered, the one Serve waits for, and the
\* one whose pages the controller is about to release.
Owners == Unsent \cup {Len(arrived) + 1} \cup ({toRelease} \ {0})

BufferTypes ==
  /\ recvPage \in 0..made /\ toRelease \in Items(sent) \cup {0}
  /\ pagesOf \in [Packets -> SUBSET (1..made)]

\* Until Serve frees the allocator, the map of used pages says who has which.
HeldInv ==
  svPc # "returned" =>
    /\ \A n \in Unsent : Items(used[OrderID(n)]) = pagesOf[n]
    /\ Items(used[OrderID(Len(arrived) + 1)]) = {recvPage} \ {0}
    /\ \A id \in Ids : used[id] # <<>> => \E n \in Owners : id = OrderID(n)

\* After that the pages stay with the packets whose replies are still to be sent.
KeptInv ==
  svPc = "returned" =>
    \A m, n \in Unsent : m # n => pagesOf[m] \cap pagesOf[n] = {}

OwnerInv == BufferTypes /\ HeldInv /\ KeptInv

OwnerFacts == PipelineFacts /\ PagesInv /\ OwnerInv

LEMMA Sizes ==
  ASSUME PipelineFacts
  PROVE  /\ Len(arrived) \in 0..MaxPackets /\ Items(sent) \subseteq 1..Len(arrived)
         /\ Unsent \subseteq Packets /\ Unsent \subseteq 1..(MaxPackets + 1)
         /\ Len(arrived) + 1 \in 1..(MaxPackets + 1) /\ Len(arrived) + 1 \notin Unsent
         /\ Items(sent) \subseteq 1..(MaxPackets + 1) /\ Len(arrived) + 1 \notin Items(sent)
<1>1. Len(arrived) \in 0..MaxPackets
  BY MaxPacketsAssumption DEF PipelineFacts, WeakTypeOK
<1>2. 1..Registered \subseteq 1..Len(arrived)
  BY <1>1, Counts DEF PipelineFacts
<1>3. Items(sent) \subseteq 1..Len(arrived)
  BY <1>2 DEF PipelineFacts, DrainInv
<1> QED BY <1>1, <1>3, MaxPacketsAssumption DEF Unsent, Packets

\* No two of the owners have the same entry in the map.
LEMMA OwnIds ==
  ASSUME PipelineFacts, MaxPackets < OrderWrap
  PROVE  /\ \A m, n \in Unsent \cup {Len(arrived) + 1} \cup Items(sent) :
              OrderID(m) \in Ids /\ (OrderID(m) = OrderID(n) => m = n)
         /\ Unsent \cap Items(sent) = {}
<1>1. Unsent \cup {Len(arrived) + 1} \cup Items(sent) \subseteq 1..(MaxPackets + 1)
  BY Sizes
<1>2. 1..(MaxPackets + 1) \subseteq Nat
  BY MaxPacketsAssumption
<1> QED BY <1>1, <1>2, DistinctIds, IdOfPacket DEF Unsent

\* A page taken for one entry of the map leaves the others alone.
LEMMA GetPageEffect ==
  ASSUME Alloc!PagesTypeOK, NEW id \in Ids, Alloc!GetPage(id)
  PROVE  /\ made \in Nat /\ made' \in Nat /\ made <= made' /\ Alloc!NextPage \in 1..made'
         /\ Items(used'[id]) = Items(used[id]) \cup {Alloc!NextPage}
         /\ \A x \in Ids \ {id} : used'[x] = used[x]
<1> DEFINE p == Alloc!NextPage
<1>1. /\ made \in Nat /\ available \in Seq(1..made)
      /\ used \in [Ids -> Seq(1..made)] /\ used[id] \in Seq(1..made)
  BY DEF Alloc!PagesTypeOK, Alloc!Pages
<1>2. made' \in Nat /\ made <= made' /\ p \in 1..made'
  <2>1. CASE available = <<>>
    BY <1>1, <2>1 DEF Alloc!GetPage, Alloc!NextPage
  <2>2. CASE available # <<>>
    <3>1. Len(available) \in DOMAIN available /\ made' = made /\ p = available[Len(available)]
      BY <1>1, <2>2 DEF Alloc!GetPage, Alloc!NextPage
    <3>2. p \in 1..made
      BY <1>1, <3>1
    <3> QED BY <1>1, <3>1, <3>2
  <2> QED BY <2>1, <2>2
<1>3. used' = [used EXCEPT ![id] = Append(used[id], p)]
  BY DEF Alloc!GetPage
<1> HIDE DEF p
<1>4. used'[id] = Append(used[id], p) /\ \A x \in Ids \ {id} : used'[x] = used[x]
  BY <1>1, <1>3
<1>5. used[id] \in Seq(1..made')
  BY <1>1, <1>2
<1>6. Items(Append(used[id], p)) = Items(used[id]) \cup {p}
  BY <1>2, <1>5, PageAppended, SameItems
<1> QED BY <1>1, <1>2, <1>4, <1>6 DEF p

LEMMA InitOwner == PagedInit => OwnerInv
<1> SUFFICES ASSUME PagedInit PROVE OwnerInv
  OBVIOUS
<1>1. Len(arrived) = 0 /\ Items(sent) = {} /\ Unsent = {} /\ svPc = "reading"
  BY DEF PagedInit, Init, Items, Unsent
<1>2. recvPage = 0 /\ toRelease = 0 /\ made = 0 /\ used = [id \in Ids |-> <<>>]
      /\ pagesOf = [n \in Packets |-> {}]
  BY DEF PagedInit, Alloc!InitPages
<1>3. OrderID(Len(arrived) + 1) \in Ids
  BY <1>1, IdOfPacket
<1>4. Items(used[OrderID(Len(arrived) + 1)]) = {}
  BY <1>2, <1>3 DEF Items
<1>5. \A id \in Ids : used[id] = <<>>
  BY <1>2
<1>6. HeldInv /\ KeptInv
  BY <1>1, <1>2, <1>4, <1>5 DEF HeldInv, KeptInv
<1>7. pagesOf \in [Packets -> SUBSET (1..made)]
  BY <1>2
<1> QED BY <1>2, <1>6, <1>7 DEF OwnerInv, BufferTypes

LEMMA QuietOwner ==
  ASSUME OwnerInv, UNCHANGED bufferVars, UNCHANGED <<arrived, sent>>, (svPc' = "returned") <=> (svPc = "returned")
  PROVE  OwnerInv'
BY DEF OwnerInv, BufferTypes, HeldInv, KeptInv, Owners, Unsent, bufferVars

LEMMA AwaitOwner ==
  ASSUME OwnerFacts, MaxPackets < OrderWrap, AwaitPacket
  PROVE  OwnerInv'
<1> USE DEF OwnerFacts
<1> DEFINE id == OrderID(Len(arrived) + 1)
<1>1. /\ svPc = "reading" /\ recvPage = 0 /\ recvPage' = Alloc!NextPage
      /\ UNCHANGED <<arrived, sent, svPc, toRelease, pagesOf>>
  BY DEF AwaitPacket, vars
<1>2. id \in Ids /\ \A n \in Unsent : OrderID(n) \in Ids \ {id}
  BY OwnIds, Sizes
<1>3. /\ made \in Nat /\ made' \in Nat /\ made <= made' /\ recvPage' \in 1..made'
      /\ Items(used'[id]) = Items(used[id]) \cup {recvPage'}
      /\ \A x \in Ids \ {id} : used'[x] = used[x]
  BY <1>1, <1>2, GetPageEffect DEF AwaitPacket, PagesInv
<1>4. BufferTypes'
  <2>1. SUBSET (1..made) \subseteq SUBSET (1..made')
    BY <1>3
  <2> QED BY <1>1, <1>3, <2>1 DEF OwnerInv, BufferTypes
<1>5. Items(used[id]) = {}
  BY <1>1 DEF OwnerInv, HeldInv
<1>6. HeldInv'
  <2>1. Unsent' = Unsent /\ Owners' = Owners /\ OrderID(Len(arrived') + 1) = id /\ id \in {OrderID(n) : n \in Owners}
    BY <1>1 DEF Unsent, Owners
  <2>2. \A n \in Unsent : Items(used'[OrderID(n)]) = pagesOf[n]
    BY <1>1, <1>2, <1>3 DEF OwnerInv, HeldInv
  <2>3. Items(used'[id]) = {recvPage'} \ {0}
    BY <1>3, <1>5
  <2>4. \A x \in Ids : used'[x] # <<>> => \E n \in Owners : x = OrderID(n)
    BY <1>1, <1>3, <2>1 DEF OwnerInv, HeldInv
  <2> HIDE DEF id
  <2> QED BY <1>1, <2>1, <2>2, <2>3, <2>4 DEF HeldInv
<1> QED BY <1>1, <1>4, <1>6 DEF OwnerInv, KeptInv

LEMMA RecvOwner ==
  ASSUME OwnerFacts, MaxPackets < OrderWrap, NEW kind \in Kinds, RecvIntoPage(kind)
  PROVE  OwnerInv'
<1> USE DEF OwnerFacts
<1>1. PICK k : k = Len(arrived) + 1
  OBVIOUS
<1>2. /\ svPc = "reading" /\ svPc' = "pushing" /\ recvPage # 0 /\ recvPage' = 0
      /\ Len(arrived') = k /\ k \in Packets /\ k = Len(arrived) + 1 /\ Len(arrived) \in Nat
      /\ pagesOf' = [pagesOf EXCEPT ![k] = {recvPage}]
      /\ UNCHANGED <<sent, available, used, made, toRelease>>
  <2>1. /\ arrived \in Seq(Kinds) /\ arrived' = Append(arrived, kind) /\ Len(arrived) < MaxPackets
        /\ svPc = "reading" /\ svPc' = "pushing" /\ recvPage # 0 /\ recvPage' = 0
        /\ UNCHANGED <<sent, available, used, made, toRelease>>
    BY DEF RecvIntoPage, RecvPacket, PipelineFacts, WeakTypeOK
  <2>2. Len(arrived') = k /\ Len(arrived) \in Nat /\ k \in Packets
    BY <1>1, <2>1, MaxPacketsAssumption DEF Packets
  <2>3. pagesOf' = [pagesOf EXCEPT ![k] = {recvPage}]
    BY <1>1 DEF RecvIntoPage
  <2> QED BY <1>1, <2>1, <2>2, <2>3
<1>3. /\ recvPage \in 1..made /\ pagesOf \in [Packets -> SUBSET (1..made)] /\ made \in Nat
      /\ toRelease \in Items(sent) \cup {0}
  BY <1>2 DEF OwnerInv, BufferTypes, PagesInv, Alloc!PagesTypeOK
<1>4. BufferTypes'
  BY <1>2, <1>3 DEF BufferTypes
<1>5. /\ Unsent' = Unsent \cup {k} /\ k \notin Unsent /\ k \notin Items(sent) /\ Unsent \subseteq Packets
      /\ Unsent \subseteq 1..Len(arrived) /\ Items(sent) \subseteq 1..Len(arrived)
  BY <1>1, <1>2, Sizes DEF Unsent
<1>6. /\ \A n \in Unsent : Items(used[OrderID(n)]) = pagesOf[n]
      /\ Items(used[OrderID(k)]) = {recvPage}
      /\ \A id \in Ids : used[id] # <<>> => \E n \in Owners : id = OrderID(n)
  BY <1>1, <1>2, <1>3 DEF OwnerInv, HeldInv
<1>7. Owners \subseteq 1..k /\ Owners \subseteq Owners'
  <2>1. 1..Len(arrived) \subseteq 1..k /\ k \in 1..k
    BY <1>2
  <2>2. Owners \subseteq 1..k
    BY <1>2, <1>3, <1>5, <2>1 DEF Owners
  <2>3. Owners \subseteq Owners'
    BY <1>2, <1>5 DEF Owners
  <2> QED BY <2>2, <2>3
<1>8. used[OrderID(k + 1)] = <<>>
  <2>1. k + 1 \in 1..(MaxPackets + 1) /\ Owners \subseteq 1..(MaxPackets + 1) /\ k + 1 \notin Owners
        /\ k + 1 \in Nat
    BY <1>2, <1>7, MaxPacketsAssumption DEF Packets
  <2> QED BY <1>6, <2>1, DistinctIds, IdOfPacket
<1>9. HeldInv'
  <2>1. \A n \in Unsent' : Items(used'[OrderID(n)]) = pagesOf'[n]
    BY <1>2, <1>3, <1>5, <1>6
  <2>2. Items(used'[OrderID(Len(arrived') + 1)]) = {recvPage'} \ {0}
    BY <1>2, <1>8 DEF Items
  <2>3. \A id \in Ids : used'[id] # <<>> => \E n \in Owners' : id = OrderID(n)
    BY <1>2, <1>6, <1>7
  <2> QED BY <2>1, <2>2, <2>3 DEF HeldInv
<1> QED BY <1>2, <1>4, <1>9 DEF OwnerInv, KeptInv

LEMMA DataOwner ==
  ASSUME OwnerFacts, MaxPackets < OrderWrap, NEW w \in RWWorkers, GetDataSlice(w)
  PROVE  OwnerInv'
<1> USE DEF OwnerFacts
<1>1. PICK k : k = wkPkt[w]
  OBVIOUS
<1>2. PICK id : id = OrderID(k)
  OBVIOUS
<1>3. PICK p : p = Alloc!NextPage
  OBVIOUS
<1>4. /\ wkPc[w] = "serving" /\ w \in Workers /\ Alloc!GetPage(id)
      /\ pagesOf' = [pagesOf EXCEPT ![k] = pagesOf[k] \cup {p}]
      /\ UNCHANGED <<arrived, sent, svPc, toRelease, recvPage>>
  BY <1>1, <1>2, <1>3 DEF GetDataSlice, vars, Workers
<1>5. k \in Unsent /\ k \in Packets /\ id \in Ids
  <2>1. k \in 1..Len(arrived)
    BY <1>1, <1>4, HaveArrived DEF PipelineFacts, Busy
  <2>2. k \notin Items(sent)
    BY <1>1, <1>4 DEF PipelineFacts, PromiseInv, Answered
  <2> QED BY <1>2, <2>1, <2>2, OwnIds, Sizes DEF Unsent
<1>6. /\ made \in Nat /\ made' \in Nat /\ made <= made' /\ p \in 1..made'
      /\ Items(used'[id]) = Items(used[id]) \cup {p}
      /\ \A x \in Ids \ {id} : used'[x] = used[x]
  BY <1>3, <1>4, <1>5, GetPageEffect DEF PagesInv
<1>7. pagesOf \in [Packets -> SUBSET (1..made)] /\ recvPage \in 0..made
  BY DEF OwnerInv, BufferTypes
<1>8. BufferTypes'
  <2>1. pagesOf' \in [Packets -> SUBSET (1..made')]
    BY <1>4, <1>5, <1>6, <1>7
  <2> QED BY <1>4, <1>6, <1>7, <2>1 DEF OwnerInv, BufferTypes
<1>9. svPc # "returned"
  BY <1>4 DEF PipelineFacts, DrainInv
<1>10. HeldInv'
  <2>1. Unsent' = Unsent /\ Owners' = Owners /\ k \in Owners
    BY <1>4, <1>5 DEF Unsent, Owners
  <2>2. \A n \in Unsent : n \in Packets /\ (n # k => OrderID(n) \in Ids \ {id})
    BY <1>2, <1>5, OwnIds, Sizes
  <2>3. \A n \in Unsent : Items(used'[OrderID(n)]) = pagesOf'[n]
    BY <1>2, <1>4, <1>5, <1>6, <1>7, <1>9, <2>2 DEF OwnerInv, HeldInv
  <2>4. OrderID(Len(arrived) + 1) \in Ids \ {id}
    BY <1>2, <1>5, OwnIds, Sizes
  <2>5. Items(used'[OrderID(Len(arrived) + 1)]) = {recvPage} \ {0}
    BY <1>6, <1>9, <2>4 DEF OwnerInv, HeldInv
  <2>6. \A x \in Ids : used'[x] # <<>> => \E n \in Owners : x = OrderID(n)
    BY <1>2, <1>6, <1>9, <2>1 DEF OwnerInv, HeldInv
  <2> QED BY <1>4, <2>1, <2>3, <2>5, <2>6 DEF HeldInv
<1> QED BY <1>4, <1>8, <1>9, <1>10 DEF OwnerInv, KeptInv

LEMMA SendOwner ==
  ASSUME OwnerFacts, MaxPackets < OrderWrap, NEW out \in outgoing, NEW in \in incoming,
         SendFromPage(out, in)
  PROVE  OwnerInv'
<1> USE DEF OwnerFacts
<1>1. /\ toRelease = 0 /\ toRelease' = in /\ SendReply(out, in)
      /\ UNCHANGED <<arrived, svPc, available, used, made, recvPage, pagesOf>>
  BY DEF SendFromPage, SendReply
<1>2. in = out /\ out \in Nat \ {0}
  <2>1. in = Len(sent) + 1 /\ out = in
    BY <1>1, NextReply DEF SendReply, PipelineFacts
  <2> QED BY <2>1 DEF PipelineFacts, WeakTypeOK
<1>3. Items(sent') = Items(sent) \cup {out}
  BY <1>1, <1>2, AppendItems DEF SendReply, PipelineFacts, WeakTypeOK
<1>4. Unsent' = Unsent \ {out} /\ toRelease' = out
  BY <1>1, <1>2, <1>3 DEF Unsent
<1>5. Owners \subseteq Owners'
  BY <1>1, <1>2, <1>4 DEF Owners
<1> QED BY <1>1, <1>2, <1>3, <1>4, <1>5 DEF OwnerInv, BufferTypes, HeldInv, KeptInv

LEMMA ReleaseOwner ==
  ASSUME OwnerFacts, MaxPackets < OrderWrap, ReleaseSent
  PROVE  OwnerInv'
<1> USE DEF OwnerFacts
<1>1. PICK k : k = toRelease
  OBVIOUS
<1>2. PICK id : id = OrderID(k)
  OBVIOUS
<1>3. /\ k # 0 /\ toRelease' = 0 /\ used' = [used EXCEPT ![id] = <<>>] /\ made' = made
      /\ UNCHANGED <<arrived, sent, svPc, recvPage, pagesOf>>
  BY <1>1, <1>2 DEF ReleaseSent, Alloc!ReleasePages, vars
<1>4. k \in Items(sent) /\ id \in Ids /\ \A n \in Unsent \cup {Len(arrived) + 1} : OrderID(n) \in Ids \ {id}
  <2>1. k \in Items(sent)
    BY <1>1, <1>3 DEF OwnerInv, BufferTypes
  <2>2. \A n \in Unsent \cup {Len(arrived) + 1} : n # k
    BY <2>1, Sizes DEF Unsent
  <2> QED BY <1>2, <2>1, <2>2, OwnIds
<1>5. /\ \A x \in Ids \ {id} : used'[x] = used[x]
      /\ used'[id] = <<>>
  BY <1>3, <1>4 DEF PagesInv, Alloc!PagesTypeOK
<1>6. Unsent' = Unsent /\ Owners \subseteq Owners' \cup {k}
  BY <1>1, <1>3 DEF Unsent, Owners
<1>7. HeldInv'
  <2> SUFFICES ASSUME svPc # "returned"
               PROVE  /\ \A n \in Unsent' : Items(used'[OrderID(n)]) = pagesOf[n]
                      /\ Items(used'[OrderID(Len(arrived) + 1)]) = {recvPage} \ {0}
                      /\ \A x \in Ids : used'[x] # <<>> => \E n \in Owners' : x = OrderID(n)
    BY <1>3 DEF HeldInv
  <2>1. \A x \in Ids : used'[x] # <<>> => \E n \in Owners' : x = OrderID(n)
    BY <1>2, <1>5, <1>6 DEF OwnerInv, HeldInv
  <2> QED BY <1>4, <1>5, <1>6, <2>1 DEF OwnerInv, HeldInv
<1> QED BY <1>3, <1>6, <1>7 DEF OwnerInv, BufferTypes, KeptInv

-----------------------------------------------------------------------------
(* The pages of the packets whose replies are not sent.                    *)

\* Two entries of the map have no page in common, and none with the available ones.
LEMMA EntriesApart ==
  ASSUME PagesInv, NEW a \in Ids, NEW b \in Ids, a # b
  PROVE  Items(used[a]) \cap Items(used[b]) = {} /\ Items(used[a]) \cap Items(available) = {}
BY SameItems DEF PagesInv, Alloc!NoPageTwice

LEMMA EntryNotAvailable ==
  ASSUME PagesInv, NEW a \in Ids
  PROVE  Items(used[a]) \cap Items(available) = {}
BY SameItems DEF PagesInv, Alloc!NoPageTwice

\* While the map of used pages is kept, the packets' pages are apart.
LEMMA UnsentApart ==
  ASSUME OwnerFacts, MaxPackets < OrderWrap, svPc # "returned",
         NEW n \in Unsent
  PROVE  /\ \A m \in Unsent \ {n} : pagesOf[m] \cap pagesOf[n] = {}
         /\ pagesOf[n] \cap Items(available) = {} /\ recvPage \notin pagesOf[n]
<1> USE DEF OwnerFacts
<1>1. OrderID(n) \in Ids /\ pagesOf[n] = Items(used[OrderID(n)])
  BY OwnIds DEF OwnerInv, HeldInv
<1>2. ASSUME NEW m \in Unsent \ {n}
      PROVE  pagesOf[m] \cap pagesOf[n] = {}
  <2>1. OrderID(m) \in Ids /\ OrderID(m) # OrderID(n) /\ pagesOf[m] = Items(used[OrderID(m)])
    BY OwnIds DEF OwnerInv, HeldInv
  <2> QED BY <1>1, <2>1, EntriesApart
<1>3. recvPage \notin pagesOf[n]
  <2>1. CASE recvPage = 0
    BY <2>1, Sizes DEF OwnerInv, BufferTypes
  <2>2. CASE recvPage # 0
    <3>1. recvPage \in Items(used[OrderID(Len(arrived) + 1)])
      BY <2>2 DEF OwnerInv, HeldInv
    <3>2. OrderID(Len(arrived) + 1) \in Ids /\ OrderID(Len(arrived) + 1) # OrderID(n)
      BY OwnIds, Sizes
    <3> QED BY <1>1, <3>1, <3>2, EntriesApart
  <2> QED BY <2>1, <2>2
<1> QED BY <1>1, <1>2, <1>3, EntryNotAvailable

LEMMA ReturnOwner ==
  ASSUME OwnerFacts, MaxPackets < OrderWrap, ServeReturnsAndFrees
  PROVE  OwnerInv'
<1>1. /\ svPc = "waiting" /\ svPc' = "returned"
      /\ UNCHANGED <<arrived, sent, made, recvPage, toRelease, pagesOf>>
  BY DEF ServeReturnsAndFrees, ServeReturns, Alloc!Free
<1>2. \A m, n \in Unsent : m # n => pagesOf[m] \cap pagesOf[n] = {}
  BY <1>1, UnsentApart
<1> QED BY <1>1, <1>2 DEF OwnerFacts, OwnerInv, BufferTypes, HeldInv, KeptInv, Unsent

LEMMA NextOwner ==
  ASSUME OwnerFacts, MaxPackets < OrderWrap, [PagedNext]_pagedVars
  PROVE  OwnerInv'
<1>1. svPc = "returned" => svPc' = "returned"
  BY PagedStep, ReturnedForGood
<1>2. CASE UNCHANGED bufferVars /\ UNCHANGED <<arrived, sent>> /\ (svPc' = "returned" => svPc = "returned")
  BY <1>1, <1>2, QuietOwner DEF OwnerFacts
<1> QED
  BY <1>2, AllocatorCalls, AwaitOwner, RecvOwner, ReturnOwner, DataOwner, SendOwner, ReleaseOwner

LEMMA FactsInvariant ==
  ASSUME MaxPackets < OrderWrap
  PROVE  Spec => []PipelineFacts
<1>1. Init => PipelineFacts
  BY InitType, InitPipeline, InitCount, InitBarrier, InitDrain, InitPromise DEF PipelineFacts
<1>2. PipelineFacts /\ [Next]_vars => PipelineFacts'
  BY NextType, NextPipeline, NextIncoming, NextCount, NextBarrier, NextDrain, NextPromise
     DEF PipelineFacts
<1> QED BY <1>1, <1>2, PTL DEF Spec

LEMMA OwnerInvariant ==
  ASSUME MaxPackets < OrderWrap
  PROVE  PagedSpec => []OwnerFacts
<1>1. PipelineFacts /\ PagesInv /\ OwnerInv /\ [PagedNext]_pagedVars => OwnerInv'
  BY NextOwner DEF OwnerFacts
<1>2. PipelineFacts /\ PagesInv /\ OwnerInv => OwnerFacts
  BY DEF OwnerFacts
<1>3. Spec => []PipelineFacts
  BY FactsInvariant
<1> QED BY <1>1, <1>2, <1>3, InitOwner, PagedIsPipeline, PagesInvariant, PTL DEF PagedSpec

\* Nobody writes into the pages of a packet until its reply has been sent: they are not
\* available, and neither another packet nor recvPacket has them, also after Serve has
\* freed the allocator while the controller still sends.
THEOREM PagesStay ==
  ASSUME MaxPackets < OrderWrap
  PROVE  PagedSpec => []PagesKeptUntilSent
<1>1. OwnerFacts => PagesKeptUntilSent
  <2> SUFFICES ASSUME OwnerFacts, NEW n \in Unsent
               PROVE  pagesOf[n] \cap Elsewhere(n) = {}
    BY DEF PagesKeptUntilSent
  <2>1. CASE svPc # "returned"
    <3>1. /\ \A m \in Unsent \ {n} : pagesOf[m] \cap pagesOf[n] = {}
          /\ pagesOf[n] \cap Items(available) = {} /\ recvPage \notin pagesOf[n]
      BY <2>1, UnsentApart
    <3>2. \A page \in Elsewhere(n) : \/ page \in Items(available) \/ page = recvPage
                                     \/ \E m \in Unsent \ {n} : page \in pagesOf[m]
      <4>1. CASE svPc = "reading"
        BY <4>1 DEF Elsewhere
      <4>2. CASE svPc # "reading"
        BY <4>2 DEF Elsewhere
      <4> QED BY <4>1, <4>2
    <3> QED BY <3>1, <3>2
  <2>2. CASE svPc = "returned"
    <3>1. Items(available) = {}
      BY <2>2 DEF OwnerFacts, PagesInv, NothingHeldAfterServe, Items
    <3> QED BY <2>2, <3>1 DEF Elsewhere, OwnerFacts, OwnerInv, KeptInv
  <2> QED BY <2>1, <2>2
<1> QED BY <1>1, OwnerInvariant, PTL

\* Between two rounds of the controller every page in use belongs to a packet that is not
\* answered or to recvPacket, and every page of these is in use.
THEOREM PagesComeBack ==
  ASSUME MaxPackets < OrderWrap
  PROVE  PagedSpec => []NoPageLost
<1>1. OwnerFacts => NoPageLost
  <2> SUFFICES ASSUME OwnerFacts, toRelease = 0, svPc # "returned"
               PROVE  UNION {Items(used[id]) : id \in DOMAIN used}
                        = (UNION {pagesOf[n] : n \in Unsent}) \cup ({recvPage} \ {0})
    BY DEF NoPageLost
  <2> DEFINE inUse  == UNION {Items(used[id]) : id \in Ids}
  <2> DEFINE theirs == (UNION {pagesOf[n] : n \in Unsent}) \cup ({recvPage} \ {0})
  <2>1. DOMAIN used = Ids
    BY DEF OwnerFacts, PagesInv, Alloc!PagesTypeOK
  <2>2. /\ \A n \in Unsent : OrderID(n) \in Ids /\ Items(used[OrderID(n)]) = pagesOf[n]
        /\ OrderID(Len(arrived) + 1) \in Ids
        /\ Items(used[OrderID(Len(arrived) + 1)]) = {recvPage} \ {0}
    BY OwnIds DEF OwnerFacts, OwnerInv, HeldInv
  <2>3. ASSUME NEW id \in Ids, NEW page \in Items(used[id])
        PROVE  page \in (UNION {pagesOf[n] : n \in Unsent}) \cup ({recvPage} \ {0})
    <3>1. used[id] # <<>>
      BY <2>3 DEF Items
    <3>2. PICK n \in Unsent \cup {Len(arrived) + 1} : id = OrderID(n)
      BY <3>1 DEF OwnerFacts, OwnerInv, HeldInv, Owners
    <3>3. CASE n \in Unsent
      BY <2>2, <2>3, <3>2, <3>3
    <3>4. CASE n = Len(arrived) + 1
      <4>1. page \in Items(used[OrderID(Len(arrived) + 1)])
        BY <2>3, <3>2, <3>4
      <4> QED BY <2>2, <4>1
    <3> QED BY <3>3, <3>4
  <2>4. \A n \in Unsent : pagesOf[n] \subseteq UNION {Items(used[id]) : id \in Ids}
    BY <2>2
  <2>5. {recvPage} \ {0} \subseteq UNION {Items(used[id]) : id \in Ids}
    BY <2>2
  <2>6. inUse \subseteq theirs
    <3> HIDE DEF theirs
    <3>1. \A id \in Ids : Items(used[id]) \subseteq theirs
      BY <2>3 DEF theirs
    <3> QED BY <3>1
  <2>7. theirs \subseteq inUse
    <3> HIDE DEF inUse
    <3>1. (\A n \in Unsent : pagesOf[n] \subseteq inUse) /\ {recvPage} \ {0} \subseteq inUse
      BY <2>4, <2>5 DEF inUse
    <3> QED BY <3>1
  <2>8. inUse = theirs
    BY <2>6, <2>7
  <2> QED BY <2>1, <2>8
<1> QED BY <1>1, OwnerInvariant, PTL
=============================================================================
