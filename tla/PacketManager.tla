---------------------------- MODULE PacketManager ----------------------------
(***************************************************************************)
(* The packet pipeline that Server and RequestServer share                 *)
(* (packet-manager.go), with the loops of the goroutines that meet in it:  *)
(*                                                                         *)
(*   Serve loop -> pktChan -> dispatcher -> requests -> controller         *)
(*                            |      |                      ^    |         *)
(*                         rwChan  cmdChan              responses sender   *)
(*                            |      |                      |              *)
(*                      read/write  command                 |              *)
(*                       workers    worker -----------------+              *)
(*                                                                         *)
(* A packet is the number of its arrival (1, 2, ...).  Its order id is     *)
(* that number in OrderWrap-valued unsigned arithmetic: packetCount is a   *)
(* uint32 in the code, so OrderWrap stands for 2^32.  The content of a     *)
(* packet is abstracted to the way the dispatcher routes it.  Every packet *)
(* is one makePacket builds; a malformed one that Server dispatches after  *)
(* closing the connection is an arrival like the others, one that makes    *)
(* RequestServer leave its loop is an end of the input.                    *)
(***************************************************************************)
EXTENDS Integers, Sequences, FiniteSets

CONSTANTS
  RWWorkers,   \* the goroutines that read rwChan (SftpServerWorkerCount of them)
  CmdWorker,   \* the goroutine that reads cmdChan
  OrderWrap,   \* number of values of an order id (2^32 in the code)
  MaxPackets   \* bound of the model: packets that arrive on the connection

ASSUME RWWorkersAssumption == IsFiniteSet(RWWorkers) /\ RWWorkers # {}
ASSUME CmdWorkerAssumption == CmdWorker \notin RWWorkers
ASSUME OrderWrapAssumption == OrderWrap \in Nat \ {0}
ASSUME MaxPacketsAssumption == MaxPackets \in Nat

Workers == RWWorkers \cup {CmdWorker}

SftpServerWorkerCount == Cardinality(RWWorkers)

\* How workerChan tells packets apart: reads and writes, closes of a handle,
\* and everything else.
Kinds == {"rw", "close", "cmd"}

VARIABLES
  arrived,    \* kinds of the packets received so far, by arrival number
  svPc,       \* the goroutine that runs Serve
  pktChan,    \* channel from the Serve loop to the dispatcher
  dpPc,       \* the dispatcher: the goroutine workerChan starts
  dpPkt,      \* the packet the dispatcher works on
  working,    \* the WaitGroup counter of packets being processed
  requests,   \* channel of registered packets to the controller
  rwChan,     \* channel to the read/write workers
  wkPc,       \* each worker's position in its loop
  wkPkt,      \* the packet each worker serves, 0 for none
  responses,  \* channel of finished packets to the controller
  ctlPc,      \* the controller goroutine
  incoming,   \* packets registered and not answered (a sorted slice)
  outgoing,   \* packets whose response is ready and not sent (a sorted slice)
  sent        \* history: the packets answered, in the order of sendPacket calls

serveVars   == <<arrived, svPc>>
dispVars    == <<dpPc, dpPkt>>
workerVars  == <<wkPc, wkPkt>>
controlVars == <<ctlPc, incoming, outgoing, sent>>
vars == <<serveVars, pktChan, dispVars, working, requests, rwChan, workerVars,
          responses, controlVars>>

Packets == 1..MaxPackets

OrderID(n) == n % OrderWrap

\* A buffered channel of capacity SftpServerWorkerCount accepts a send.
HasRoom(ch) == Len(ch) < SftpServerWorkerCount

Items(s) == {s[i] : i \in DOMAIN s}

pktChanClosed == svPc \in {"waiting", "returned"}
workerChansClosed == dpPc \in {"closing", "done"}
finiClosed == dpPc = "done"

TypeOK ==
  /\ arrived \in Seq(Kinds) /\ Len(arrived) <= MaxPackets
  /\ svPc \in {"reading", "pushing", "waiting", "returned"}
  /\ pktChan \in Seq(Nat)
  /\ dpPc \in {"range", "barrier", "register", "handoff", "closing", "done"}
  /\ dpPkt \in Nat
  /\ working \in Nat
  /\ requests \in Seq(Nat) /\ rwChan \in Seq(Nat) /\ responses \in Seq(Nat)
  /\ wkPc \in [Workers -> {"idle", "serving", "ready", "exited"}]
  /\ wkPkt \in [Workers -> Nat]
  /\ ctlPc \in {"select", "sending", "stopped"}
  /\ incoming \subseteq Nat /\ outgoing \subseteq Nat
  /\ sent \in Seq(Nat)

Init ==
  /\ arrived = <<>> /\ svPc = "reading"
  /\ pktChan = <<>> /\ dpPc = "range" /\ dpPkt = 0
  /\ working = 0 /\ requests = <<>> /\ rwChan = <<>> /\ responses = <<>>
  /\ wkPc = [w \in Workers |-> "idle"]
  /\ wkPkt = [w \in Workers |-> 0]
  /\ ctlPc = "select" /\ incoming = {} /\ outgoing = {} /\ sent = <<>>

-----------------------------------------------------------------------------
(* The goroutine that runs Serve.                                          *)

\* recvPacket and makePacket return a packet; newOrderedRequest numbers it.
RecvPacket(kind) ==
  /\ svPc = "reading" /\ Len(arrived) < MaxPackets
  /\ arrived' = Append(arrived, kind)
  /\ svPc' = "pushing"
  /\ UNCHANGED <<pktChan, dispVars, working, requests, rwChan, workerVars,
                 responses, controlVars>>

PushPacket ==
  /\ svPc = "pushing" /\ HasRoom(pktChan)
  /\ pktChan' = Append(pktChan, Len(arrived))
  /\ svPc' = "reading"
  /\ UNCHANGED <<arrived, dispVars, working, requests, rwChan, workerVars,
                 responses, controlVars>>

\* recvPacket fails (end of input, or the connection was closed by Close or by
\* the handling of a malformed packet): close(pktChan), then wg.Wait().
StopReading ==
  /\ svPc = "reading"
  /\ svPc' = "waiting"
  /\ UNCHANGED <<arrived, pktChan, dispVars, working, requests, rwChan,
                 workerVars, responses, controlVars>>

\* wg.Wait() returns, Serve closes what is still open and returns.
ServeReturns ==
  /\ svPc = "waiting" /\ \A w \in Workers : wkPc[w] = "exited"
  /\ svPc' = "returned"
  /\ UNCHANGED <<arrived, pktChan, dispVars, working, requests, rwChan,
                 workerVars, responses, controlVars>>

-----------------------------------------------------------------------------
(* The dispatcher: for pkt := range pktChan.                               *)

\* Mutant: the close is counted by working before the wait.
TakePacketCounted ==
  /\ dpPc = "range" /\ pktChan # <<>>
  /\ dpPkt' = Head(pktChan)
  /\ pktChan' = Tail(pktChan)
  /\ dpPc' = IF arrived[Head(pktChan)] = "close" THEN "barrier" ELSE "register"
  /\ working' = IF arrived[Head(pktChan)] = "close" THEN working + 1 ELSE working
  /\ UNCHANGED <<serveVars, requests, rwChan, workerVars, responses, controlVars>>

TakePacket ==
  /\ dpPc = "range" /\ pktChan # <<>>
  /\ dpPkt' = Head(pktChan)
  /\ pktChan' = Tail(pktChan)
  /\ dpPc' = IF arrived[Head(pktChan)] = "close" THEN "barrier" ELSE "register"
  /\ UNCHANGED <<serveVars, working, requests, rwChan, workerVars, responses,
                 controlVars>>

\* Mutant: no wait before a close.
AwaitNothing ==
  /\ dpPc = "barrier"
  /\ dpPc' = "register"
  /\ UNCHANGED <<serveVars, pktChan, dpPkt, working, requests, rwChan,
                 workerVars, responses, controlVars>>

\* A close of a handle waits for the packets being processed.
AwaitWorking ==
  /\ dpPc = "barrier" /\ working = 0
  /\ dpPc' = "register"
  /\ UNCHANGED <<serveVars, pktChan, dpPkt, working, requests, rwChan,
                 workerVars, responses, controlVars>>

\* Mutant: working.Add(1) is left out.
IncomingPacketUncounted ==
  /\ dpPc = "register" /\ HasRoom(requests)
  /\ requests' = Append(requests, dpPkt)
  /\ dpPc' = "handoff"
  /\ UNCHANGED <<serveVars, pktChan, dpPkt, working, rwChan, workerVars, responses,
                 controlVars>>

IncomingPacket ==
  /\ dpPc = "register" /\ HasRoom(requests)
  /\ working' = working + 1
  /\ requests' = Append(requests, dpPkt)
  /\ dpPc' = "handoff"
  /\ UNCHANGED <<serveVars, pktChan, dpPkt, rwChan, workerVars, responses,
                 controlVars>>

\* Mutant: the read/write workers take every kind of packet.
HandAnyToRWChan ==
  /\ dpPc = "handoff" /\ HasRoom(rwChan)
  /\ rwChan' = Append(rwChan, dpPkt)
  /\ dpPc' = "range"
  /\ UNCHANGED <<serveVars, pktChan, dpPkt, working, requests, workerVars,
                 responses, controlVars>>

HandToRWChan ==
  /\ dpPc = "handoff" /\ arrived[dpPkt] = "rw" /\ HasRoom(rwChan)
  /\ rwChan' = Append(rwChan, dpPkt)
  /\ dpPc' = "range"
  /\ UNCHANGED <<serveVars, pktChan, dpPkt, working, requests, workerVars,
                 responses, controlVars>>

\* cmdChan is unbuffered: the send meets the command worker's receive.
HandToCmdWorker ==
  /\ dpPc = "handoff" /\ arrived[dpPkt] # "rw" /\ wkPc[CmdWorker] = "idle"
  /\ wkPc' = [wkPc EXCEPT ![CmdWorker] = "serving"]
  /\ wkPkt' = [wkPkt EXCEPT ![CmdWorker] = dpPkt]
  /\ dpPc' = "range"
  /\ UNCHANGED <<serveVars, pktChan, dpPkt, working, requests, rwChan,
                 responses, controlVars>>

CloseWorkerChans ==
  /\ dpPc = "range" /\ pktChanClosed /\ pktChan = <<>>
  /\ dpPc' = "closing"
  /\ UNCHANGED <<serveVars, pktChan, dpPkt, working, requests, rwChan,
                 workerVars, responses, controlVars>>

\* packetManager.close: wait for the packets being processed, then close(fini).
CloseFini ==
  /\ dpPc = "closing" /\ working = 0
  /\ dpPc' = "done"
  /\ UNCHANGED <<serveVars, pktChan, dpPkt, working, requests, rwChan,
                 workerVars, responses, controlVars>>

-----------------------------------------------------------------------------
(* The workers: for pkt := range ch.                                       *)

TakeRW(w) ==
  /\ w \in RWWorkers /\ wkPc[w] = "idle" /\ rwChan # <<>>
  /\ wkPc' = [wkPc EXCEPT ![w] = "serving"]
  /\ wkPkt' = [wkPkt EXCEPT ![w] = Head(rwChan)]
  /\ rwChan' = Tail(rwChan)
  /\ UNCHANGED <<serveVars, pktChan, dispVars, working, requests, responses,
                 controlVars>>

\* The handler has run (or the read-only check refused it); readyPacket sends
\* the response to the controller first ...
ReadyPacket(w) ==
  /\ wkPc[w] = "serving" /\ HasRoom(responses)
  /\ responses' = Append(responses, wkPkt[w])
  /\ wkPc' = [wkPc EXCEPT ![w] = "ready"]
  /\ UNCHANGED <<serveVars, pktChan, dispVars, working, requests, rwChan,
                 wkPkt, controlVars>>

\* Mutant: working.Done() is left out.
NeverDone(w) ==
  /\ wkPc[w] = "ready"
  /\ wkPc' = [wkPc EXCEPT ![w] = "idle"]
  /\ wkPkt' = [wkPkt EXCEPT ![w] = 0]
  /\ UNCHANGED <<serveVars, pktChan, dispVars, working, requests, rwChan, responses,
                 controlVars>>

\* ... and only then calls working.Done().
WorkingDone(w) ==
  /\ wkPc[w] = "ready"
  /\ working' = working - 1
  /\ wkPc' = [wkPc EXCEPT ![w] = "idle"]
  /\ wkPkt' = [wkPkt EXCEPT ![w] = 0]
  /\ UNCHANGED <<serveVars, pktChan, dispVars, requests, rwChan, responses,
                 controlVars>>

\* Mutant: a worker leaves what is queued behind when its channel is closed.
WorkerExitEarly(w) ==
  /\ wkPc[w] = "idle" /\ workerChansClosed
  /\ wkPc' = [wkPc EXCEPT ![w] = "exited"]
  /\ UNCHANGED <<serveVars, pktChan, dispVars, working, requests, rwChan,
                 wkPkt, responses, controlVars>>

\* The worker's channel is closed and drained.
WorkerExit(w) ==
  /\ wkPc[w] = "idle" /\ workerChansClosed
  /\ w \in RWWorkers => rwChan = <<>>
  /\ wkPc' = [wkPc EXCEPT ![w] = "exited"]
  /\ UNCHANGED <<serveVars, pktChan, dispVars, working, requests, rwChan,
                 wkPkt, responses, controlVars>>

-----------------------------------------------------------------------------
(* The controller: select over requests, responses and fini, each time     *)
(* followed by maybeSendPackets.                                           *)

\* Mutant: maybeSendPackets runs after a response only.
ControllerTakesRequestOnly ==
  /\ ctlPc = "select" /\ requests # <<>>
  /\ incoming' = incoming \cup {Head(requests)}
  /\ requests' = Tail(requests)
  /\ UNCHANGED <<serveVars, pktChan, dispVars, working, rwChan, workerVars,
                 responses, ctlPc, outgoing, sent>>

ControllerTakesRequest ==
  /\ ctlPc = "select" /\ requests # <<>>
  /\ incoming' = incoming \cup {Head(requests)}
  /\ requests' = Tail(requests)
  /\ ctlPc' = "sending"
  /\ UNCHANGED <<serveVars, pktChan, dispVars, working, rwChan, workerVars,
                 responses, outgoing, sent>>

ControllerTakesResponse ==
  /\ ctlPc = "select" /\ responses # <<>>
  /\ outgoing' = outgoing \cup {Head(responses)}
  /\ responses' = Tail(responses)
  /\ ctlPc' = "sending"
  /\ UNCHANGED <<serveVars, pktChan, dispVars, working, requests, rwChan,
                 workerVars, incoming, sent>>

ControllerStops ==
  /\ ctlPc = "select" /\ finiClosed
  /\ ctlPc' = "stopped"
  /\ UNCHANGED <<serveVars, pktChan, dispVars, working, requests, rwChan,
                 workerVars, responses, incoming, outgoing, sent>>

\* Mutant: the slices are not sorted.
AnyOf(S) == S

\* What can stand at the head of a slice orderedPackets.Sort has sorted.
Heads(S) == {p \in S : \A q \in S : OrderID(p) <= OrderID(q)}

\* The heads of outgoing and incoming have the same order id.
HeadsMatch(out, in) ==
  /\ out \in Heads(outgoing) /\ in \in Heads(incoming)
  /\ OrderID(in) = OrderID(out)

\* sendPacket, whose error is ignored, then both heads are popped.
SendReply(out, in) ==
  /\ ctlPc = "sending" /\ HeadsMatch(out, in)
  /\ sent' = Append(sent, out)
  /\ incoming' = incoming \ {in}
  /\ outgoing' = outgoing \ {out}
  /\ UNCHANGED <<serveVars, pktChan, dispVars, working, requests, rwChan,
                 workerVars, responses, ctlPc>>

NothingToSend ==
  /\ ctlPc = "sending"
  /\ ~ \E out \in outgoing, in \in incoming : HeadsMatch(out, in)
  /\ ctlPc' = "select"
  /\ UNCHANGED <<serveVars, pktChan, dispVars, working, requests, rwChan,
                 workerVars, responses, incoming, outgoing, sent>>

-----------------------------------------------------------------------------
\* Every goroutine has ended: the program stops here, and nowhere else.
AllEnded ==
  /\ svPc = "returned" /\ dpPc = "done" /\ ctlPc = "stopped"
  /\ \A w \in Workers : wkPc[w] = "exited"

Ended == AllEnded /\ UNCHANGED vars

Serve == (\E kind \in Kinds : RecvPacket(kind)) \/ PushPacket \/ StopReading \/ ServeReturns

Dispatcher ==
  \/ TakePacket \/ AwaitWorking \/ IncomingPacket
  \/ HandToRWChan \/ HandToCmdWorker \/ CloseWorkerChans \/ CloseFini

Worker(w) == TakeRW(w) \/ ReadyPacket(w) \/ WorkingDone(w) \/ WorkerExit(w)

Controller ==
  \/ ControllerTakesRequest \/ ControllerTakesResponse \/ ControllerStops
  \/ (\E out \in outgoing, in \in incoming : SendReply(out, in))
  \/ NothingToSend

Next ==
  \/ Serve \/ Dispatcher \/ Controller \/ Ended
  \/ \E w \in Workers : Worker(w)

Spec == Init /\ [][Next]_vars

\* Every goroutine that can take a step takes one: handlers and sendPacket
\* return, and the runtime schedules every goroutine.  A select whose cases
\* stay ready picks each of them sooner or later, since it picks at random.
\* Nothing forces a packet to arrive or the input to end.
Fairness ==
  /\ WF_vars(PushPacket) /\ WF_vars(ServeReturns)
  /\ WF_vars(Dispatcher)
  /\ \A w \in Workers : WF_vars(Worker(w))
  /\ WF_vars(ControllerTakesRequest) /\ WF_vars(ControllerTakesResponse)
  /\ WF_vars(ControllerStops)
  /\ WF_vars(\E out \in outgoing, in \in incoming : SendReply(out, in))
  /\ WF_vars(NothingToSend)

FairSpec == Spec /\ Fairness

-----------------------------------------------------------------------------
(* Properties.                                                             *)

\* The packets registered with incomingPacket and still counted by working:
\* one in the dispatcher's hands, those in rwChan, those with a worker.
InProgress ==
  (IF dpPc = "handoff" THEN {dpPkt} ELSE {}) \cup Items(rwChan)
    \cup {wkPkt[w] : w \in {v \in Workers : wkPc[v] \in {"serving", "ready"}}}

\* Replies leave in the order in which the requests arrived, without a gap or
\* a repetition, whatever the order in which the workers finish ("keep the
\* outgoing packets in the same order as the incoming").
InOrder == \A i \in 1..Len(sent) : sent[i] = i

\* While the command worker executes a close, no packet that arrived before it
\* is still waiting for a worker or with one ("wait for reads/writes to finish
\* when file is closed"): no read or write meets a file closed under it.
CloseWaitsForEarlier ==
  \A w \in Workers :
    wkPc[w] = "serving" /\ arrived[wkPkt[w]] = "close" =>
      \A n \in InProgress : n >= wkPkt[w]

\* The WaitGroup counts exactly the packets in progress: it never goes
\* negative (which panics) and Wait never returns while one is being served.
WorkingCounts == working = Cardinality(InProgress)

\* The packets whose response exists: with the controller, or sent already.
Answered == Items(responses) \cup outgoing \cup Items(sent)

\* The packets a handler has been started for.
Begun ==
  Answered \cup {wkPkt[w] : w \in {v \in Workers : wkPc[v] \in {"serving", "ready"}}}

\* The pipeline of goroutines and channels implements OrderedReplies: which
\* packets may be served at the same time, and in which order replies leave.
Promise == INSTANCE OrderedReplies
             WITH begun <- Begun, finished <- Answered, replies <- sent

ImplementsOrderedReplies == Promise!Spec

\* When Serve has returned (and closed the files left open) every packet
\* received has been served: no handler runs on a file after that.
ServeReturnsQuiescent ==
  svPc = "returned" => Answered = 1..Len(arrived)

\* While the input stays open, every packet received is answered.
EveryPacketAnswered ==
  \A n \in Packets :
    n <= Len(arrived) ~> (n \in Items(sent) \/ pktChanClosed)

\* Once the input has ended, Serve returns and every goroutine ends.
ShutdownCompletes == pktChanClosed ~> AllEnded

\* packetManager.close says it pauses "until current packets are processed"
\* before it shuts down the controller: no ready response is left unsent.
ControllerDrains == ctlPc = "stopped" => Len(sent) = Len(arrived)
=============================================================================
