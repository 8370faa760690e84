-------------------------- MODULE RequestHandlesProofs -------------------------
(***************************************************************************)
(* The open requests of a RequestServer, for any number of packets, any    *)
(* operations of the client and any directory.                             *)
(***************************************************************************)
EXTENDS RequestHandles, Integers, FiniteSetTheorems, TLAPS

(***************************************************************************)
(* The packets, of which OrderedReplies has the steps: what holds of them  *)
(* whatever they ask for.                                                  *)
(***************************************************************************)
Arrivals == 1..Len(arrived)

PipeOK ==
  /\ arrived \in Seq(Kinds) /\ Len(arrived) <= MaxPackets
  /\ begun \subseteq Arrivals /\ finished \subseteq begun
  /\ replies \in Seq(Nat) /\ 1..Len(replies) \subseteq finished
  \* the other commands, and for a close everything, that came before are finished
  /\ \A n \in begun : arrived[n] # "rw" => EarlierCommands(n) \subseteq finished
  /\ \A n \in begun : arrived[n] = "close" => Earlier(n) \subseteq finished

LEMMA PipeInit ==
  ASSUME MaxPackets \in Nat, Init
  PROVE  PipeOK
<1>1. arrived = <<>> /\ begun = {} /\ finished = {} /\ replies = <<>>
  BY DEF Init
<1> QED BY <1>1 DEF PipeOK, Arrivals

LEMMA PipeReceive ==
  ASSUME MaxPackets \in Nat, PipeOK, NEW kind \in Kinds, Receive(kind)
  PROVE  /\ PipeOK' /\ Len(arrived') = Len(arrived) + 1 /\ arrived'[Len(arrived) + 1] = kind
         /\ \A n \in Arrivals : n \in Arrivals' /\ arrived'[n] = arrived[n]
<1>1. /\ arrived' \in Seq(Kinds) /\ Len(arrived') = Len(arrived) + 1 /\ Len(arrived) \in Nat
      /\ arrived'[Len(arrived) + 1] = kind
      /\ \A n \in 1..Len(arrived) : arrived'[n] = arrived[n]
  BY DEF Receive, PipeOK
<1>2. Len(arrived') <= MaxPackets
  BY <1>1 DEF Receive, PipeOK
<1>3. Arrivals \subseteq Arrivals' /\ \A n \in Arrivals : Earlier(n) \subseteq Arrivals
  BY <1>1 DEF Arrivals, Earlier
<1>4. UNCHANGED <<begun, finished, replies>>
  BY DEF Receive
<1>5. \A n \in begun : EarlierCommands(n)' = EarlierCommands(n) /\ arrived'[n] = arrived[n]
  BY <1>1, <1>3 DEF EarlierCommands, PipeOK, Arrivals, Earlier
<1>6. PipeOK'
  BY <1>1, <1>2, <1>3, <1>4, <1>5 DEF PipeOK
<1> QED BY <1>1, <1>3, <1>6 DEF Arrivals

LEMMA PipeBegin ==
  ASSUME PipeOK, NEW n, Begin(n)
  PROVE  PipeOK'
<1>1. begun' = begun \cup {n} /\ n \in Arrivals /\ UNCHANGED <<arrived, finished, replies>>
  BY DEF Begin, Arrivals
<1>2. arrived[n] # "rw" => EarlierCommands(n) \subseteq finished
  BY DEF Begin
<1>3. arrived[n] = "close" => Earlier(n) \subseteq finished
  BY DEF Begin
<1> QED BY <1>1, <1>2, <1>3 DEF PipeOK, Arrivals, EarlierCommands

LEMMA PipeFinish ==
  ASSUME PipeOK, NEW n, Finish(n)
  PROVE  PipeOK'
<1>1. finished' = finished \cup {n} /\ n \in begun /\ UNCHANGED <<arrived, begun, replies>>
  BY DEF Finish
<1> QED BY <1>1 DEF PipeOK, Arrivals, EarlierCommands

LEMMA PipeReply ==
  ASSUME PipeOK, Reply
  PROVE  PipeOK'
<1>1. /\ replies' = Append(replies, Len(replies) + 1) /\ Len(replies) + 1 \in finished
      /\ UNCHANGED <<arrived, begun, finished>>
  BY DEF Reply
<1>2. replies' \in Seq(Nat) /\ Len(replies') = Len(replies) + 1 /\ Len(replies) \in Nat
  BY <1>1 DEF PipeOK
<1>3. 1..Len(replies') \subseteq finished
  BY <1>1, <1>2 DEF PipeOK
<1> QED BY <1>1, <1>2, <1>3 DEF PipeOK, Arrivals, EarlierCommands

LEMMA PipeStutter ==
  ASSUME PipeOK, UNCHANGED vars
  PROVE  PipeOK'
BY DEF PipeOK, Arrivals, EarlierCommands, vars

\* No command is being served beside another one.
LEMMA OneCommand ==
  ASSUME PipeOK, NEW m \in begun \ finished, NEW n \in begun \ finished,
         arrived[m] # "rw", arrived[n] # "rw"
  PROVE  m = n
<1>1. m \in Nat /\ n \in Nat /\ m > 0 /\ n > 0
  BY DEF PipeOK, Arrivals
<1>2. m < n => m \in EarlierCommands(n)
  BY <1>1 DEF EarlierCommands, Earlier
<1>3. n < m => n \in EarlierCommands(m)
  BY <1>1 DEF EarlierCommands, Earlier
<1> QED BY <1>1, <1>2, <1>3 DEF PipeOK

\* A packet that is being served finds every close finished or before it.
LEMMA ClosesAreEarlier ==
  ASSUME PipeOK, NEW m \in begun \ finished, NEW c \in begun, arrived[c] = "close", c # m
  PROVE  c < m
<1>1. m \in Nat /\ c \in Nat /\ m > 0 /\ c > 0
  BY DEF PipeOK, Arrivals
<1>2. m < c => m \in Earlier(c)
  BY <1>1 DEF Earlier
<1> QED BY <1>1, <1>2 DEF PipeOK

-----------------------------------------------------------------------------
(***************************************************************************)
(* What the packets ask for.                                               *)
(***************************************************************************)

RequestsOK ==
  /\ request \in Seq([op : Ops, on : Packets \cup {0}, seen : Nat])
  /\ Len(request) = Len(arrived)
  /\ \A n \in Arrived :
       /\ arrived[n] = KindOf(request[n].op)
       /\ request[n].op \in HandleOps =>
            request[n].on \in Packets /\ result[request[n].on] = "handle"
       /\ request[n].op \notin HandleOps => request[n].on = 0
       /\ 1..request[n].seen \subseteq finished

\* Handles are never given twice, and a handle is open for the request that has it.
TableOK ==
  /\ handleCount \in Nat /\ handle \in [Packets -> Nat]
  /\ openRequests \in [Packets -> Packets \cup {0}]
  /\ handleCount = Cardinality({n \in Packets : handle[n] # 0})
  /\ \A n \in Packets : handle[n] <= handleCount
  /\ \A m, n \in Packets : handle[m] = handle[n] /\ handle[m] # 0 => m = n
  /\ \A h \in Packets : openRequests[h] # 0 => handle[openRequests[h]] = h

\* Where a worker may be with a packet, and what the packet has by then.
StageOK(n) ==
  /\ stage[n] # "idle" => n \in begun
  /\ stage[n] = "done" <=> n \in finished
  /\ result[n] # "pending" <=> n \in finished
  /\ stage[n] = "opening" => handle[n] # 0 /\ openRequests[handle[n]] = n
  /\ stage[n] \in {"call", "reading", "writing", "listing"} =>
       request[n].op \in {"read", "write", "readdir", "fstat"}
  /\ InHandler(n) => target[n] # 0
  /\ result[n] = "handle" => handle[n] # 0
  /\ handle[n] # 0 => stage[n] \in {"opening", "done"} /\ request[n].op \in OpenOps
  /\ target[n] # 0 => /\ stage[n] # "idle" /\ request[n].op \in HandleOps
                      /\ target[n] = request[n].on

StagesOK ==
  /\ stage \in [Packets -> {"idle", "opening", "call", "reading", "writing", "listing", "done"}]
  /\ target \in [Packets -> Packets \cup {0}]
  /\ result \in [Packets -> {"pending", "handle", "read", "wrote", "names", "eof", "attrs",
                             "closed", "failed", "unexpected", "badHandle"}]
  /\ \A n \in Packets : StageOK(n)
  /\ \A h \in Packets : openRequests[h] # 0 =>
       stage[openRequests[h]] = "opening" \/ result[openRequests[h]] = "handle"

\* An object is open as long as its handle is, and has been closed once when it is not.
ObjectsOK ==
  /\ object \in [Packets -> Objects] /\ given \in [Packets -> Objects]
  /\ closed \in [Packets -> Nat]
  /\ \A n \in Packets \ finished : given[n] = "none" /\ closed[n] = 0
  /\ \A n \in Openers \cap finished :
       \/ result[n] = "failed" /\ given[n] = "none" /\ closed[n] = 0
       \/ /\ result[n] = "handle" /\ given[n] # "none"
          /\ openRequests[handle[n]] = n => closed[n] = 0 /\ object[n] = given[n]
          /\ openRequests[handle[n]] # n => closed[n] = 1

\* When Serve has returned nothing is open, and nothing happens any more.
ServedOK ==
  served => inputEnded /\ finished = Arrived /\ \A h \in Packets : openRequests[h] = 0

\* A handle stops being open by its close, or when Serve returns.
ClosesOK ==
  /\ \A c \in finished : request[c].op = "close" => openRequests[handle[request[c].on]] = 0
  /\ \A p \in Packets : result[p] = "handle" =>
       \/ served \/ openRequests[handle[p]] = p
       \/ \E c \in finished : request[c].op = "close" /\ request[c].on = p

\* What became of the packets on a handle whose close was before them, or was not.
BarriersOK ==
  \A m \in Arrived :
    /\ request[m].op \in HandleOps /\ ClosesBefore(m) = {} =>
         result[m] # "badHandle" /\ (stage[m] = "call" => target[m] # 0)
    /\ (\E n \in ClosesBefore(m) : n <= request[m].seen) =>
         target[m] = 0 /\ result[m] \in {"pending", "badHandle"}

HandlesInv ==
  /\ PipeOK /\ RequestsOK /\ TableOK /\ StagesOK /\ ObjectsOK /\ ServedOK /\ ClosesOK
  /\ BarriersOK

-----------------------------------------------------------------------------
(* What the actions have in common.                                        *)

LEMMA Ranges ==
  ASSUME HandlesInv
  PROVE  /\ finished \subseteq begun /\ begun \subseteq Arrived /\ Arrived \subseteq Packets
         /\ MaxPackets \in Nat /\ Len(arrived) \in Nat
         /\ Packets \subseteq Nat /\ 0 \notin Packets
<1>1. MaxPackets \in Nat
  BY BoundAssumption
<1>2. Len(arrived) \in Nat /\ Len(arrived) <= MaxPackets
  BY DEF HandlesInv, PipeOK
<1>3. finished \subseteq begun /\ begun \subseteq Arrived
  BY DEF HandlesInv, PipeOK, Arrivals, Arrived
<1> QED BY <1>1, <1>2, <1>3 DEF Arrived, Packets

\* While a packet is being served, Serve has not returned.
LEMMA NotServed ==
  ASSUME HandlesInv, NEW n \in begun \ finished
  PROVE  ~ served
BY Ranges DEF HandlesInv, ServedOK

\* A handle that is open is open for the request that it was given to.
LEMMA OpenFor ==
  ASSUME HandlesInv, NEW p \in Packets, handle[p] # 0
  PROVE  handle[p] \in Packets /\ openRequests[handle[p]] \in {0, p}
<1>1. handle[p] \in Nat /\ handle[p] <= handleCount /\ handleCount \in Nat
  BY DEF HandlesInv, TableOK
<1>2. handleCount <= MaxPackets
  <2>1. {n \in Packets : handle[n] # 0} \subseteq Packets
    OBVIOUS
  <2>2. IsFiniteSet(Packets) /\ Cardinality(Packets) = MaxPackets
    BY FS_Interval, BoundAssumption DEF Packets
  <2> QED BY <2>1, <2>2, FS_Subset DEF HandlesInv, TableOK
<1>3. handle[p] \in Packets
  BY <1>1, <1>2, BoundAssumption DEF Packets
<1> QED BY <1>1, <1>3 DEF HandlesInv, TableOK

\* What a request that has been opened is.
LEMMA Opened ==
  ASSUME HandlesInv, NEW p \in Packets, result[p] = "handle"
  PROVE  /\ handle[p] # 0 /\ p \in Openers \cap finished
         /\ handle[p] \in Packets /\ openRequests[handle[p]] \in {0, p}
<1>1. handle[p] # 0 /\ p \in finished /\ request[p].op \in OpenOps
  BY DEF HandlesInv, StagesOK, StageOK
<1> QED BY <1>1, OpenFor, Ranges DEF Openers

\* The next handle is one that nobody has.
LEMMA NewHandle ==
  ASSUME HandlesInv, NEW n \in Packets, handle[n] = 0
  PROVE  /\ handleCount + 1 \in Packets /\ openRequests[handleCount + 1] = 0
         /\ \A m \in Packets : handle[m] # handleCount + 1
         /\ Cardinality({m \in Packets : handle[m] # 0} \cup {n}) = handleCount + 1
<1> DEFINE Given == {m \in Packets : handle[m] # 0}
<1>1. IsFiniteSet(Packets) /\ Cardinality(Packets) = MaxPackets /\ MaxPackets \in Nat
  BY FS_Interval, BoundAssumption DEF Packets
<1>2. IsFiniteSet(Given)
  BY <1>1, FS_Subset
<1>3. n \notin Given /\ Cardinality(Given) = handleCount /\ handleCount \in Nat
  BY DEF HandlesInv, TableOK
<1>4. Cardinality(Given \cup {n}) = handleCount + 1
  BY <1>2, <1>3, FS_AddElement
<1>5. Given \cup {n} \subseteq Packets
  OBVIOUS
<1>6. handleCount + 1 <= MaxPackets
  BY <1>1, <1>4, <1>5, FS_Subset
<1>7. handleCount + 1 \in Packets
  BY <1>1, <1>3, <1>6 DEF Packets
<1>8. \A m \in Packets : handle[m] # handleCount + 1
  BY <1>3 DEF HandlesInv, TableOK
<1>9. openRequests[handleCount + 1] = 0
  BY <1>7, <1>8 DEF HandlesInv, TableOK
<1> QED BY <1>4, <1>7, <1>8, <1>9

\* A packet on a handle whose close did not come before it finds the handle open.
LEMMA FindsOpen ==
  ASSUME HandlesInv, NEW n \in begun \ finished, request[n].op \in HandleOps,
         ClosesBefore(n) = {}
  PROVE  openRequests[handle[request[n].on]] = request[n].on
<1>1. n \in Arrived /\ request[n].on \in Packets /\ result[request[n].on] = "handle"
  BY Ranges DEF HandlesInv, RequestsOK
<1>2. ~ \E c \in finished : request[c].op = "close" /\ request[c].on = request[n].on
  <2> SUFFICES ASSUME NEW c \in finished, request[c].op = "close",
                      request[c].on = request[n].on
               PROVE  FALSE
    OBVIOUS
  <2>1. c \in begun /\ c \in Arrived /\ c # n
    BY Ranges
  <2>2. arrived[c] = "close"
    BY <2>1 DEF HandlesInv, RequestsOK, KindOf
  <2>3. c < n
    BY <2>1, <2>2, ClosesAreEarlier DEF HandlesInv
  <2>4. c \in Earlier(n)
    BY <1>1, <2>1, <2>3 DEF Arrived, Earlier
  <2> QED BY <2>4 DEF ClosesBefore
<1> QED BY <1>1, <1>2, NotServed DEF HandlesInv, ClosesOK

\* A packet that was sent after the reply to the close of its handle finds it closed.
LEMMA FindsClosed ==
  ASSUME HandlesInv, NEW n \in Arrived, NEW c \in ClosesBefore(n), c <= request[n].seen
  PROVE  openRequests[handle[request[n].on]] = 0
<1>1. c \in finished
  BY DEF HandlesInv, RequestsOK, ClosesBefore, Earlier, Arrived
<1> QED BY <1>1 DEF HandlesInv, ClosesOK, ClosesBefore

-----------------------------------------------------------------------------
(* The invariant is kept by every action.                                  *)

LEMMA HandlesInitInv ==
  ASSUME HandlesInit
  PROVE  HandlesInv
<1> USE DEF HandlesInit
<1>1. PipeOK
  BY PipeInit, BoundAssumption
<1>2. arrived = <<>> /\ begun = {} /\ finished = {} /\ Arrived = {}
  BY DEF Init, Arrived
<1>3. RequestsOK
  BY <1>2 DEF RequestsOK
<1>4. TableOK
  <2>1. {n \in Packets : handle[n] # 0} = {}
    OBVIOUS
  <2> QED BY <2>1, FS_EmptySet DEF TableOK
<1>5. StagesOK
  BY <1>2 DEF StagesOK, StageOK, InHandler
<1>6. ObjectsOK
  BY <1>2 DEF ObjectsOK, Objects
<1>7. ServedOK /\ ClosesOK /\ BarriersOK
  BY <1>2 DEF ServedOK, ClosesOK, BarriersOK
<1> QED BY <1>1, <1>3, <1>4, <1>5, <1>6, <1>7 DEF HandlesInv

\* The steps that only move a packet along the pipeline.
LEMMA PipelineInv ==
  ASSUME HandlesInv, PipeOK', begun \subseteq begun', Arrived' = Arrived,
         UNCHANGED <<arrived, finished, request, tableVars, object, stage, target, result,
                     served, given, closed>>,
         served => inputEnded'
  PROVE  HandlesInv'
<1> USE DEF tableVars
<1>1. RequestsOK' /\ TableOK'
  BY DEF HandlesInv, RequestsOK, TableOK
<1>2. StagesOK'
  BY DEF HandlesInv, StagesOK, StageOK, InHandler
<1>3. ObjectsOK'
  BY DEF HandlesInv, ObjectsOK, Openers
<1>4. ServedOK' /\ ClosesOK'
  BY DEF HandlesInv, ServedOK, ClosesOK
<1>5. BarriersOK'
  BY DEF HandlesInv, BarriersOK, ClosesBefore
<1> QED BY <1>1, <1>2, <1>3, <1>4, <1>5 DEF HandlesInv

LEMMA ReceiveInv ==
  ASSUME HandlesInv, NEW op \in Ops, NEW on, ReceiveRequest(op, on),
         IF op \in HandleOps THEN on \in Known ELSE on = 0
  PROVE  HandlesInv'
<1> DEFINE k == Len(arrived) + 1
<1> DEFINE new == [op |-> op, on |-> on, seen |-> Len(replies)]
<1>1. KindOf(op) \in Kinds
  BY DEF KindOf, Kinds
<1>2. Receive(KindOf(op)) /\ request' = Append(request, new)
  BY DEF ReceiveRequest
<1>3. /\ PipeOK' /\ Len(arrived') = k /\ arrived'[k] = KindOf(op)
      /\ \A n \in Arrived : arrived'[n] = arrived[n]
  BY <1>1, <1>2, PipeReceive, BoundAssumption DEF HandlesInv, Arrivals, Arrived
<1>4. Arrived' = Arrived \cup {k} /\ k \notin Arrived /\ k \notin finished /\ k \notin begun
  BY <1>3, Ranges DEF Arrived
<1>5. Len(replies) \in Nat /\ 1..Len(replies) \subseteq finished
  BY DEF HandlesInv, PipeOK
<1>6. on \in Packets \cup {0}
  BY <1>5, Ranges DEF Known
<1>7. /\ request' \in Seq([op : Ops, on : Packets \cup {0}, seen : Nat])
      /\ Len(request') = k /\ request'[k] = new
      /\ \A n \in Arrived : request'[n] = request[n]
  BY <1>2, <1>5, <1>6, Ranges DEF HandlesInv, RequestsOK, Arrived
<1>8. UNCHANGED <<begun, finished, replies, inputEnded, tableVars, object, stage, target, result,
                  served, given, closed>>
  BY <1>2 DEF ReceiveRequest, Receive, workerVars, stateVars, historyVars
<1>9. /\ \A n \in Arrived : Earlier(n) \subseteq Arrived
      /\ \A n \in Arrived : ClosesBefore(n)' = ClosesBefore(n)
  <2>1. \A n \in Arrived : Earlier(n) \subseteq Arrived
    BY Ranges DEF Arrived, Earlier
  <2> QED BY <2>1, <1>7 DEF ClosesBefore, Earlier
<1>10. request'[k].op = op /\ request'[k].on = on /\ request'[k].seen = Len(replies)
  BY <1>7
<1>11. RequestsOK'
  <2>1. op \in HandleOps => on \in Packets /\ result[on] = "handle"
    BY <1>5, Ranges DEF Known
  <2>2. /\ arrived'[k] = KindOf(request'[k].op)
        /\ request'[k].op \in HandleOps =>
             request'[k].on \in Packets /\ result'[request'[k].on] = "handle"
        /\ request'[k].op \notin HandleOps => request'[k].on = 0
        /\ 1..request'[k].seen \subseteq finished'
    BY <1>3, <1>5, <1>8, <1>10, <2>1
  <2>3. \A n \in Arrived :
        /\ arrived'[n] = KindOf(request'[n].op)
        /\ request'[n].op \in HandleOps =>
             request'[n].on \in Packets /\ result'[request'[n].on] = "handle"
        /\ request'[n].op \notin HandleOps => request'[n].on = 0
        /\ 1..request'[n].seen \subseteq finished'
    BY <1>3, <1>7, <1>8 DEF HandlesInv, RequestsOK
  <2> HIDE DEF new, k
  <2> QED BY <1>3, <1>4, <1>7, <2>2, <2>3 DEF RequestsOK
<1>12. TableOK'
  BY <1>8 DEF HandlesInv, TableOK, tableVars
<1>13. StagesOK'
  <2>1. \A n \in Packets : n \in begun => request'[n] = request[n]
    BY <1>7, Ranges
  <2>2. \A n \in Packets : stage[n] # "idle" => n \in begun
    BY DEF HandlesInv, StagesOK, StageOK
  <2> QED BY <1>8, <2>1, <2>2 DEF HandlesInv, StagesOK, StageOK, InHandler, tableVars
<1>14. ObjectsOK'
  <2>1. Openers' \cap finished' = Openers \cap finished
    BY <1>4, <1>7, <1>8, Ranges DEF Openers
  <2> QED BY <1>8, <2>1 DEF HandlesInv, ObjectsOK, tableVars
<1>15. ServedOK'
  BY <1>8 DEF ReceiveRequest, HandlesInv, ServedOK, tableVars
<1>16. ClosesOK'
  BY <1>7, <1>8, Ranges DEF HandlesInv, ClosesOK, tableVars
<1>17. BarriersOK'
  <2>1. stage[k] = "idle" /\ target[k] = 0 /\ result[k] = "pending"
    <3>1. k \in Packets
      BY <1>3, Ranges DEF PipeOK, Packets
    <3> QED BY <3>1, <1>4 DEF HandlesInv, StagesOK, StageOK
  <2> HIDE DEF new, k
  <2> QED BY <1>4, <1>7, <1>8, <1>9, <2>1 DEF HandlesInv, BarriersOK
<1> QED BY <1>3, <1>11, <1>12, <1>13, <1>14, <1>15, <1>16, <1>17 DEF HandlesInv

LEMMA StartInv ==
  ASSUME HandlesInv, NEW n \in Packets, Start(n)
  PROVE  HandlesInv'
<1>1. Begin(n) /\ UNCHANGED handleVars
  BY DEF Start
<1>2. PipeOK' /\ begun \subseteq begun' /\ UNCHANGED <<arrived, finished>>
  BY <1>1, PipeBegin DEF HandlesInv, Begin
<1> QED BY <1>1, <1>2, PipelineInv
        DEF handleVars, workerVars, stateVars, historyVars, HandlesInv, ServedOK, Arrived

LEMMA ReplyInv ==
  ASSUME HandlesInv, SendReply
  PROVE  HandlesInv'
<1>1. Reply /\ UNCHANGED handleVars
  BY DEF SendReply
<1>2. PipeOK' /\ UNCHANGED <<arrived, begun, finished>>
  BY <1>1, PipeReply DEF HandlesInv, Reply
<1> QED BY <1>1, <1>2, PipelineInv
        DEF handleVars, workerVars, stateVars, historyVars, HandlesInv, ServedOK, Arrived

LEMMA InputEndsInv ==
  ASSUME HandlesInv, ServeLoopReturns
  PROVE  HandlesInv'
<1>1. UNCHANGED vars /\ inputEnded'
  BY DEF ServeLoopReturns
<1>2. PipeOK' /\ UNCHANGED <<arrived, begun, finished>>
  BY <1>1, PipeStutter DEF HandlesInv, vars
<1> QED BY <1>1, <1>2, PipelineInv
        DEF ServeLoopReturns, workerVars, stateVars, historyVars, Arrived

LEMMA StutterInv ==
  ASSUME HandlesInv, UNCHANGED allVars
  PROVE  HandlesInv'
<1>1. UNCHANGED vars /\ UNCHANGED handleVars
  BY DEF allVars
<1>2. PipeOK' /\ UNCHANGED <<arrived, begun, finished>>
  BY <1>1, PipeStutter DEF HandlesInv, vars
<1> QED BY <1>1, <1>2, PipelineInv
        DEF handleVars, workerVars, stateVars, historyVars, HandlesInv, ServedOK, Arrived

\* The steps of a worker that do not answer: the packet goes to another stage, and
\* may have looked up its request.
LEMMA StageInv ==
  ASSUME HandlesInv, NEW n \in begun \ finished,
         request[n].op \in {"read", "write", "readdir", "fstat"},
         stage' = [stage EXCEPT ![n] = stage'[n]], target' = [target EXCEPT ![n] = target'[n]],
         stage'[n] \in {"call", "reading", "writing", "listing"},
         target'[n] \in {0, request[n].on}, stage'[n] # "call" => target'[n] # 0,
         ClosesBefore(n) = {} => target'[n] # 0,
         (\E c \in ClosesBefore(n) : c <= request[n].seen) => target'[n] = 0,
         UNCHANGED <<vars, request, inputEnded, tableVars, object, result, served, given, closed>>
  PROVE  HandlesInv'
<1> USE DEF tableVars
<1>1. n \in Packets /\ n \in Arrived /\ request[n].op \in HandleOps /\ request[n].op \notin OpenOps
  BY Ranges DEF HandleOps, OpenOps
<1>2. PipeOK' /\ UNCHANGED <<arrived, begun, finished>> /\ Arrived' = Arrived
  BY PipeStutter DEF HandlesInv, vars, Arrived
<1>3. RequestsOK' /\ TableOK'
  BY <1>2 DEF HandlesInv, RequestsOK, TableOK
<1>4. handle[n] = 0
  <2>1. stage[n] # "done"
    BY <1>1 DEF HandlesInv, StagesOK, StageOK
  <2> QED BY <1>1, <2>1 DEF HandlesInv, StagesOK, StageOK
<1>5. StagesOK'
  <2>1. request[n].on \in Packets
    BY <1>1 DEF HandlesInv, RequestsOK
  <2>2. stage' \in [Packets -> {"idle", "opening", "call", "reading", "writing", "listing", "done"}]
    BY DEF HandlesInv, StagesOK, StageOK
  <2>3. target' \in [Packets -> Packets \cup {0}]
    BY <2>1 DEF HandlesInv, StagesOK, StageOK
  <2>4. \A m \in Packets \ {n} : stage'[m] = stage[m] /\ target'[m] = target[m]
    BY <1>1 DEF HandlesInv, StagesOK, StageOK
  <2>5. \A h \in Packets : openRequests[h] # 0 => openRequests[h] \in Packets \ {n}
    BY <1>4, <1>1, Ranges DEF HandlesInv, TableOK
  <2> QED BY <1>1, <1>2, <1>4, <2>2, <2>3, <2>4, <2>5 DEF HandlesInv, StagesOK, StageOK, InHandler
<1>6. ObjectsOK'
  BY <1>2 DEF HandlesInv, ObjectsOK, Openers
<1>7. ServedOK' /\ ClosesOK'
  BY <1>2 DEF HandlesInv, ServedOK, ClosesOK
<1>8. BarriersOK'
  <2>1. \A m \in Packets \ {n} : stage'[m] = stage[m] /\ target'[m] = target[m]
    BY <1>1 DEF HandlesInv, StagesOK, StageOK
  <2>2. result[n] = "pending"
    BY <1>1 DEF HandlesInv, StagesOK, StageOK
  <2>3. \A m \in Arrived : ClosesBefore(m)' = ClosesBefore(m) /\ m \in Packets
    BY Ranges DEF ClosesBefore
  <2> QED BY <1>1, <1>2, <2>1, <2>2, <2>3 DEF HandlesInv, BarriersOK
<1> QED BY <1>2, <1>3, <1>5, <1>6, <1>7, <1>8 DEF HandlesInv

LEMMA GetRequestInv ==
  ASSUME HandlesInv, NEW n \in Packets, GetRequest(n)
  PROVE  HandlesInv'
<1> DEFINE tgt == openRequests[handle[request[n].on]]
<1>1. /\ n \in begun \ finished /\ request[n].op \in {"read", "write", "readdir", "fstat"}
      /\ stage' = [stage EXCEPT ![n] = "call"] /\ target' = [target EXCEPT ![n] = tgt]
      /\ UNCHANGED <<vars, request, inputEnded, tableVars, object, result, served, given, closed>>
  BY DEF GetRequest, Serving, stateVars, historyVars
<1>2. n \in Arrived /\ request[n].op \in HandleOps
  BY <1>1, Ranges DEF HandleOps
<1>3. tgt \in {0, request[n].on} /\ request[n].on # 0
  BY <1>2, Opened, Ranges DEF HandlesInv, RequestsOK
<1>4. ClosesBefore(n) = {} => tgt # 0
  BY <1>1, <1>2, <1>3, FindsOpen
<1>5. (\E c \in ClosesBefore(n) : c <= request[n].seen) => tgt = 0
  BY <1>2, FindsClosed
<1>6. stage'[n] = "call" /\ target'[n] = tgt
  BY <1>1 DEF HandlesInv, StagesOK, StageOK
<1> QED BY <1>1, <1>3, <1>4, <1>5, <1>6, StageInv

LEMMA CallHandlerInv ==
  ASSUME HandlesInv, NEW n \in Packets, CallHandler(n)
  PROVE  HandlesInv'
<1>1. /\ n \in begun \ finished /\ request[n].op \in {"read", "write", "readdir"}
      /\ target[n] # 0
      /\ UNCHANGED <<vars, request, inputEnded, tableVars, object, target, result, served, given,
                     closed>>
  BY DEF CallHandler, UsesObject, Serving, stateVars, historyVars
<1>2. PICK to : /\ to = CallStage(request[n].op, object[target[n]]) /\ to # "unexpected"
                /\ stage' = [stage EXCEPT ![n] = to]
  BY DEF CallHandler
<1>3. to \in {"reading", "writing", "listing"}
  <2> DEFINE op == request[n].op
  <2> DEFINE obj == object[target[n]]
  <2>1. CASE obj = "reader" \/ (obj = "both" /\ op = "read")
    BY <1>2, <2>1 DEF CallStage
  <2>2. CASE obj = "writer" \/ (obj = "both" /\ op = "write")
    BY <1>2, <2>2 DEF CallStage
  <2>3. CASE obj = "lister"
    BY <1>2, <2>3 DEF CallStage
  <2>4. CASE /\ ~ (obj = "reader" \/ (obj = "both" /\ op = "read"))
             /\ ~ (obj = "writer" \/ (obj = "both" /\ op = "write")) /\ obj # "lister"
    BY <1>2, <2>4 DEF CallStage
  <2> QED BY <2>1, <2>2, <2>3, <2>4
<1>4. /\ target[n] = request[n].on /\ target' = [target EXCEPT ![n] = target'[n]]
      /\ stage'[n] = to /\ target'[n] = target[n]
  BY <1>1, <1>2 DEF HandlesInv, StagesOK, StageOK
<1>5. (\E c \in ClosesBefore(n) : c <= request[n].seen) => target[n] = 0
  BY <1>1, Ranges DEF HandlesInv, BarriersOK
<1> QED BY <1>1, <1>2, <1>3, <1>4, <1>5, StageInv

\* What every response has in common, whatever became of the handles.
Responded(n, res) ==
  /\ PipeOK' /\ RequestsOK' /\ Arrived' = Arrived /\ n \in begun \ finished
  /\ UNCHANGED <<arrived, begun>> /\ finished' = finished \cup {n}
  /\ stage' \in [Packets -> {"idle", "opening", "call", "reading", "writing", "listing", "done"}]
  /\ result' \in [Packets -> {"pending", "handle", "read", "wrote", "names", "eof", "attrs",
                              "closed", "failed", "unexpected", "badHandle"}]
  /\ stage'[n] = "done" /\ result'[n] = res /\ result[n] = "pending"
  /\ \A m \in Packets \ {n} : stage'[m] = stage[m] /\ result'[m] = result[m]
  /\ \A m \in Arrived : ClosesBefore(m)' = ClosesBefore(m)

LEMMA Responds ==
  ASSUME HandlesInv, NEW n \in Packets, NEW res, Respond(n, res), UNCHANGED request,
         res \in {"handle", "read", "wrote", "names", "eof", "attrs", "closed", "failed",
                 "unexpected", "badHandle"}
  PROVE  Responded(n, res)
<1>1. /\ Finish(n) /\ stage' = [stage EXCEPT ![n] = "done"]
      /\ result' = [result EXCEPT ![n] = res]
  BY DEF Respond
<1>2. /\ n \in begun \ finished /\ finished' = finished \cup {n}
      /\ UNCHANGED <<arrived, begun>> /\ PipeOK' /\ Arrived' = Arrived
  BY <1>1, PipeFinish DEF HandlesInv, Finish, Arrived
<1>3. result[n] = "pending"
  BY <1>2 DEF HandlesInv, StagesOK, StageOK
<1>4. /\ stage' \in [Packets -> {"idle", "opening", "call", "reading", "writing", "listing", "done"}]
      /\ result' \in [Packets -> {"pending", "handle", "read", "wrote", "names", "eof", "attrs",
                                  "closed", "failed", "unexpected", "badHandle"}]
      /\ stage'[n] = "done" /\ result'[n] = res
      /\ \A m \in Packets \ {n} : stage'[m] = stage[m] /\ result'[m] = result[m]
  BY <1>1 DEF HandlesInv, StagesOK, StageOK
<1>5. \A p \in Packets : result[p] = "handle" => result'[p] = "handle"
  BY <1>3, <1>4
<1>6. RequestsOK'
  BY <1>2, <1>5 DEF HandlesInv, RequestsOK
<1>7. \A m \in Arrived : ClosesBefore(m)' = ClosesBefore(m)
  BY DEF ClosesBefore
<1> QED BY <1>2, <1>3, <1>4, <1>6, <1>7 DEF Responded

\* What the answer to a packet may be, for its place among the closes.
Fits(n, res) ==
  /\ res = "badHandle" => target[n] = 0 /\ ~ (request[n].op \in HandleOps /\ ClosesBefore(n) = {})
  /\ res # "badHandle" => ~ \E c \in ClosesBefore(n) : c <= request[n].seen

\* An answer that leaves the handles and their objects as they are.
LEMMA AnswerInv ==
  ASSUME HandlesInv, NEW n \in Packets, NEW res, Respond(n, res), Fits(n, res),
         res \in {"read", "wrote", "names", "eof", "attrs", "failed", "unexpected", "badHandle"},
         request[n].op \notin OpenOps,
         request[n].op = "close" => openRequests[handle[request[n].on]] = 0,
         given' \in [Packets -> Objects], \A m \in Packets \ {n} : given'[m] = given[m],
         UNCHANGED <<request, tableVars, object, target, served, closed>>,
         UNCHANGED inputEnded
  PROVE  HandlesInv'
<1> USE DEF tableVars, Responded
<1>1. Responded(n, res)
  BY Responds
<1>2. n \in Arrived /\ Arrived \subseteq Packets
  BY <1>1, Ranges
<1>3. handle[n] = 0
  BY DEF HandlesInv, StagesOK, StageOK
<1>4. TableOK'
  BY DEF HandlesInv, TableOK
<1>5. StagesOK'
  <2>1. \A h \in Packets : openRequests[h] # 0 => openRequests[h] \in Packets \ {n}
    BY <1>3, Ranges DEF HandlesInv, TableOK
  <2> QED BY <1>1, <1>3, <2>1 DEF HandlesInv, StagesOK, StageOK, InHandler
<1>6. ObjectsOK'
  <2>1. Openers' \cap finished' = Openers \cap finished /\ n \notin Openers
    BY <1>1 DEF Openers
  <2>2. \A m \in Packets \ finished' : given'[m] = "none" /\ closed'[m] = 0
    BY <1>1 DEF HandlesInv, ObjectsOK
  <2>3. \A m \in Openers \cap finished : m \in Packets \ {n}
    BY <1>1, Ranges
  <2>4. \A m \in Openers' \cap finished' :
          \/ result'[m] = "failed" /\ given'[m] = "none" /\ closed'[m] = 0
          \/ /\ result'[m] = "handle" /\ given'[m] # "none"
             /\ openRequests'[handle'[m]] = m => closed'[m] = 0 /\ object'[m] = given'[m]
             /\ openRequests'[handle'[m]] # m => closed'[m] = 1
    BY <1>1, <2>1, <2>3 DEF HandlesInv, ObjectsOK
  <2> QED BY <2>2, <2>4 DEF HandlesInv, ObjectsOK
<1>7. ServedOK'
  BY <1>1, NotServed DEF HandlesInv, ServedOK
<1>8. ClosesOK'
  BY <1>1 DEF HandlesInv, ClosesOK
<1>9. BarriersOK'
  BY <1>1, <1>2 DEF HandlesInv, BarriersOK, Fits
<1> QED BY <1>1, <1>4, <1>5, <1>6, <1>7, <1>8, <1>9 DEF HandlesInv

LEMMA BadHandleInv ==
  ASSUME HandlesInv, NEW n \in Packets, BadHandle(n)
  PROVE  HandlesInv'
<1>1. /\ n \in begun \ finished /\ request[n].op \in {"read", "write", "readdir", "fstat"}
      /\ stage[n] = "call" /\ target[n] = 0 /\ Respond(n, "badHandle")
      /\ UNCHANGED <<request, tableVars, object, target, served, closed, given>>
      /\ UNCHANGED inputEnded
  BY DEF BadHandle, Serving, stateVars, historyVars
<1>2. Fits(n, "badHandle")
  BY <1>1, Ranges DEF Fits, HandlesInv, BarriersOK
<1>3. request[n].op \notin OpenOps /\ request[n].op # "close"
  BY <1>1 DEF OpenOps
<1>4. given' \in [Packets -> Objects]
  BY <1>1 DEF HandlesInv, ObjectsOK
<1> QED BY <1>1, <1>2, <1>3, <1>4, AnswerInv

\* The answer of a handler fits: the packet has found its request.
LEMMA HandlerFits ==
  ASSUME HandlesInv, NEW n \in Arrived, NEW res, res # "badHandle",
         target[n] # 0 \/ request[n].op \notin HandleOps
  PROVE  Fits(n, res)
<1> SUFFICES ASSUME NEW c \in ClosesBefore(n), c <= request[n].seen
             PROVE  FALSE
  BY DEF Fits
<1>1. c \in Arrived /\ request[c].op = "close" /\ request[c].on = request[n].on
  BY Ranges DEF ClosesBefore, Earlier, Arrived
<1>2. request[n].on # 0
  BY <1>1, Ranges DEF HandlesInv, RequestsOK, HandleOps
<1>3. target[n] = 0
  BY DEF HandlesInv, BarriersOK
<1> QED BY <1>2, <1>3 DEF HandlesInv, RequestsOK

LEMMA CallUnexpectedInv ==
  ASSUME HandlesInv, NEW n \in Packets, CallUnexpected(n)
  PROVE  HandlesInv'
<1>1. /\ n \in begun \ finished /\ request[n].op \in {"read", "write", "readdir"}
      /\ target[n] # 0 /\ Respond(n, "unexpected")
      /\ UNCHANGED <<request, tableVars, object, target, served, closed, given>>
      /\ UNCHANGED inputEnded
  BY DEF CallUnexpected, UsesObject, Serving, stateVars, historyVars
<1>2. Fits(n, "unexpected")
  BY <1>1, Ranges, HandlerFits
<1>3. request[n].op \notin OpenOps /\ request[n].op # "close"
  BY <1>1 DEF OpenOps
<1>4. given' \in [Packets -> Objects]
  BY <1>1 DEF HandlesInv, ObjectsOK
<1> QED BY <1>1, <1>2, <1>3, <1>4, AnswerInv

\* A read, a write or a listing returns.
LEMMA HandlerReturnsInv ==
  ASSUME HandlesInv, NEW n \in Packets, InHandler(n), NEW res, Respond(n, res),
         res \in {"read", "wrote", "names", "eof", "failed"},
         UNCHANGED <<request, tableVars, object, target, served, closed, given>>,
         UNCHANGED inputEnded
  PROVE  HandlesInv'
<1>1. n \in begun \ finished /\ n \in Arrived
  BY Responds, Ranges DEF Responded
<1>2. target[n] # 0 /\ request[n].op \in {"read", "write", "readdir", "fstat"}
  BY DEF HandlesInv, StagesOK, StageOK, InHandler
<1>3. Fits(n, res)
  BY <1>1, <1>2, HandlerFits
<1>4. request[n].op \notin OpenOps /\ request[n].op # "close"
  BY <1>2 DEF OpenOps
<1>5. given' \in [Packets -> Objects]
  BY DEF HandlesInv, ObjectsOK
<1> QED BY <1>3, <1>4, <1>5, AnswerInv

LEMMA TransferReturnsInv ==
  ASSUME HandlesInv, NEW n \in Packets, TransferReturns(n)
  PROVE  HandlesInv'
<1>1. /\ Respond(n, IF stage[n] = "reading" THEN "read" ELSE "wrote") /\ InHandler(n)
      /\ UNCHANGED <<request, tableVars, object, target, served, closed, given>>
      /\ UNCHANGED inputEnded
  BY DEF TransferReturns, InHandler, stateVars, historyVars
<1>2. Respond(n, "read") \/ Respond(n, "wrote")
  BY <1>1
<1> QED BY <1>1, <1>2, HandlerReturnsInv

LEMMA ListReturnsInv ==
  ASSUME HandlesInv, NEW n \in Packets, ListReturns(n)
  PROVE  HandlesInv'
<1>1. /\ InHandler(n)
      /\ UNCHANGED <<request, tableVars, object, target, served, closed, given>>
      /\ UNCHANGED inputEnded
  BY DEF ListReturns, InHandler
<1>2. PICK res \in {"names", "eof", "failed"} : Respond(n, res)
  BY DEF ListReturns
<1> QED BY <1>1, <1>2, HandlerReturnsInv

LEMMA StatReturnsInv ==
  ASSUME HandlesInv, NEW n \in Packets, StatReturns(n)
  PROVE  HandlesInv'
<1>1. /\ n \in begun \ finished
      /\ request[n].op = "stat" \/ (request[n].op = "fstat" /\ target[n] # 0)
      /\ UNCHANGED <<request, tableVars, object, target, served, closed>>
      /\ UNCHANGED inputEnded
  BY DEF StatReturns, Serving, stateVars
<1>2. PICK res \in {"attrs", "failed"} : Respond(n, res)
  BY DEF StatReturns
<1>3. given' = [given EXCEPT ![n] = "lister"] \/ given' = given
  BY DEF StatReturns
<1>4. given' \in [Packets -> Objects] /\ \A m \in Packets \ {n} : given'[m] = given[m]
  BY <1>3 DEF HandlesInv, ObjectsOK, Objects
<1>5. Fits(n, res)
  BY <1>1, Ranges, HandlerFits DEF HandleOps
<1>6. request[n].op \notin OpenOps /\ request[n].op # "close"
  BY <1>1 DEF OpenOps
<1> QED BY <1>1, <1>2, <1>4, <1>5, <1>6, AnswerInv

LEMMA NextRequestInv ==
  ASSUME HandlesInv, NEW n \in Packets, NextRequest(n)
  PROVE  HandlesInv'
<1> DEFINE h == handleCount + 1
<1>1. /\ n \in begun \ finished /\ request[n].op \in OpenOps /\ stage[n] = "idle"
      /\ handleCount' = h /\ handle' = [handle EXCEPT ![n] = h]
      /\ openRequests' = [openRequests EXCEPT ![h] = n] /\ stage' = [stage EXCEPT ![n] = "opening"]
      /\ UNCHANGED vars
      /\ UNCHANGED <<request, inputEnded, object, target, result, served, given, closed>>
  BY DEF NextRequest, Serving, stateVars, historyVars
<1>2. PipeOK' /\ UNCHANGED <<arrived, begun, finished>> /\ Arrived' = Arrived
  BY <1>1, PipeStutter DEF HandlesInv, vars, Arrived
<1>3. handle[n] = 0 /\ result[n] = "pending" /\ n \in Arrived
  BY <1>1, Ranges DEF HandlesInv, StagesOK, StageOK
<1>4. /\ h \in Packets /\ openRequests[h] = 0 /\ h # 0 /\ h \in Nat /\ h > handleCount
      /\ handleCount \in Nat /\ \A m \in Packets : handle[m] # h
      /\ Cardinality({m \in Packets : handle[m] # 0} \cup {n}) = h
  <2>1. handleCount \in Nat
    BY DEF HandlesInv, TableOK
  <2>2. /\ h \in Packets /\ openRequests[h] = 0 /\ \A m \in Packets : handle[m] # h
        /\ Cardinality({m \in Packets : handle[m] # 0} \cup {n}) = h
    BY <1>3, NewHandle
  <2> QED BY <2>1, <2>2
<1> HIDE DEF h
<1>5. /\ handle'[n] = h /\ openRequests'[h] = n /\ stage'[n] = "opening"
      /\ \A m \in Packets \ {n} : handle'[m] = handle[m] /\ stage'[m] = stage[m]
      /\ \A i \in Packets \ {h} : openRequests'[i] = openRequests[i]
  BY <1>1, <1>4 DEF HandlesInv, TableOK, StagesOK, StageOK
<1>6. RequestsOK'
  BY <1>1, <1>2 DEF HandlesInv, RequestsOK
<1>7. TableOK'
  <2>1. handleCount' \in Nat /\ handle' \in [Packets -> Nat]
    BY <1>1, <1>4 DEF HandlesInv, TableOK
  <2>2. openRequests' \in [Packets -> Packets \cup {0}]
    BY <1>1, <1>4 DEF HandlesInv, TableOK
  <2>3. {m \in Packets : handle'[m] # 0} = {m \in Packets : handle[m] # 0} \cup {n}
    BY <1>4, <1>5
  <2>4. handleCount' = Cardinality({m \in Packets : handle'[m] # 0})
    BY <1>1, <1>4, <2>3
  <2>5. \A m \in Packets : handle'[m] <= handleCount'
    BY <1>1, <1>4, <1>5 DEF HandlesInv, TableOK
  <2>6. \A m, k \in Packets : handle'[m] = handle'[k] /\ handle'[m] # 0 => m = k
    BY <1>4, <1>5 DEF HandlesInv, TableOK
  <2>7. \A i \in Packets : openRequests'[i] # 0 => handle'[openRequests'[i]] = i
    <3>1. \A i \in Packets \ {h} : openRequests[i] # 0 =>
             openRequests[i] \in Packets \ {n} /\ handle[openRequests[i]] = i
      BY <1>3, Ranges DEF HandlesInv, TableOK
    <3>2. \A i \in Packets \ {h} : openRequests'[i] # 0 => handle'[openRequests'[i]] = i
      BY <1>5, <3>1
    <3>3. handle'[openRequests'[h]] = h
      BY <1>5
    <3> QED BY <3>2, <3>3
  <2> QED BY <2>1, <2>2, <2>4, <2>5, <2>6, <2>7 DEF TableOK
<1>8. StagesOK'
  <2>1. stage' \in [Packets -> {"idle", "opening", "call", "reading", "writing", "listing", "done"}]
    BY <1>1 DEF HandlesInv, StagesOK, StageOK
  <2>2. \A i \in Packets \ {h} : openRequests[i] # 0 => openRequests[i] \in Packets \ {n}
    BY <1>3, Ranges DEF HandlesInv, TableOK
  <2>3. \A i \in Packets : openRequests'[i] # 0 =>
          stage'[openRequests'[i]] = "opening" \/ result'[openRequests'[i]] = "handle"
    BY <1>1, <1>4, <1>5, <2>2 DEF HandlesInv, StagesOK, StageOK
  <2>4. \A m \in Packets \ {n} : handle[m] # 0 => handle[m] # h
    BY <1>4
  <2>5. \A m \in Packets \ {n} : stage[m] = "opening" =>
          handle'[m] # 0 /\ openRequests'[handle'[m]] = m
    <3> SUFFICES ASSUME NEW m \in Packets \ {n}, stage[m] = "opening"
                 PROVE  handle'[m] # 0 /\ openRequests'[handle'[m]] = m
      OBVIOUS
    <3>1. handle[m] # 0 /\ openRequests[handle[m]] = m /\ handle[m] # h
      BY <1>4 DEF HandlesInv, StagesOK, StageOK
    <3>2. openRequests'[handle[m]] = openRequests[handle[m]]
      BY <1>1, <3>1 DEF HandlesInv, TableOK
    <3> QED BY <1>5, <3>1, <3>2
  <2>6. target[n] = 0
    BY <1>1 DEF HandlesInv, StagesOK, StageOK
  <2>7. \A m \in Packets \ {n} : StageOK(m)'
    BY <1>1, <1>2, <1>5, <2>5 DEF HandlesInv, StagesOK, StageOK, InHandler
  <2>8. StageOK(n)'
    BY <1>1, <1>2, <1>3, <1>4, <1>5, <2>6 DEF StageOK, InHandler
  <2>9. /\ target' \in [Packets -> Packets \cup {0}]
        /\ result' \in [Packets -> {"pending", "handle", "read", "wrote", "names", "eof", "attrs",
                                    "closed", "failed", "unexpected", "badHandle"}]
    BY <1>1 DEF HandlesInv, StagesOK
  <2> QED BY <2>1, <2>3, <2>7, <2>8, <2>9 DEF StagesOK
<1>9. \A p \in Packets : result[p] = "handle" =>
        p # n /\ handle'[p] = handle[p] /\ openRequests'[handle[p]] = openRequests[handle[p]]
  <2> SUFFICES ASSUME NEW p \in Packets, result[p] = "handle"
               PROVE  p # n /\ handle'[p] = handle[p]
                      /\ openRequests'[handle[p]] = openRequests[handle[p]]
    OBVIOUS
  <2>1. p # n /\ handle[p] \in Packets /\ handle[p] # h
    BY <1>3, <1>4, Opened
  <2> QED BY <1>5, <2>1
<1>10. ObjectsOK'
  <2>1. Openers' = Openers /\ \A p \in Openers : p \in Packets
    BY <1>1, <1>2, Ranges DEF Openers
  <2>2. \A p \in Openers \cap finished :
       \/ result'[p] = "failed" /\ given'[p] = "none" /\ closed'[p] = 0
       \/ /\ result'[p] = "handle" /\ given'[p] # "none"
          /\ openRequests'[handle'[p]] = p => closed'[p] = 0 /\ object'[p] = given'[p]
          /\ openRequests'[handle'[p]] # p => closed'[p] = 1
    BY <1>1, <1>9, <2>1 DEF HandlesInv, ObjectsOK
  <2> QED BY <1>1, <1>2, <2>1, <2>2 DEF HandlesInv, ObjectsOK
<1>11. ServedOK'
  BY <1>1, NotServed DEF ServedOK
<1>12. ClosesOK'
  <2>1. \A c \in finished : request[c].op = "close" =>
          request[c].on \in Packets /\ result[request[c].on] = "handle"
    BY Ranges DEF HandlesInv, RequestsOK, HandleOps
  <2> QED BY <1>1, <1>2, <1>9, <2>1 DEF HandlesInv, ClosesOK
<1>13. BarriersOK'
  <2>1. \A m \in Arrived : ClosesBefore(m)' = ClosesBefore(m)
    BY <1>1 DEF ClosesBefore
  <2>2. \A m \in Arrived : stage'[m] = "call" => stage[m] = "call"
    BY <1>5, Ranges
  <2> QED BY <1>1, <1>2, <2>1, <2>2 DEF HandlesInv, BarriersOK
<1> QED BY <1>2, <1>6, <1>7, <1>8, <1>10, <1>11, <1>12, <1>13 DEF HandlesInv

LEMMA OpenSucceedsInv ==
  ASSUME HandlesInv, NEW n \in Packets, OpenSucceeds(n)
  PROVE  HandlesInv'
<1> DEFINE obj == ObjectFor(request[n].op)
<1> USE DEF tableVars, Responded
<1>1. /\ request[n].op \in OpenOps /\ stage[n] = "opening" /\ Respond(n, "handle")
      /\ given' = [given EXCEPT ![n] = obj] /\ object' = [object EXCEPT ![n] = obj]
      /\ UNCHANGED <<request, inputEnded, tableVars, target, served, closed>>
  BY DEF OpenSucceeds, Serving
<1>2. Responded(n, "handle")
  BY <1>1, Responds
<1>3. obj \in Objects \ {"none"}
  <2>1. OpenFileWriter \in BOOLEAN
    BY HandlersAssumption
  <2>2. CASE request[n].op = "openRead"
    BY <2>2 DEF ObjectFor, Objects
  <2>3. CASE request[n].op = "openWrite"
    BY <2>3 DEF ObjectFor, Objects
  <2>4. CASE request[n].op = "openBoth"
    BY <2>1, <2>4 DEF ObjectFor, Objects
  <2>5. CASE request[n].op = "opendir"
    BY <2>5 DEF ObjectFor, Objects
  <2> QED BY <1>1, <2>2, <2>3, <2>4, <2>5 DEF OpenOps
<1> HIDE DEF obj
<1>4. n \in Arrived /\ Arrived \subseteq Packets /\ n \in Openers
  BY <1>1, <1>2, Ranges DEF Openers
<1>5. handle[n] # 0 /\ openRequests[handle[n]] = n
  BY <1>1 DEF HandlesInv, StagesOK, StageOK
<1>6. TableOK'
  BY <1>1 DEF HandlesInv, TableOK
<1>7. StagesOK'
  <2>1. \A h \in Packets : openRequests[h] \in Packets \cup {0}
    BY DEF HandlesInv, TableOK
  <2>2. \A h \in Packets : openRequests'[h] # 0 =>
          stage'[openRequests'[h]] = "opening" \/ result'[openRequests'[h]] = "handle"
    BY <1>1, <1>2, <2>1 DEF HandlesInv, StagesOK, StageOK
  <2>3. \A m \in Packets : StageOK(m)'
    BY <1>1, <1>2, <1>5 DEF HandlesInv, StagesOK, StageOK, InHandler
  <2>4. target' \in [Packets -> Packets \cup {0}]
    BY <1>1 DEF HandlesInv, StagesOK, StageOK
  <2> QED BY <1>2, <2>2, <2>3, <2>4 DEF StagesOK, StageOK
<1>8. /\ given' \in [Packets -> Objects] /\ object' \in [Packets -> Objects]
      /\ given'[n] = obj /\ object'[n] = obj
      /\ \A m \in Packets \ {n} : given'[m] = given[m] /\ object'[m] = object[m]
  BY <1>1, <1>3 DEF HandlesInv, ObjectsOK
<1>9. ObjectsOK'
  <2>1. Openers' = Openers
    BY <1>1, <1>2 DEF Openers
  <2>2. \A m \in Packets \ finished' : given'[m] = "none" /\ closed'[m] = 0
    BY <1>1, <1>2, <1>8 DEF HandlesInv, ObjectsOK
  <2>3. \A m \in (Openers \cap finished) \ {n} :
          \/ result'[m] = "failed" /\ given'[m] = "none" /\ closed'[m] = 0
          \/ /\ result'[m] = "handle" /\ given'[m] # "none"
             /\ openRequests'[handle'[m]] = m => closed'[m] = 0 /\ object'[m] = given'[m]
             /\ openRequests'[handle'[m]] # m => closed'[m] = 1
    <3> SUFFICES ASSUME NEW m \in (Openers \cap finished) \ {n}
                 PROVE  \/ result'[m] = "failed" /\ given'[m] = "none" /\ closed'[m] = 0
                        \/ /\ result'[m] = "handle" /\ given'[m] # "none"
                           /\ openRequests'[handle'[m]] = m =>
                                closed'[m] = 0 /\ object'[m] = given'[m]
                           /\ openRequests'[handle'[m]] # m => closed'[m] = 1
      OBVIOUS
    <3>1. m \in Packets \ {n}
      BY <1>4, Ranges
    <3>2. /\ result'[m] = result[m] /\ given'[m] = given[m] /\ object'[m] = object[m]
          /\ UNCHANGED <<closed, handle, openRequests>>
      BY <1>1, <1>2, <1>8, <3>1
    <3> QED BY <3>2 DEF HandlesInv, ObjectsOK
  <2>4. closed[n] = 0
    BY <1>2 DEF HandlesInv, ObjectsOK
  <2>5. /\ result'[n] = "handle" /\ given'[n] # "none"
        /\ openRequests'[handle'[n]] = n => closed'[n] = 0 /\ object'[n] = given'[n]
        /\ openRequests'[handle'[n]] = n
    BY <1>1, <1>2, <1>3, <1>5, <1>8, <2>4
  <2>6. closed' \in [Packets -> Nat]
    BY <1>1 DEF HandlesInv, ObjectsOK
  <2> QED BY <1>2, <1>8, <2>1, <2>2, <2>3, <2>5, <2>6 DEF ObjectsOK
<1>10. ServedOK'
  BY <1>1, <1>2, NotServed DEF ServedOK
<1>11. ClosesOK'
  <2>1. request[n].op # "close"
    BY <1>1 DEF OpenOps
  <2> QED BY <1>1, <1>2, <1>5, <2>1 DEF HandlesInv, ClosesOK
<1>12. BarriersOK'
  <2>1. request[n].op \notin HandleOps /\ request[n].op # "close"
    BY <1>1 DEF HandleOps, OpenOps
  <2>2. Fits(n, "handle")
    BY <1>4, <2>1, HandlerFits
  <2> QED BY <1>1, <1>2, <1>4, <2>1, <2>2 DEF HandlesInv, BarriersOK, Fits
<1> QED BY <1>2, <1>6, <1>7, <1>9, <1>10, <1>11, <1>12 DEF HandlesInv

LEMMA OpenFailsInv ==
  ASSUME HandlesInv, NEW n \in Packets, OpenFails(n)
  PROVE  HandlesInv'
<1> DEFINE h == handle[n]
<1> USE DEF Responded
<1>1. /\ request[n].op \in OpenOps /\ stage[n] = "opening" /\ Respond(n, "failed")
      /\ openRequests' = [openRequests EXCEPT ![h] = 0]
      /\ UNCHANGED <<request, inputEnded, handleCount, handle, object, target, served, given, closed>>
  BY DEF OpenFails, Serving, stateVars, historyVars
<1>2. Responded(n, "failed")
  BY <1>1, Responds
<1>3. h # 0 /\ openRequests[h] = n /\ h \in Packets /\ n \in Arrived /\ Arrived \subseteq Packets
  BY <1>1, <1>2, OpenFor, Ranges DEF HandlesInv, StagesOK, StageOK
<1>4. /\ openRequests' \in [Packets -> Packets \cup {0}] /\ openRequests'[h] = 0
      /\ \A i \in Packets \ {h} : openRequests'[i] = openRequests[i]
      /\ \A i \in Packets \ {h} : openRequests[i] # n
      /\ \A m \in Packets \ {n} : handle[m] # h
  BY <1>1, <1>3, Ranges DEF HandlesInv, TableOK
<1> HIDE DEF h
<1>5. TableOK'
  BY <1>1, <1>3, <1>4 DEF HandlesInv, TableOK
<1>6. StagesOK'
  <2>1. \A m \in Packets \ {n} : StageOK(m)'
    <3> SUFFICES ASSUME NEW m \in Packets \ {n}
                 PROVE  StageOK(m)'
      OBVIOUS
    <3>1. stage[m] = "opening" => openRequests'[handle[m]] = m
      BY <1>3, <1>4, OpenFor DEF HandlesInv, StagesOK, StageOK
    <3> QED BY <1>1, <1>2, <3>1 DEF HandlesInv, StagesOK, StageOK, InHandler
  <2>2. StageOK(n)'
    BY <1>1, <1>2 DEF HandlesInv, StagesOK, StageOK, InHandler
  <2>3. \A i \in Packets : openRequests'[i] # 0 =>
          stage'[openRequests'[i]] = "opening" \/ result'[openRequests'[i]] = "handle"
    BY <1>2, <1>4 DEF HandlesInv, StagesOK
  <2>4. target' \in [Packets -> Packets \cup {0}]
    BY <1>1 DEF HandlesInv, StagesOK
  <2> QED BY <1>2, <2>1, <2>2, <2>3, <2>4 DEF StagesOK
<1>7. \A p \in Packets : result[p] = "handle" =>
        p # n /\ openRequests'[handle[p]] = openRequests[handle[p]]
  BY <1>2, <1>4, Opened
<1>8. ObjectsOK'
  <2>1. Openers' = Openers
    BY <1>1, <1>2 DEF Openers
  <2>2. \A m \in Openers \cap finished : m \in Packets \ {n}
    BY <1>2, Ranges
  <2>3. \A m \in Openers \cap finished :
          \/ result'[m] = "failed" /\ given'[m] = "none" /\ closed'[m] = 0
          \/ /\ result'[m] = "handle" /\ given'[m] # "none"
             /\ openRequests'[handle'[m]] = m => closed'[m] = 0 /\ object'[m] = given'[m]
             /\ openRequests'[handle'[m]] # m => closed'[m] = 1
    BY <1>1, <1>2, <1>7, <2>2 DEF HandlesInv, ObjectsOK
  <2>4. result'[n] = "failed" /\ given'[n] = "none" /\ closed'[n] = 0
    BY <1>1, <1>2 DEF HandlesInv, ObjectsOK
  <2> QED BY <1>1, <1>2, <2>1, <2>3, <2>4 DEF HandlesInv, ObjectsOK
<1>9. ServedOK'
  BY <1>1, <1>2, NotServed DEF ServedOK
<1>10. ClosesOK'
  <2>1. \A c \in finished : request[c].op = "close" =>
          request[c].on \in Packets /\ result[request[c].on] = "handle"
    BY Ranges DEF HandlesInv, RequestsOK, HandleOps
  <2>2. request[n].op # "close"
    BY <1>1 DEF OpenOps
  <2> QED BY <1>1, <1>2, <1>7, <2>1, <2>2 DEF HandlesInv, ClosesOK
<1>11. BarriersOK'
  <2>1. request[n].op \notin HandleOps
    BY <1>1 DEF HandleOps, OpenOps
  <2>2. Fits(n, "failed")
    BY <1>3, <2>1, HandlerFits
  <2> QED BY <1>1, <1>2, <1>3, <2>1, <2>2 DEF HandlesInv, BarriersOK, Fits
<1> QED BY <1>2, <1>5, <1>6, <1>8, <1>9, <1>10, <1>11 DEF HandlesInv

LEMMA CloseRequestInv ==
  ASSUME HandlesInv, NEW n \in Packets, CloseRequest(n)
  PROVE  HandlesInv'
<1> DEFINE p == request[n].on
<1> DEFINE h == handle[p]
<1> USE DEF Responded
<1>1. /\ n \in begun \ finished /\ request[n].op = "close" /\ stage[n] = "idle"
      /\ UNCHANGED <<request, inputEnded, handleCount, handle, target, served, given>>
  BY DEF CloseRequest, Serving
<1>2. n \in Arrived /\ Arrived \subseteq Packets /\ request[n].op \in HandleOps /\ target[n] = 0
  BY <1>1, Ranges DEF HandleOps, HandlesInv, StagesOK, StageOK
<1>3. p \in Packets /\ result[p] = "handle"
  BY <1>2 DEF HandlesInv, RequestsOK
<1>4. p \in Openers \cap finished /\ h # 0 /\ h \in Packets /\ openRequests[h] \in {0, p} /\ p # 0
  BY <1>3, Opened, Ranges
<1>5. CASE openRequests[h] = 0
  <2>1. Respond(n, "badHandle") /\ UNCHANGED <<openRequests, object, closed>>
    BY <1>5 DEF CloseRequest
  <2>2. Fits(n, "badHandle")
    BY <1>1, <1>2, <1>4, <1>5, FindsOpen DEF Fits
  <2>3. given' \in [Packets -> Objects]
    BY <1>1 DEF HandlesInv, ObjectsOK
  <2>4. request[n].op \notin OpenOps
    BY <1>1 DEF OpenOps
  <2> QED BY <1>1, <1>5, <2>1, <2>2, <2>3, <2>4, AnswerInv DEF tableVars
<1>6. CASE openRequests[h] = p
  <2>1. /\ openRequests' = [openRequests EXCEPT ![h] = 0]
        /\ closed' = [closed EXCEPT ![p] = @ + (IF object[p] = "none" THEN 0 ELSE 1)]
        /\ object' = [object EXCEPT ![p] = AfterClose(@)]
        /\ Respond(n, "closed")
    BY <1>4, <1>6 DEF CloseRequest
  <2>2. Responded(n, "closed")
    BY <1>1, <2>1, Responds
  <2>3. Fits(n, "closed")
    BY <1>2, <1>4, <1>6, FindsClosed DEF Fits
  <2>4. /\ openRequests' \in [Packets -> Packets \cup {0}] /\ openRequests'[h] = 0
        /\ \A i \in Packets \ {h} : openRequests'[i] = openRequests[i]
        /\ \A m \in Packets \ {p} : handle[m] # h
    BY <1>3, <1>4, <2>1 DEF HandlesInv, TableOK
  <2>5. closed[p] = 0 /\ object[p] = given[p] /\ given[p] # "none"
    BY <1>3, <1>4, <1>6 DEF HandlesInv, ObjectsOK
  <2>6. /\ closed' \in [Packets -> Nat] /\ object' \in [Packets -> Objects] /\ closed'[p] = 1
        /\ \A m \in Packets \ {p} : closed'[m] = closed[m] /\ object'[m] = object[m]
    BY <1>3, <2>1, <2>5 DEF HandlesInv, ObjectsOK, AfterClose, Objects
  <2> HIDE DEF h, p
  <2>7. n # p /\ \A m \in Packets : result[m] # "handle" => result'[m] # "handle"
    BY <1>1, <1>4, <2>2
  <2>8. TableOK'
    BY <1>1, <1>4, <2>4 DEF HandlesInv, TableOK
  <2>9. StagesOK'
    <3>1. \A m \in Packets \ {n} : StageOK(m)'
      <4> SUFFICES ASSUME NEW m \in Packets \ {n}
                   PROVE  StageOK(m)'
        OBVIOUS
      <4>1. stage[m] = "opening" => m # p
        BY <1>3, <1>4 DEF HandlesInv, StagesOK, StageOK
      <4>2. stage[m] = "opening" => openRequests'[handle[m]] = m
        BY <2>4, <4>1, OpenFor DEF HandlesInv, StagesOK, StageOK
      <4> QED BY <1>1, <2>2, <4>2 DEF HandlesInv, StagesOK, StageOK, InHandler
    <3>2. StageOK(n)'
      BY <1>1, <1>2, <2>2 DEF HandlesInv, StagesOK, StageOK, InHandler, OpenOps
    <3>3. \A i \in Packets : openRequests'[i] # 0 =>
            stage'[openRequests'[i]] = "opening" \/ result'[openRequests'[i]] = "handle"
      <4>1. \A i \in Packets : openRequests[i] # n
        BY <1>1, <2>2, Ranges DEF HandlesInv, StagesOK
      <4> QED BY <2>2, <2>4, <4>1 DEF HandlesInv, StagesOK, TableOK
    <3>4. target' \in [Packets -> Packets \cup {0}]
      BY <1>1 DEF HandlesInv, StagesOK
    <3> QED BY <2>2, <3>1, <3>2, <3>3, <3>4 DEF StagesOK
  <2>10. \A m \in Packets \ {p} : result[m] = "handle" =>
           openRequests'[handle[m]] = openRequests[handle[m]]
    BY <2>4, Opened
  <2>11. ObjectsOK'
    <3>1. Openers' = Openers /\ n \notin Openers
      BY <1>1, <2>2 DEF Openers, OpenOps
    <3>2. \A m \in (Openers \cap finished) \ {p} : m \in Packets \ {n}
      BY <2>2, Ranges
    <3>3. \A m \in (Openers \cap finished) \ {p} :
          \/ result'[m] = "failed" /\ given'[m] = "none" /\ closed'[m] = 0
          \/ /\ result'[m] = "handle" /\ given'[m] # "none"
             /\ openRequests'[handle'[m]] = m => closed'[m] = 0 /\ object'[m] = given'[m]
             /\ openRequests'[handle'[m]] # m => closed'[m] = 1
      BY <1>1, <2>2, <2>6, <2>10, <3>2 DEF HandlesInv, ObjectsOK
    <3>4. result'[p] = "handle" /\ given'[p] # "none" /\ openRequests'[handle'[p]] # p /\ closed'[p] = 1
      BY <1>1, <1>3, <1>4, <2>2, <2>4, <2>5, <2>6, <2>7 DEF h
    <3>5. \A m \in Packets \ finished' : given'[m] = "none" /\ closed'[m] = 0
      BY <1>1, <1>4, <2>2, <2>6 DEF HandlesInv, ObjectsOK
    <3>6. given' \in [Packets -> Objects]
      BY <1>1 DEF HandlesInv, ObjectsOK
    <3> QED BY <2>2, <2>6, <3>1, <3>3, <3>4, <3>5, <3>6 DEF ObjectsOK
  <2>12. ServedOK'
    BY <1>1, NotServed DEF ServedOK
  <2>13. ClosesOK'
    <3>1. \A c \in finished : request[c].op = "close" =>
            request[c].on \in Packets /\ result[request[c].on] = "handle"
      BY Ranges DEF HandlesInv, RequestsOK, HandleOps
    <3>2. \A c \in finished' : request'[c].op = "close" => openRequests'[handle'[request'[c].on]] = 0
      BY <1>1, <1>4, <2>2, <2>4, <2>10, <3>1 DEF HandlesInv, ClosesOK, p, h
    <3>3. \A m \in Packets \ {p} : result'[m] = "handle" =>
            \/ served' \/ openRequests'[handle'[m]] = m
            \/ \E c \in finished' : request'[c].op = "close" /\ request'[c].on = m
      BY <1>1, <2>2, <2>7, <2>10 DEF HandlesInv, ClosesOK
    <3>4. \E c \in finished' : request'[c].op = "close" /\ request'[c].on = p
      BY <1>1, <2>2 DEF p
    <3> QED BY <3>2, <3>3, <3>4 DEF ClosesOK
  <2>14. BarriersOK'
    BY <1>1, <1>2, <2>2, <2>3 DEF HandlesInv, BarriersOK, Fits
  <2> QED BY <2>2, <2>8, <2>9, <2>11, <2>12, <2>13, <2>14 DEF HandlesInv
<1> QED BY <1>4, <1>5, <1>6

\* What Serve finds open at its end: the requests whose handle is still theirs.
LEMMA LeftOpen ==
  ASSUME HandlesInv, finished = Arrived, NEW p \in Packets
  PROVE  p \in StillOpen <=> result[p] = "handle" /\ openRequests[handle[p]] = p
<1>1. ASSUME p \in StillOpen
      PROVE  result[p] = "handle" /\ openRequests[handle[p]] = p
  <2>1. PICK h \in Packets : openRequests[h] = p /\ p # 0
    BY <1>1 DEF StillOpen
  <2>2. handle[p] = h
    BY <2>1 DEF HandlesInv, TableOK
  <2>3. stage[p] # "opening"
    BY Ranges DEF HandlesInv, StagesOK, StageOK
  <2> QED BY <2>1, <2>2, <2>3 DEF HandlesInv, StagesOK
<1>2. ASSUME result[p] = "handle", openRequests[handle[p]] = p
      PROVE  p \in StillOpen
  BY <1>2, Opened, Ranges DEF StillOpen
<1> QED BY <1>1, <1>2

LEMMA ServeReturnsInv ==
  ASSUME HandlesInv, ServeReturns
  PROVE  HandlesInv'
<1>1. /\ inputEnded /\ finished = Arrived /\ openRequests' = [h \in Packets |-> 0] /\ served'
      /\ UNCHANGED vars /\ UNCHANGED <<request, inputEnded, handleCount, handle, stage, target, result, given>>
      /\ closed' = [n \in Packets |-> IF n \in StillOpen /\ object[n] # "none" THEN closed[n] + 1
                                                                            ELSE closed[n]]
      /\ object' = [n \in Packets |-> IF n \in StillOpen THEN AfterClose(object[n]) ELSE object[n]]
  BY DEF ServeReturns, workerVars, Arrived
<1>2. PipeOK' /\ UNCHANGED <<arrived, begun, finished>> /\ Arrived' = Arrived
  BY <1>1, PipeStutter DEF HandlesInv, vars, Arrived
<1>3. RequestsOK'
  BY <1>1, <1>2 DEF HandlesInv, RequestsOK
<1>4. TableOK'
  BY <1>1 DEF HandlesInv, TableOK
<1>5. StagesOK'
  <2>1. \A m \in Packets : stage[m] # "opening"
    BY <1>1, Ranges DEF HandlesInv, StagesOK, StageOK
  <2> QED BY <1>1, <1>2, <2>1 DEF HandlesInv, StagesOK, StageOK, InHandler
<1>6. ObjectsOK'
  <2>1. closed' \in [Packets -> Nat] /\ object' \in [Packets -> Objects]
    <3>1. \A o \in Objects : AfterClose(o) \in Objects
      BY DEF AfterClose, Objects
    <3> QED BY <1>1, <3>1 DEF HandlesInv, ObjectsOK
  <2>2. \A p \in Packets : p \in StillOpen => result[p] = "handle" /\ openRequests[handle[p]] = p
    BY <1>1, LeftOpen
  <2>3. \A p \in Packets : result[p] = "handle" /\ openRequests[handle[p]] = p => p \in StillOpen
    BY <1>1, LeftOpen
  <2>4. Openers' = Openers
    BY <1>1, <1>2 DEF Openers
  <2>5. \A p \in Packets : ~ (p \in StillOpen) => closed'[p] = closed[p]
    BY <1>1
  <2>6. \A p \in Packets \ finished : given'[p] = "none" /\ closed'[p] = 0
    <3>1. \A p \in Packets \ finished : result[p] = "pending"
      BY DEF HandlesInv, StagesOK, StageOK
    <3> QED BY <1>1, <2>2, <2>5, <3>1 DEF HandlesInv, ObjectsOK
  <2>7. ASSUME NEW p \in Openers \cap finished
        PROVE  \/ result'[p] = "failed" /\ given'[p] = "none" /\ closed'[p] = 0
               \/ /\ result'[p] = "handle" /\ given'[p] # "none"
                  /\ openRequests'[handle'[p]] # p /\ closed'[p] = 1
    <3>1. p \in Packets
      BY Ranges
    <3>2. CASE result[p] = "failed"
      BY <1>1, <2>2, <2>5, <3>1, <3>2 DEF HandlesInv, ObjectsOK
    <3>3. CASE result[p] = "handle" /\ openRequests[handle[p]] = p
      <4>1. closed[p] = 0 /\ object[p] # "none" /\ given[p] # "none"
        BY <3>3 DEF HandlesInv, ObjectsOK
      <4>2. closed'[p] = 1
        BY <1>1, <2>3, <3>1, <3>3, <4>1
      <4>3. openRequests'[handle'[p]] # p
        BY <1>1, <3>1, <3>3, Opened, Ranges
      <4> QED BY <1>1, <3>3, <4>1, <4>2, <4>3
    <3>4. CASE result[p] = "handle" /\ openRequests[handle[p]] # p
      <4>1. closed'[p] = 1 /\ given[p] # "none"
        BY <2>2, <2>5, <3>1, <3>4 DEF HandlesInv, ObjectsOK
      <4>2. openRequests'[handle'[p]] # p
        BY <1>1, <3>1, <3>4, Opened, Ranges
      <4> QED BY <1>1, <3>4, <4>1, <4>2
    <3> QED BY <3>2, <3>3, <3>4 DEF HandlesInv, ObjectsOK
  <2>8. given' \in [Packets -> Objects]
    BY <1>1 DEF HandlesInv, ObjectsOK
  <2> QED BY <1>2, <2>1, <2>4, <2>6, <2>7, <2>8 DEF ObjectsOK
<1>7. ServedOK'
  BY <1>1, <1>2 DEF ServedOK
<1>8. ClosesOK'
  <2>1. \A c \in finished : request[c].op = "close" =>
          request[c].on \in Packets /\ result[request[c].on] = "handle"
    BY Ranges DEF HandlesInv, RequestsOK, HandleOps
  <2> QED BY <1>1, <1>2, <2>1, Opened DEF ClosesOK
<1>9. BarriersOK'
  <2>1. \A m \in Arrived : ClosesBefore(m)' = ClosesBefore(m)
    BY <1>1 DEF ClosesBefore
  <2> QED BY <1>1, <1>2, <2>1 DEF HandlesInv, BarriersOK
<1> QED BY <1>2, <1>3, <1>4, <1>5, <1>6, <1>7, <1>8, <1>9 DEF HandlesInv

LEMMA HandlesStep ==
  ASSUME HandlesInv, [HandlesNext]_allVars
  PROVE  HandlesInv'
<1>1. CASE ClientSends
  <2>1. CASE \E op \in Ops \ HandleOps : ReceiveRequest(op, 0)
    BY <2>1, ReceiveInv
  <2>2. CASE \E op \in Ops \cap HandleOps, on \in Known : ReceiveRequest(op, on)
    BY <2>2, ReceiveInv
  <2> QED BY <1>1, <2>1, <2>2 DEF ClientSends
<1>2. CASE ServeLoopReturns
  BY <1>2, InputEndsInv
<1>3. CASE SendReply
  BY <1>3, ReplyInv
<1>4. CASE \E n \in Packets : Serve(n)
  <2>1. PICK n \in Packets : Serve(n)
    BY <1>4
  <2>2. CASE Start(n)
    BY <2>2, StartInv
  <2>3. CASE NextRequest(n)
    BY <2>3, NextRequestInv
  <2>4. CASE OpenSucceeds(n)
    BY <2>4, OpenSucceedsInv
  <2>5. CASE OpenFails(n)
    BY <2>5, OpenFailsInv
  <2>6. CASE GetRequest(n)
    BY <2>6, GetRequestInv
  <2>7. CASE BadHandle(n)
    BY <2>7, BadHandleInv
  <2>8. CASE CallHandler(n)
    BY <2>8, CallHandlerInv
  <2>9. CASE CallUnexpected(n)
    BY <2>9, CallUnexpectedInv
  <2>10. CASE TransferReturns(n)
    BY <2>10, TransferReturnsInv
  <2>11. CASE ListReturns(n)
    BY <2>11, ListReturnsInv
  <2>12. CASE StatReturns(n)
    BY <2>12, StatReturnsInv
  <2>13. CASE CloseRequest(n)
    BY <2>13, CloseRequestInv
  <2> QED BY <2>1, <2>2, <2>3, <2>4, <2>5, <2>6, <2>7, <2>8, <2>9, <2>10, <2>11, <2>12, <2>13
          DEF Serve
<1>5. CASE ServeReturns
  BY <1>5, ServeReturnsInv
<1>6. CASE AllDone \/ UNCHANGED allVars
  BY <1>6, StutterInv DEF AllDone
<1> QED BY <1>1, <1>2, <1>3, <1>4, <1>5, <1>6 DEF HandlesNext

-----------------------------------------------------------------------------
(* The theorems.                                                           *)

\* What a RequestServer knows of its handles at every moment.
THEOREM HandlesInvariant == HandlesSpec => []HandlesInv
<1>1. HandlesInit => HandlesInv
  BY HandlesInitInv
<1>2. HandlesInv /\ [HandlesNext]_allVars => HandlesInv'
  BY HandlesStep
<1> QED BY <1>1, <1>2, PTL DEF HandlesSpec

\* Whatever the client does with its handles, the object a handler returned for an open
\* is closed at most once, and exactly once when Serve has returned.
THEOREM ObjectsAreClosedOnce == HandlesSpec => []ObjectsClosedOnce
<1>1. HandlesInv => ObjectsClosedOnce
  <2> SUFFICES ASSUME HandlesInv, NEW n \in Openers
               PROVE  /\ closed[n] <= (IF given[n] = "none" THEN 0 ELSE 1)
                      /\ served => given[n] = "none" \/ closed[n] = 1
    BY DEF ObjectsClosedOnce
  <2>1. n \in Arrived /\ n \in Packets
    BY Ranges DEF Openers
  <2>2. CASE n \notin finished
    BY <2>1, <2>2 DEF HandlesInv, ObjectsOK
  <2>3. CASE n \in finished /\ result[n] = "failed"
    BY <2>1, <2>3 DEF HandlesInv, ObjectsOK
  <2>4. CASE n \in finished /\ result[n] = "handle"
    <3>1. served => openRequests[handle[n]] # n
      BY <2>1, <2>4, Opened, Ranges DEF HandlesInv, ServedOK
    <3> QED BY <2>1, <2>4, <3>1 DEF HandlesInv, ObjectsOK
  <2> QED BY <2>1, <2>2, <2>3, <2>4 DEF HandlesInv, ObjectsOK
<1> QED BY <1>1, HandlesInvariant, PTL

\* A close is a barrier: what came before it on the handle finds the object open until
\* it is answered, and what the client sends after the reply reaches no handler.
THEOREM ClosesSeparate == HandlesSpec => []ClosesAreBarriers
<1>1. HandlesInv => ClosesAreBarriers
  <2> SUFFICES ASSUME HandlesInv
               PROVE  ClosesAreBarriers
    OBVIOUS
  <2>1. ASSUME NEW m \in Arrived, request[m].op \in HandleOps, ClosesBefore(m) = {}
        PROVE  result[m] # "badHandle" /\ (InHandler(m) => closed[target[m]] = 0)
    <3>1. result[m] # "badHandle"
      BY <2>1 DEF HandlesInv, BarriersOK
    <3>2. ASSUME InHandler(m)
          PROVE  closed[target[m]] = 0
      <4>1. m \in begun \ finished /\ target[m] = request[m].on
        BY <3>2, Ranges DEF HandlesInv, StagesOK, StageOK, InHandler
      <4>2. openRequests[handle[request[m].on]] = request[m].on
        BY <2>1, <4>1, FindsOpen
      <4>3. request[m].on \in Openers \cap finished
        BY <2>1, Opened DEF HandlesInv, RequestsOK
      <4> QED BY <4>1, <4>2, <4>3 DEF HandlesInv, ObjectsOK
    <3> QED BY <3>1, <3>2
  <2>2. ASSUME NEW m \in Arrived, \E n \in ClosesBefore(m) : n <= request[m].seen
        PROVE  ~ InHandler(m) /\ result[m] \in {"pending", "badHandle"}
    BY <2>2, Ranges DEF HandlesInv, BarriersOK, StagesOK, StageOK
  <2> QED BY <2>1, <2>2 DEF ClosesAreBarriers
<1> QED BY <1>1, HandlesInvariant, PTL

\* A handle is never that of another open, and no open that failed has one.
THEOREM HandlesAreTheirOpens == HandlesSpec => []HandlesNameTheirOpen
<1>1. HandlesInv => HandlesNameTheirOpen
  <2> SUFFICES ASSUME HandlesInv
               PROVE  HandlesNameTheirOpen
    OBVIOUS
  <2>1. \A m \in Arrived : target[m] \in {0, request[m].on}
    BY Ranges DEF HandlesInv, StagesOK, StageOK
  <2>2. ASSUME NEW n \in Openers, result[n] = "failed", n \in StillOpen
        PROVE  FALSE
    <3>1. n \in Packets
      BY Ranges DEF Openers
    <3>2. stage[n] = "opening"
      BY <2>2 DEF HandlesInv, StagesOK, StillOpen
    <3> QED BY <2>2, <3>1, <3>2 DEF HandlesInv, StagesOK, StageOK
  <2> QED BY <2>1, <2>2 DEF HandlesNameTheirOpen
<1> QED BY <1>1, HandlesInvariant, PTL

\* The requests go through the pipeline as OrderedReplies allows.
THEOREM HandlesKeepOrder == HandlesSpec => Spec
<1>1. HandlesInit => Init
  BY DEF HandlesInit
<1>2. HandlesInv /\ [HandlesNext]_allVars => [Next]_vars
  <2> SUFFICES ASSUME HandlesInv, [HandlesNext]_allVars
               PROVE  [Next]_vars
    OBVIOUS
  <2>1. \A op : KindOf(op) \in Kinds
    BY DEF KindOf, Kinds
  <2>2. CASE ClientSends
    BY <2>1, <2>2 DEF ClientSends, ReceiveRequest, Next
  <2>3. CASE ServeLoopReturns \/ SendReply \/ ServeReturns \/ AllDone \/ UNCHANGED allVars
    BY <2>3 DEF ServeLoopReturns, SendReply, ServeReturns, AllDone, allVars, Next
  <2>4. CASE \E n \in Packets : Serve(n)
    <3>1. PICK n \in Packets : Serve(n)
      BY <2>4
    <3>2. \A res : Respond(n, res) => Next
      BY Ranges DEF Respond, Finish, Next, Arrived
    <3>3. CASE Start(n)
      BY <3>3 DEF Start, Begin, Next
    <3>4. CASE NextRequest(n) \/ GetRequest(n) \/ CallHandler(n)
      BY <3>4 DEF NextRequest, GetRequest, CallHandler
    <3>5. CASE OpenSucceeds(n) \/ OpenFails(n) \/ BadHandle(n) \/ CallUnexpected(n)
      BY <3>2, <3>5 DEF OpenSucceeds, OpenFails, BadHandle, CallUnexpected
    <3>6. CASE TransferReturns(n) \/ ListReturns(n) \/ StatReturns(n) \/ CloseRequest(n)
      BY <3>2, <3>6 DEF TransferReturns, ListReturns, StatReturns, CloseRequest
    <3> QED BY <3>1, <3>3, <3>4, <3>5, <3>6 DEF Serve
  <2> QED BY <2>2, <2>3, <2>4 DEF HandlesNext
<1> QED BY <1>1, <1>2, HandlesInvariant, PTL DEF HandlesSpec, Spec

-----------------------------------------------------------------------------
(* Who is told of the error of Serve.                                      *)

Transfers == {"reader", "writer", "both"}

ToldOK ==
  /\ ~ served => \A n \in Packets : ~ told[n]
  /\ served => \A n \in Openers :
       told[n] <=> /\ given[n] \in Transfers
                   /\ \A m \in Arrived : request[m].op = "close" => request[m].on # n

\* When Serve has returned nothing happens any more but the sending of replies.
LEMMA ServedIsLast ==
  ASSUME HandlesInv, served, [HandlesNext]_allVars
  PROVE  UNCHANGED <<arrived, request, given, told, served>>
<1>1. inputEnded /\ finished = Arrived /\ begun = Arrived
  BY Ranges DEF HandlesInv, ServedOK
<1>2. CASE ClientSends
  BY <1>1, <1>2 DEF ClientSends, ReceiveRequest
<1>3. CASE ServeLoopReturns
  BY <1>1, <1>3 DEF ServeLoopReturns
<1>4. CASE SendReply
  BY <1>4 DEF SendReply, Reply, handleVars, historyVars
<1>5. CASE \E n \in Packets : Serve(n)
  <2>1. PICK n \in Packets : Serve(n)
    BY <1>5
  <2>2. \A res : ~ Respond(n, res)
    BY <1>1 DEF Respond, Finish
  <2>3. \A ops, at : ~ Serving(n, ops, at)
    BY <1>1 DEF Serving
  <2>4. ~ Start(n)
    BY <1>1 DEF Start, Begin, Arrived
  <2> QED BY <2>1, <2>2, <2>3, <2>4
          DEF Serve, NextRequest, OpenSucceeds, OpenFails, GetRequest, BadHandle, CallHandler,
              CallUnexpected, UsesObject, TransferReturns, ListReturns, StatReturns, CloseRequest
<1>6. CASE ServeReturns
  BY <1>6 DEF ServeReturns
<1>7. CASE AllDone \/ UNCHANGED allVars
  BY <1>7 DEF AllDone, allVars, vars, handleVars, historyVars
<1> QED BY <1>2, <1>3, <1>4, <1>5, <1>6, <1>7 DEF HandlesNext

LEMMA ServeReturnsTells ==
  ASSUME HandlesInv, ServeReturns
  PROVE  ToldOK'
<1>1. /\ finished = Arrived /\ ~ served /\ served' /\ Arrived' = Arrived /\ Openers' = Openers
      /\ UNCHANGED <<request, given>>
      /\ told' = [n \in Packets |-> n \in StillOpen /\ object[n] \in Transfers]
  BY DEF ServeReturns, Arrived, Openers, vars, Transfers
<1>2. ASSUME NEW n \in Openers
      PROVE  told'[n] <=> /\ given[n] \in Transfers
                          /\ \A m \in Arrived : request[m].op = "close" => request[m].on # n
  <2>1. n \in Packets /\ n \in Openers \cap finished /\ told'[n] = (n \in StillOpen /\ object[n] \in Transfers)
    BY <1>1, Ranges DEF Openers
  <2>2. CASE result[n] = "failed" /\ given[n] = "none"
    BY <1>1, <2>1, <2>2, LeftOpen DEF Transfers
  <2>3. CASE result[n] = "handle" /\ openRequests[handle[n]] = n
    <3>1. object[n] = given[n] /\ n \in StillOpen
      BY <1>1, <2>1, <2>3, LeftOpen DEF HandlesInv, ObjectsOK
    <3>2. \A m \in Arrived : request[m].op = "close" => request[m].on # n
      BY <1>1, <2>1, <2>3, Ranges DEF HandlesInv, ClosesOK
    <3> QED BY <2>1, <3>1, <3>2
  <2>4. CASE result[n] = "handle" /\ openRequests[handle[n]] # n
    <3>1. n \notin StillOpen
      BY <1>1, <2>1, <2>4, LeftOpen
    <3>2. \E c \in Arrived : request[c].op = "close" /\ request[c].on = n
      BY <1>1, <2>1, <2>4 DEF HandlesInv, ClosesOK
    <3> QED BY <2>1, <3>1, <3>2
  <2> QED BY <2>1, <2>2, <2>3, <2>4 DEF HandlesInv, ObjectsOK
<1> QED BY <1>1, <1>2 DEF ToldOK

LEMMA ToldStep ==
  ASSUME HandlesInv, ToldOK, [HandlesNext]_allVars
  PROVE  ToldOK'
<1>1. CASE served
  <2>1. UNCHANGED <<arrived, request, given, told, served>>
    BY <1>1, ServedIsLast
  <2>2. Openers' = Openers /\ Arrived' = Arrived
    BY <2>1 DEF Openers, Arrived
  <2> QED BY <2>1, <2>2 DEF ToldOK
<1>2. CASE ServeReturns
  BY <1>2, ServeReturnsTells
<1>3. CASE ~ served /\ ~ ServeReturns
  <2>1. UNCHANGED <<told, served>>
    <3>1. CASE \E n \in Packets : Serve(n)
      <4>1. PICK n \in Packets : Serve(n)
        BY <3>1
      <4>2. CASE \/ Start(n) \/ NextRequest(n) \/ OpenSucceeds(n) \/ OpenFails(n) \/ GetRequest(n)
                 \/ BadHandle(n)
        BY <4>2 DEF Start, NextRequest, OpenSucceeds, OpenFails, GetRequest, BadHandle, handleVars,
                    historyVars
      <4>3. CASE \/ CallHandler(n) \/ CallUnexpected(n) \/ TransferReturns(n) \/ ListReturns(n)
                 \/ StatReturns(n) \/ CloseRequest(n)
        BY <4>3 DEF CallHandler, CallUnexpected, TransferReturns, ListReturns, StatReturns,
                    CloseRequest, historyVars
      <4> QED BY <4>1, <4>2, <4>3 DEF Serve
    <3>2. CASE ClientSends \/ ServeLoopReturns \/ SendReply \/ AllDone \/ UNCHANGED allVars
      BY <3>2 DEF ClientSends, ReceiveRequest, ServeLoopReturns, SendReply, AllDone, allVars,
                  handleVars, historyVars
    <3> QED BY <1>3, <3>1, <3>2 DEF HandlesNext
  <2> QED BY <1>3, <2>1 DEF ToldOK
<1> QED BY <1>1, <1>2, <1>3

\* At the end of Serve, a reader or writer is told of its error exactly when the client
\* has not closed it.
THEOREM LeftOpenTold == HandlesSpec => []LeftOpenAreTold
<1>1. HandlesInit => ToldOK
  BY DEF HandlesInit, ToldOK
<1>2. HandlesInv /\ ToldOK /\ [HandlesNext]_allVars => ToldOK'
  BY ToldStep
<1>3. HandlesInv /\ ToldOK => LeftOpenAreTold
  <2> SUFFICES ASSUME HandlesInv, ToldOK, NEW n \in Openers
               PROVE  told[n] <=> /\ served /\ given[n] \in {"reader", "writer", "both"}
                                  /\ \A m \in Arrived : request[m].op = "close" => request[m].on # n
    BY DEF LeftOpenAreTold
  <2>1. n \in Packets
    BY Ranges DEF Openers
  <2> QED BY <2>1 DEF ToldOK, Transfers
<1> QED BY <1>1, <1>2, <1>3, HandlesInvariant, PTL DEF HandlesSpec

-----------------------------------------------------------------------------
(* Listings.                                                               *)

\* The client has used the handle for listing only, and no listing has failed.
OnlyListed(n) ==
  \A m \in Arrived : request[m].on = n =>
    request[m].op \in {"readdir", "close"} /\ result[m] # "failed"

\* What was sent of a directory is its beginning, a handler that lists it goes on where
\* the last one ended, and an end that was sent is its end.
ListedOK(n) ==
  /\ listed[n] = Entries(0, lsoffset[n]) /\ lsoffset[n] <= DirSize
  /\ \A m \in Arrived : request[m].on = n =>
       /\ stage[m] = "listing" => offset[m] = lsoffset[n]
       /\ result[m] = "eof" => lsoffset[n] = DirSize

ListingInv ==
  /\ lsoffset \in [Packets -> Nat] /\ offset \in [Packets -> Nat]
  /\ listed \in [Packets -> Seq(Nat)]
  /\ \A n \in Packets : OnlyListed(n) => ListedOK(n)

LEMMA EntriesAppended ==
  ASSUME NEW m \in Nat, NEW k \in Nat
  PROVE  /\ Entries(0, m) \o Entries(m, k) = Entries(0, m + k)
         /\ Entries(0, m) \in Seq(Nat) /\ Entries(m, k) \in Seq(Nat)
<1>1. /\ Entries(0, m) \in Seq(Nat) /\ Entries(m, k) \in Seq(Nat) /\ Entries(0, m + k) \in Seq(Nat)
      /\ Len(Entries(0, m)) = m /\ Len(Entries(m, k)) = k /\ Len(Entries(0, m + k)) = m + k
      /\ \A i \in 1..m : Entries(0, m)[i] = i
      /\ \A i \in 1..k : Entries(m, k)[i] = m + i
      /\ \A i \in 1..(m + k) : Entries(0, m + k)[i] = i
  BY DEF Entries
<1> DEFINE a == Entries(0, m)
<1> DEFINE b == Entries(m, k)
<1> DEFINE t == a \o b
<1>2. /\ t \in Seq(Nat) /\ Len(t) = m + k
      /\ \A i \in 1..Len(t) : t[i] = IF i <= m THEN a[i] ELSE b[i - m]
  <2> HIDE DEF a, b
  <2>1. a \in Seq(Nat) /\ b \in Seq(Nat) /\ Len(a) = m /\ Len(b) = k
    BY <1>1 DEF a, b
  <2> QED BY <2>1
<1>3. \A i \in 1..(m + k) : t[i] = i
  <2> HIDE DEF t
  <2> TAKE i \in 1..(m + k)
  <2>1. CASE i <= m
    <3>1. t[i] = a[i] /\ i \in 1..m
      BY <1>2, <2>1
    <3> QED BY <1>1, <3>1
  <2>2. CASE i > m
    <3>1. i - m \in 1..k /\ t[i] = Entries(m, k)[i - m]
      BY <1>2, <2>2
    <3>2. Entries(m, k)[i - m] = m + (i - m)
      BY <1>1, <3>1
    <3> QED BY <3>1, <3>2
  <2> QED BY <2>1, <2>2
<1> HIDE DEF t
<1>4. t = [i \in 1..(m + k) |-> i]
  <2>1. t = [i \in 1..Len(t) |-> t[i]]
    BY <1>2
  <2> QED BY <1>2, <1>3, <2>1
<1>5. Entries(0, m + k) = [i \in 1..(m + k) |-> i]
  BY DEF Entries
<1> QED BY <1>1, <1>4, <1>5 DEF t

\* Nothing is forgotten: requests and answers stay what they are.
Stay ==
  /\ Arrived \subseteq Arrived' /\ \A m \in Arrived : request'[m] = request[m]
  /\ \A m \in Arrived : result[m] # "pending" => result'[m] = result[m]

LEMMA OnlyListedBefore ==
  ASSUME Stay, NEW n, OnlyListed(n)'
  PROVE  OnlyListed(n)
BY DEF Stay, OnlyListed

\* The steps of packets that do not list.
Unlisted ==
  /\ Stay /\ UNCHANGED <<lsoffset, listed>>
  /\ offset' \in [Packets -> Nat]
  /\ \A m \in Arrived' :
       /\ stage'[m] = "listing" => m \in Arrived /\ stage[m] = "listing" /\ offset'[m] = offset[m]
       /\ result'[m] = "eof" => m \in Arrived /\ result[m] = "eof"

LEMMA UnlistedStep ==
  ASSUME ListingInv, Unlisted
  PROVE  ListingInv'
<1>1. ASSUME NEW n \in Packets, OnlyListed(n)'
      PROVE  ListedOK(n)'
  <2>1. ListedOK(n)
    BY <1>1, OnlyListedBefore DEF ListingInv, Unlisted
  <2>2. ASSUME NEW m \in Arrived', request'[m].on = n
        PROVE  /\ stage'[m] = "listing" => offset'[m] = lsoffset'[n]
               /\ result'[m] = "eof" => lsoffset'[n] = DirSize
    <3>1. m \in Arrived => request[m].on = n
      BY <2>2 DEF Unlisted, Stay
    <3> QED BY <2>1, <2>2, <3>1 DEF Unlisted, ListedOK
  <2> QED BY <2>1, <2>2 DEF Unlisted, ListedOK
<1> QED BY <1>1 DEF ListingInv, Unlisted

\* An answer forgets nothing either.
LEMMA AnswersStay ==
  ASSUME HandlesInv, NEW n \in Packets, NEW res, Responded(n, res), UNCHANGED request
  PROVE  Stay
BY Ranges DEF Responded, Stay

LEMMA UnlistedAnswer ==
  ASSUME HandlesInv, ListingInv, NEW n \in Packets, NEW res, Respond(n, res),
         res \in {"handle", "read", "wrote", "names", "attrs", "closed", "failed",
                  "unexpected", "badHandle"},
         UNCHANGED <<request, lsoffset, offset, listed>>
  PROVE  ListingInv'
<1>1. Responded(n, res)
  BY Responds
<1>2. Unlisted
  <2>1. Stay
    BY <1>1, AnswersStay
  <2>2. offset' \in [Packets -> Nat]
    BY DEF ListingInv
  <2> QED BY <1>1, <2>1, <2>2, Ranges DEF Unlisted, Responded
<1> QED BY <1>2, UnlistedStep

\* The steps that change neither the stage of a packet to listing nor an answer.
LEMMA UnlistedQuiet ==
  ASSUME HandlesInv, ListingInv,
         UNCHANGED <<arrived, request, lsoffset, offset, listed, result>>,
         \A m \in Arrived : stage'[m] = "listing" => stage[m] = "listing"
  PROVE  ListingInv'
<1>1. Unlisted
  BY DEF Unlisted, Stay, ListingInv, Arrived
<1> QED BY <1>1, UnlistedStep

LEMMA ReceiveListing ==
  ASSUME HandlesInv, ListingInv, NEW op \in Ops, NEW on, ReceiveRequest(op, on)
  PROVE  ListingInv'
<1>1. /\ Len(arrived') = Len(arrived) + 1 /\ Len(arrived) \in Nat /\ Len(arrived) < MaxPackets
      /\ request' = Append(request, [op |-> op, on |-> on, seen |-> Len(replies)])
      /\ UNCHANGED <<lsoffset, offset, listed, stage, result>>
  <2>1. arrived' = Append(arrived, KindOf(op)) /\ arrived \in Seq(Kinds) /\ Len(arrived) < MaxPackets
    BY DEF ReceiveRequest, Receive, HandlesInv, PipeOK
  <2>2. Len(arrived') = Len(arrived) + 1 /\ Len(arrived) \in Nat
    BY <2>1
  <2> QED BY <2>1, <2>2 DEF ReceiveRequest, stateVars, workerVars, historyVars
<1>2. Arrived' = Arrived \cup {Len(arrived) + 1} /\ Len(arrived) + 1 \in Packets \ Arrived
  BY <1>1, Ranges DEF Arrived, Packets
<1>3. \A m \in Arrived : request'[m] = request[m]
  BY <1>1 DEF HandlesInv, RequestsOK, Arrived
<1>4. stage[Len(arrived) + 1] = "idle" /\ result[Len(arrived) + 1] = "pending"
  BY <1>2, Ranges DEF HandlesInv, StagesOK, StageOK
<1>5. Unlisted
  BY <1>1, <1>2, <1>3, <1>4 DEF Unlisted, Stay, ListingInv
<1> QED BY <1>5, UnlistedStep

LEMMA CallListing ==
  ASSUME HandlesInv, ListingInv, NEW n \in Packets, CallHandler(n)
  PROVE  ListingInv'
<1>1. /\ n \in begun \ finished /\ target[n] # 0
      /\ offset' = [offset EXCEPT ![n] = lsoffset[target[n]]]
      /\ UNCHANGED <<arrived, request, lsoffset, listed, result>>
      /\ \A m \in Packets \ {n} : stage'[m] = stage[m]
  BY DEF CallHandler, UsesObject, Serving, stateVars, historyVars, vars, HandlesInv, StagesOK
<1>2. target[n] = request[n].on /\ target[n] \in Packets
  BY <1>1 DEF HandlesInv, StagesOK, StageOK
<1>3. Arrived' = Arrived /\ Arrived \subseteq Packets /\ n \in Arrived
  BY <1>1, Ranges DEF Arrived
<1>4. /\ offset' \in [Packets -> Nat] /\ offset'[n] = lsoffset[request[n].on]
      /\ \A m \in Packets \ {n} : offset'[m] = offset[m]
  BY <1>1, <1>2 DEF ListingInv
<1>5. ASSUME NEW p \in Packets, OnlyListed(p)'
      PROVE  ListedOK(p)'
  <2>1. ListedOK(p)
    BY <1>1, <1>3, <1>5 DEF ListingInv, OnlyListed
  <2> QED BY <1>1, <1>3, <1>4, <2>1 DEF ListedOK
<1> QED BY <1>1, <1>4, <1>5 DEF ListingInv

\* A handler that lists a directory has it for itself: the client uses the handle for
\* listing only, and two listings are not served at once.
LEMMA ListsAlone ==
  ASSUME HandlesInv, NEW n \in begun \ finished, stage[n] = "listing", OnlyListed(request[n].on),
         NEW m \in Arrived, request[m].on = request[n].on, stage[m] = "listing"
  PROVE  m = n
<1>1. m \in begun \ finished /\ n \in Arrived /\ m \in Packets /\ n \in Packets
  BY Ranges DEF HandlesInv, StagesOK, StageOK
<1>2. request[m].op = "readdir" /\ request[n].op = "readdir"
  BY <1>1 DEF HandlesInv, StagesOK, StageOK, OnlyListed
<1>3. arrived[m] = "cmd" /\ arrived[n] = "cmd"
  BY <1>1, <1>2 DEF HandlesInv, RequestsOK, KindOf
<1> QED BY <1>1, <1>3, OneCommand DEF HandlesInv

LEMMA ListReturnsListing ==
  ASSUME HandlesInv, ListingInv, NEW n \in Packets, ListReturns(n)
  PROVE  ListingInv'
<1> DEFINE d == request[n].on
<1>1. PICK k \in Copied(offset[n]), res \in {"names", "eof", "failed"} :
        /\ res = "eof" => k = 0 /\ offset[n] >= DirSize
        /\ lsoffset' = [lsoffset EXCEPT ![target[n]] = @ + k]
        /\ listed' = IF res = "names" THEN [listed EXCEPT ![target[n]] = @ \o Entries(offset[n], k)]
                                      ELSE listed
        /\ Respond(n, res)
  BY DEF ListReturns
<1>2. n \in begun /\ stage[n] = "listing" /\ UNCHANGED <<request, offset>>
  BY DEF ListReturns
<1>3. Responded(n, res)
  BY <1>1, <1>2, Responds
<1>4. /\ n \in begun \ finished /\ n \in Arrived /\ Arrived \subseteq Packets /\ Arrived' = Arrived
      /\ target[n] = d /\ d \in Packets
  <2>1. target[n] # 0
    BY <1>2 DEF HandlesInv, StagesOK, StageOK, InHandler
  <2> QED BY <1>3, <2>1, Ranges DEF Responded, HandlesInv, StagesOK, StageOK
<1>5. k \in Nat /\ (offset[n] + k <= DirSize \/ k = 0) /\ DirSize \in Nat /\ offset[n] \in Nat
  BY HandlersAssumption DEF Copied, ListingInv
<1>6. Stay
  BY <1>2, <1>3, AnswersStay
<1> HIDE DEF d
<1>7. /\ lsoffset' \in [Packets -> Nat] /\ lsoffset'[d] = lsoffset[d] + k
      /\ \A p \in Packets \ {d} : lsoffset'[p] = lsoffset[p]
  BY <1>1, <1>4, <1>5 DEF ListingInv
<1>8. Entries(offset[n], k) \in Seq(Nat)
  BY <1>5, EntriesAppended
<1>9. /\ listed' \in [Packets -> Seq(Nat)] /\ \A p \in Packets \ {d} : listed'[p] = listed[p]
      /\ listed'[d] = IF res = "names" THEN listed[d] \o Entries(offset[n], k) ELSE listed[d]
  <2>1. listed[d] \o Entries(offset[n], k) \in Seq(Nat)
    BY <1>4, <1>8 DEF ListingInv
  <2> QED BY <1>1, <1>4, <2>1 DEF ListingInv
<1>10. ASSUME NEW p \in Packets, OnlyListed(p)'
       PROVE  ListedOK(p)'
  <2>1. OnlyListed(p) /\ ListedOK(p)
    BY <1>6, <1>10, OnlyListedBefore DEF ListingInv
  <2>2. CASE p # d
    BY <1>2, <1>3, <1>4, <1>7, <1>9, <2>1, <2>2 DEF ListedOK, Responded, d
  <2>3. CASE p = d
    <3>1. offset[n] = lsoffset[d] /\ listed[d] = Entries(0, lsoffset[d]) /\ lsoffset[d] \in Nat
      BY <1>2, <1>4, <2>1, <2>3 DEF ListedOK, ListingInv, d
    <3>2. res # "failed"
      BY <1>2, <1>3, <1>4, <1>10, <2>3 DEF OnlyListed, Responded, d
    <3>3. res # "names" => k = 0
      BY <1>1, <3>2
    <3>4. listed'[d] = Entries(0, lsoffset'[d])
      <4>1. CASE res = "names"
        BY <1>5, <1>7, <1>9, <3>1, <4>1, EntriesAppended
      <4>2. CASE res # "names"
        BY <1>7, <1>9, <3>1, <3>3, <4>2
      <4> QED BY <4>1, <4>2
    <3>5. lsoffset'[d] <= DirSize
      BY <1>5, <1>7, <2>1, <2>3, <3>1 DEF ListedOK
    <3>6. ASSUME NEW m \in Arrived, request[m].on = d
          PROVE  /\ stage'[m] # "listing"
                 /\ result'[m] = "eof" => lsoffset'[d] = DirSize
      <4>1. CASE m = n
        BY <1>1, <1>3, <1>5, <1>7, <3>1, <3>5, <4>1 DEF Responded
      <4>2. CASE m # n
        <5>1. stage[m] # "listing"
          BY <1>2, <1>4, <2>1, <2>3, <3>6, <4>2, ListsAlone DEF d
        <5>2. result[m] = "eof" => lsoffset[d] = DirSize
          BY <2>1, <2>3, <3>6 DEF ListedOK
        <5> QED BY <1>3, <1>4, <1>5, <1>7, <3>1, <3>5, <4>2, <5>1, <5>2 DEF Responded
      <4> QED BY <4>1, <4>2
    <3> QED BY <1>2, <1>4, <2>3, <3>4, <3>5, <3>6 DEF ListedOK
  <2> QED BY <2>2, <2>3
<1> QED BY <1>2, <1>7, <1>9, <1>10 DEF ListingInv

LEMMA ListingStep ==
  ASSUME HandlesInv, ListingInv, [HandlesNext]_allVars
  PROVE  ListingInv'
<1> USE DEF tableVars, stateVars, workerVars, historyVars
<1>1. CASE ClientSends
  BY <1>1, ReceiveListing DEF ClientSends
<1>2. CASE ServeLoopReturns \/ SendReply \/ ServeReturns \/ AllDone \/ UNCHANGED allVars
  <2>1. UNCHANGED <<arrived, request, lsoffset, offset, listed, result, stage>>
    BY <1>2 DEF ServeLoopReturns, SendReply, Reply, ServeReturns, AllDone, allVars, vars, handleVars
  <2> QED BY <2>1, UnlistedQuiet
<1>3. CASE \E n \in Packets : Serve(n)
  <2>1. PICK n \in Packets : Serve(n)
    BY <1>3
  <2>2. CASE Start(n) \/ NextRequest(n) \/ GetRequest(n)
    <3>1. \A m \in Arrived : stage'[m] = "listing" => stage[m] = "listing"
      BY <2>2, Ranges DEF Start, NextRequest, GetRequest, handleVars, HandlesInv, StagesOK
    <3>2. UNCHANGED <<arrived, request, lsoffset, offset, listed, result>>
      BY <2>2 DEF Start, Begin, NextRequest, GetRequest, handleVars, vars
    <3> QED BY <3>1, <3>2, UnlistedQuiet
  <2>3. CASE OpenSucceeds(n) \/ OpenFails(n) \/ BadHandle(n) \/ CallUnexpected(n)
    BY <2>3, UnlistedAnswer DEF OpenSucceeds, OpenFails, BadHandle, CallUnexpected
  <2>4. CASE TransferReturns(n) \/ StatReturns(n) \/ CloseRequest(n)
    <3>1. UNCHANGED <<request, lsoffset, offset, listed>>
      BY <2>4 DEF TransferReturns, StatReturns, CloseRequest
    <3>2. \E res \in {"read", "wrote", "attrs", "failed", "closed", "badHandle"} : Respond(n, res)
      BY <2>4 DEF TransferReturns, StatReturns, CloseRequest
    <3> QED BY <3>1, <3>2, UnlistedAnswer
  <2>5. CASE CallHandler(n)
    BY <2>5, CallListing
  <2>6. CASE ListReturns(n)
    BY <2>6, ListReturnsListing
  <2> QED BY <2>1, <2>2, <2>3, <2>4, <2>5, <2>6 DEF Serve
<1> QED BY <1>1, <1>2, <1>3 DEF HandlesNext

\* A directory that the client only lists is sent in order, without gap or repetition,
\* and its end is not sent before the last entry.
THEOREM ListingsComplete == HandlesSpec => []ListingsAreExact
<1>1. HandlesInit => ListingInv
  <2> SUFFICES ASSUME HandlesInit
               PROVE  ListingInv
    OBVIOUS
  <2>1. Arrived = {}
    BY DEF HandlesInit, Init, Arrived
  <2>2. Entries(0, 0) = <<>> /\ <<>> \in Seq(Nat)
    BY DEF Entries
  <2> QED BY <2>1, <2>2, HandlersAssumption DEF HandlesInit, ListingInv, ListedOK
<1>2. HandlesInv /\ ListingInv /\ [HandlesNext]_allVars => ListingInv'
  BY ListingStep
<1>3. HandlesInv /\ ListingInv => ListingsAreExact
  BY Ranges DEF ListingInv, ListedOK, OnlyListed, ListingsAreExact, Openers
<1> QED BY <1>1, <1>2, <1>3, HandlesInvariant, PTL DEF HandlesSpec
=============================================================================
