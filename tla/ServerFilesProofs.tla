--------------------------- MODULE ServerFilesProofs ---------------------------
(***************************************************************************)
(* The open files of a Server, for any number of packets, any packets the  *)
(* client may send and any file system.                                    *)
(***************************************************************************)
EXTENDS ServerFiles, Integers, FiniteSetTheorems, TLAPS

(***************************************************************************)
(* The packets, of which OrderedReplies has the steps: what holds of them  *)
(* whatever they ask for.                                                  *)
(***************************************************************************)
Arrivals == 1..Len(arrived)

PipeOK ==
  /\ arrived \in Seq(Kinds) /\ Len(arrived) <= MaxPackets
  /\ begun \subseteq Arrivals /\ finished \subseteq begun
  /\ replies \in Seq(Nat) /\ 1..Len(replies) \subseteq finished
  \* the other commands, and for a close everything, that came before are finished
  /\ \A n \in begun : arrived[n] # "rw" => EarlierCommands(n) \subseteq finished
  /\ \A n \in begun : arrived[n] = "close" => Earlier(n) \subseteq finished

LEMMA PipeInit ==
  ASSUME MaxPackets \in Nat, Init
  PROVE  PipeOK
<1>1. arrived = <<>> /\ begun = {} /\ finished = {} /\ replies = <<>>
  BY DEF Init
<1> QED BY <1>1 DEF PipeOK, Arrivals

LEMMA PipeReceive ==
  ASSUME MaxPackets \in Nat, PipeOK, NEW kind \in Kinds, Receive(kind)
  PROVE  /\ PipeOK' /\ Len(arrived') = Len(arrived) + 1 /\ arrived'[Len(arrived) + 1] = kind
         /\ \A n \in Arrivals : n \in Arrivals' /\ arrived'[n] = arrived[n]
<1>1. /\ arrived' \in Seq(Kinds) /\ Len(arrived') = Len(arrived) + 1 /\ Len(arrived) \in Nat
      /\ arrived'[Len(arrived) + 1] = kind
      /\ \A n \in 1..Len(arrived) : arrived'[n] = arrived[n]
  BY DEF Receive, PipeOK
<1>2. Len(arrived') <= MaxPackets
  BY <1>1 DEF Receive, PipeOK
<1>3. Arrivals \subseteq Arrivals' /\ \A n \in Arrivals : Earlier(n) \subseteq Arrivals
  BY <1>1 DEF Arrivals, Earlier
<1>4. UNCHANGED <<begun, finished, replies>>
  BY DEF Receive
<1>5. \A n \in begun : EarlierCommands(n)' = EarlierCommands(n) /\ arrived'[n] = arrived[n]
  BY <1>1, <1>3 DEF EarlierCommands, PipeOK, Arrivals, Earlier
<1>6. PipeOK'
  BY <1>1, <1>2, <1>3, <1>4, <1>5 DEF PipeOK
<1> QED BY <1>1, <1>3, <1>6 DEF Arrivals

LEMMA PipeBegin ==
  ASSUME PipeOK, NEW n, Begin(n)
  PROVE  PipeOK'
<1>1. begun' = begun \cup {n} /\ n \in Arrivals /\ UNCHANGED <<arrived, finished, replies>>
  BY DEF Begin, Arrivals
<1>2. arrived[n] # "rw" => EarlierCommands(n) \subseteq finished
  BY DEF Begin
<1>3. arrived[n] = "close" => Earlier(n) \subseteq finished
  BY DEF Begin
<1> QED BY <1>1, <1>2, <1>3 DEF PipeOK, Arrivals, EarlierCommands

LEMMA PipeFinish ==
  ASSUME PipeOK, NEW n, Finish(n)
  PROVE  PipeOK'
<1>1. finished' = finished \cup {n} /\ n \in begun /\ UNCHANGED <<arrived, begun, replies>>
  BY DEF Finish
<1> QED BY <1>1 DEF PipeOK, Arrivals, EarlierCommands

LEMMA PipeReply ==
  ASSUME PipeOK, Reply
  PROVE  PipeOK'
<1>1. /\ replies' = Append(replies, Len(replies) + 1) /\ Len(replies) + 1 \in finished
      /\ UNCHANGED <<arrived, begun, finished>>
  BY DEF Reply
<1>2. replies' \in Seq(Nat) /\ Len(replies') = Len(replies) + 1 /\ Len(replies) \in Nat
  BY <1>1 DEF PipeOK
<1>3. 1..Len(replies') \subseteq finished
  BY <1>1, <1>2 DEF PipeOK
<1> QED BY <1>1, <1>2, <1>3 DEF PipeOK, Arrivals, EarlierCommands

LEMMA PipeStutter ==
  ASSUME PipeOK, UNCHANGED vars
  PROVE  PipeOK'
BY DEF PipeOK, Arrivals, EarlierCommands, vars

\* No command is being served beside another one.
LEMMA OneCommand ==
  ASSUME PipeOK, NEW m \in begun \ finished, NEW n \in begun \ finished,
         arrived[m] # "rw", arrived[n] # "rw"
  PROVE  m = n
<1>1. m \in Nat /\ n \in Nat /\ m > 0 /\ n > 0
  BY DEF PipeOK, Arrivals
<1>2. m < n => m \in EarlierCommands(n)
  BY <1>1 DEF EarlierCommands, Earlier
<1>3. n < m => n \in EarlierCommands(m)
  BY <1>1 DEF EarlierCommands, Earlier
<1> QED BY <1>1, <1>2, <1>3 DEF PipeOK

\* A packet that is being served finds every close finished or before it.
LEMMA ClosesAreEarlier ==
  ASSUME PipeOK, NEW m \in begun \ finished, NEW c \in begun, arrived[c] = "close", c # m
  PROVE  c < m
<1>1. m \in Nat /\ c \in Nat /\ m > 0 /\ c > 0
  BY DEF PipeOK, Arrivals
<1>2. m < c => m \in Earlier(c)
  BY <1>1 DEF Earlier
<1> QED BY <1>1, <1>2 DEF PipeOK

-----------------------------------------------------------------------------
(***************************************************************************)
(* What the packets ask for.                                               *)
(***************************************************************************)

Stages  == {"idle", "stated", "opened", "found", "setting", "done"}
Results == {"pending", "ok", "failed", "denied", "handle", "badHandle"}

Requests ==
  {[op |-> r.op, path |-> r.path, to |-> r.to, flags |-> r.flags, parts |-> r.parts, on |-> on] :
     r \in Menu, on \in Packets \cup {0}}

RequestsOK ==
  /\ request \in Seq(Requests) /\ Len(request) = Len(arrived)
  /\ \A n \in Arrivals :
       /\ arrived[n] = KindOf(request[n].op) /\ request[n].path \in Names /\ request[n].to \in Names
       /\ request[n].op \in HandleOps =>
            request[n].on \in Packets /\ result[request[n].on] = "handle"
       /\ request[n].op \notin HandleOps => request[n].on = 0

\* Handles are never given twice, and a handle is open for the file it was given to.
TableOK ==
  /\ handleCount \in Nat /\ handle \in [Packets -> Nat]
  /\ openFiles \in [Packets -> Packets \cup {0}]
  /\ handleCount = Cardinality({n \in Packets : handle[n] # 0})
  /\ \A n \in Packets : handle[n] <= handleCount /\ (handle[n] # 0 <=> result[n] = "handle")
  /\ \A m, n \in Packets : handle[m] = handle[n] /\ handle[m] # 0 => m = n
  /\ \A h \in Packets : openFiles[h] # 0 => handle[openFiles[h]] = h

\* Where a worker may be with a packet, and what the packet has by then.
StageOK(n) ==
  /\ stage[n] # "idle" => n \in begun
  /\ stage[n] = "done" <=> n \in finished
  /\ result[n] # "pending" <=> n \in finished
  /\ stage[n] = "stated" => request[n].op = "opendir"
  /\ stage[n] = "opened" => request[n].op \in {"open", "opendir"}
  /\ stage[n] = "found" => target[n] # 0
  /\ stage[n] = "setting" => request[n].op = "setstat" \/ target[n] # 0
  /\ target[n] # 0 => stage[n] # "idle" /\ request[n].op \in HandleOps /\ target[n] = request[n].on

StagesOK ==
  /\ stage \in [Packets -> Stages] /\ result \in [Packets -> Results]
  /\ target \in [Packets -> Packets \cup {0}]
  /\ \A n \in Packets : StageOK(n)

\* What a packet has opened, and what it is: the inode of a packet is new until it makes it.
OpenedOK(n) ==
  /\ opened[n] # 0 => /\ request[n].op \in {"open", "opendir"} /\ stage[n] \in {"opened", "done"}
                      /\ n \in finished => result[n] = "handle"
  /\ stage[n] = "opened" \/ result[n] = "handle" => opened[n] # 0
  /\ stage[n] = "stated" => name[request[n].path] \in directory
  /\ stage[n] \in {"idle", "stated"} =>
       /\ n \notin directory /\ \A f \in Names : name[f] # n
       /\ \A m \in Packets : opened[m] # n
  /\ opened[n] # 0 /\ request[n].op = "opendir" => opened[n] \in directory
  /\ opened[n] # 0 /\ request[n].op = "open" /\ "write" \in request[n].flags =>
       opened[n] \notin directory

FileSystemOK ==
  /\ name \in [Names -> Nat] /\ directory \subseteq Nat \ {0} /\ opened \in [Packets -> Nat]
  /\ \A n \in Packets : OpenedOK(n)

\* A file is closed when its handle is, or when Serve has returned.
ClosedOK ==
  /\ closed \in [Packets -> Nat]
  /\ \A n \in Packets :
       closed[n] = IF result[n] = "handle" /\ (served \/ openFiles[handle[n]] # n) THEN 1 ELSE 0

ServedOK == served => inputEnded /\ finished = Arrivals

ClosesOK ==
  \A p \in Packets : result[p] = "handle" =>
    \/ openFiles[handle[p]] = p
    \/ \E c \in finished : request[c].op = "close" /\ request[c].on = p

\* A packet that came before the close of its handle finds the handle open.
BarrierOK(n) == request[n].on # 0 /\ ClosesBefore(n) = {} => result[n] # "badHandle"

FilesInv ==
  /\ PipeOK /\ RequestsOK /\ TableOK /\ StagesOK /\ FileSystemOK /\ ClosedOK /\ ServedOK /\ ClosesOK
  /\ \A n \in Arrivals : BarrierOK(n)

-----------------------------------------------------------------------------
(* What the actions have in common.                                        *)

LEMMA Ranges ==
  ASSUME FilesInv
  PROVE  /\ finished \subseteq begun /\ begun \subseteq Arrivals /\ Arrivals \subseteq Packets
         /\ MaxPackets \in Nat /\ Len(arrived) \in Nat
         /\ Packets \subseteq Nat /\ 0 \notin Packets
<1>1. MaxPackets \in Nat
  BY BoundAssumption
<1>2. Len(arrived) \in Nat /\ Len(arrived) <= MaxPackets
  BY DEF FilesInv, PipeOK
<1>3. finished \subseteq begun /\ begun \subseteq Arrivals
  BY DEF FilesInv, PipeOK
<1> QED BY <1>1, <1>2, <1>3 DEF Arrivals, Packets

LEMMA NotServed ==
  ASSUME FilesInv, NEW n \in begun \ finished
  PROVE  ~ served
BY Ranges DEF FilesInv, ServedOK

\* The handle of a request that has one is open for it, or closed.
LEMMA OpenFor ==
  ASSUME FilesInv, NEW p \in Packets, result[p] = "handle"
  PROVE  handle[p] # 0 /\ handle[p] \in Packets /\ openFiles[handle[p]] \in {0, p}
<1>1. handle[p] # 0 /\ handle[p] \in Nat /\ handle[p] <= handleCount /\ handleCount \in Nat
  BY DEF FilesInv, TableOK
<1>2. handleCount <= MaxPackets
  <2>1. {n \in Packets : handle[n] # 0} \subseteq Packets
    OBVIOUS
  <2>2. IsFiniteSet(Packets) /\ Cardinality(Packets) = MaxPackets
    BY FS_Interval, BoundAssumption DEF Packets
  <2> QED BY <2>1, <2>2, FS_Subset DEF FilesInv, TableOK
<1>3. handle[p] \in Packets
  BY <1>1, <1>2, BoundAssumption DEF Packets
<1> QED BY <1>1, <1>3 DEF FilesInv, TableOK

\* The next handle is one that nobody has.
LEMMA NewHandle ==
  ASSUME FilesInv, NEW n \in Packets, handle[n] = 0
  PROVE  /\ handleCount + 1 \in Packets /\ openFiles[handleCount + 1] = 0
         /\ \A m \in Packets : handle[m] # handleCount + 1
         /\ Cardinality({m \in Packets : handle[m] # 0} \cup {n}) = handleCount + 1
<1> DEFINE Taken == {m \in Packets : handle[m] # 0}
<1>1. IsFiniteSet(Packets) /\ Cardinality(Packets) = MaxPackets /\ MaxPackets \in Nat
  BY FS_Interval, BoundAssumption DEF Packets
<1>2. IsFiniteSet(Taken)
  BY <1>1, FS_Subset
<1>3. n \notin Taken /\ Cardinality(Taken) = handleCount /\ handleCount \in Nat
  BY DEF FilesInv, TableOK
<1>4. Cardinality(Taken \cup {n}) = handleCount + 1
  BY <1>2, <1>3, FS_AddElement
<1>5. Taken \cup {n} \subseteq Packets
  OBVIOUS
<1>6. handleCount + 1 <= MaxPackets
  BY <1>1, <1>4, <1>5, FS_Subset
<1>7. handleCount + 1 \in Packets
  BY <1>1, <1>3, <1>6 DEF Packets
<1>8. \A m \in Packets : handle[m] # handleCount + 1
  BY <1>3 DEF FilesInv, TableOK
<1>9. openFiles[handleCount + 1] = 0
  BY <1>7, <1>8 DEF FilesInv, TableOK
<1> QED BY <1>4, <1>7, <1>8, <1>9

\* A packet on a handle whose close did not come before it finds the handle open.
LEMMA FindsOpen ==
  ASSUME FilesInv, NEW n \in begun \ finished, request[n].on # 0, ClosesBefore(n) = {}
  PROVE  /\ request[n].on \in Packets /\ result[request[n].on] = "handle"
         /\ openFiles[handle[request[n].on]] = request[n].on
<1>1. n \in Arrivals /\ request[n].on \in Packets /\ result[request[n].on] = "handle"
  BY Ranges DEF FilesInv, RequestsOK
<1>2. ~ \E c \in finished : request[c].op = "close" /\ request[c].on = request[n].on
  <2> SUFFICES ASSUME NEW c \in finished, request[c].op = "close",
                      request[c].on = request[n].on
               PROVE  FALSE
    OBVIOUS
  <2>1. c \in begun /\ c \in Arrivals /\ c # n
    BY Ranges
  <2>2. arrived[c] = "close"
    BY <2>1 DEF FilesInv, RequestsOK, KindOf
  <2>3. c < n
    BY <2>1, <2>2, ClosesAreEarlier DEF FilesInv
  <2>4. c \in Earlier(n)
    BY <1>1, <2>1, <2>3 DEF Arrivals, Earlier
  <2> QED BY <2>4 DEF ClosesBefore
<1> QED BY <1>1, <1>2 DEF FilesInv, ClosesOK

\* The commands that touch the file system are served one at a time.
Touching == {"stat", "mkdir", "remove", "rename", "hardlink", "open", "opendir"}

LEMMA OneTouches ==
  ASSUME FilesInv, NEW m \in begun \ finished, NEW n \in begun \ finished,
         request[m].op \in Touching, request[n].op \in Touching
  PROVE  m = n
<1>1. arrived[m] = KindOf(request[m].op) /\ arrived[n] = KindOf(request[n].op)
  BY Ranges DEF FilesInv, RequestsOK
<1>2. \A op \in Touching : KindOf(op) # "rw"
  BY DEF Touching, KindOf
<1> QED BY <1>1, <1>2, OneCommand DEF FilesInv

-----------------------------------------------------------------------------
(* The invariant is kept by every action.                                  *)

LEMMA FilesInitInv ==
  ASSUME FilesInit
  PROVE  FilesInv
<1> USE DEF FilesInit
<1>1. PipeOK
  BY PipeInit, BoundAssumption
<1>2. arrived = <<>> /\ begun = {} /\ finished = {} /\ Arrivals = {} /\ 0 \notin Packets
  BY BoundAssumption DEF Init, Arrivals, Packets
<1>3. RequestsOK
  BY <1>2 DEF RequestsOK
<1>4. TableOK
  <2>1. {n \in Packets : handle[n] # 0} = {}
    OBVIOUS
  <2>2. handleCount = Cardinality({n \in Packets : handle[n] # 0})
    BY <2>1, FS_EmptySet
  <2>3. \A n \in Packets : handle[n] = 0 /\ result[n] = "pending" /\ openFiles[n] = 0
    OBVIOUS
  <2>4. handleCount \in Nat /\ handle \in [Packets -> Nat] /\ openFiles \in [Packets -> Packets \cup {0}]
    OBVIOUS
  <2>5. handleCount = 0
    OBVIOUS
  <2>6. \A n \in Packets : handle[n] <= handleCount /\ (handle[n] # 0 <=> result[n] = "handle")
    BY <2>3, <2>5
  <2>7. \A m, n \in Packets : handle[m] = handle[n] /\ handle[m] # 0 => m = n
    BY <2>3
  <2>8. \A h \in Packets : openFiles[h] # 0 => handle[openFiles[h]] = h
    BY <2>3
  <2> QED BY <2>2, <2>4, <2>6, <2>7, <2>8 DEF TableOK
<1>5. StagesOK
  BY <1>2 DEF StagesOK, StageOK, Stages, Results
<1>6. FileSystemOK
  <2>1. name \in [Names -> Nat] /\ directory \subseteq Nat \ {0} /\ opened \in [Packets -> Nat]
    BY NamesAssumption
  <2>2. \A n \in Packets : n \in 1..MaxPackets /\ n # 0
    BY <1>2 DEF Packets
  <2>3. \A n \in Packets : n \notin directory /\ \A f \in Names : name[f] # n
    BY <2>2, NamesAssumption
  <2>4. \A n \in Packets : OpenedOK(n)
    BY <1>2, <2>3 DEF OpenedOK
  <2> QED BY <2>1, <2>4 DEF FileSystemOK
<1>7. ClosedOK /\ ServedOK /\ ClosesOK /\ \A n \in Arrivals : BarrierOK(n)
  BY <1>2 DEF ClosedOK, ServedOK, ClosesOK
<1> QED BY <1>1, <1>3, <1>4, <1>5, <1>6, <1>7 DEF FilesInv

\* The steps that only move a packet along the pipeline.
LEMMA PipelineInv ==
  ASSUME FilesInv, PipeOK', begun \subseteq begun', Arrivals' = Arrivals,
         UNCHANGED <<arrived, finished, request, tableVars, fsVars, stage, target, result,
                     served, opened, closed>>,
         served => inputEnded'
  PROVE  FilesInv'
<1> USE DEF tableVars, fsVars
<1>1. RequestsOK' /\ TableOK'
  BY DEF FilesInv, RequestsOK, TableOK
<1>2. StagesOK'
  BY DEF FilesInv, StagesOK, StageOK
<1>3. FileSystemOK'
  BY DEF FilesInv, FileSystemOK, OpenedOK
<1>4. ClosedOK' /\ ServedOK' /\ ClosesOK'
  BY DEF FilesInv, ClosedOK, ServedOK, ClosesOK
<1>5. \A n \in Arrivals' : BarrierOK(n)'
  BY DEF FilesInv, BarrierOK, ClosesBefore
<1> QED BY <1>1, <1>2, <1>3, <1>4, <1>5 DEF FilesInv

LEMMA ReceiveInv ==
  ASSUME FilesInv, NEW r \in Menu, NEW on, ReceivePacket(r, on),
         IF r.op \in HandleOps THEN on \in Known ELSE on = 0
  PROVE  FilesInv'
<1> DEFINE k == Len(arrived) + 1
<1> DEFINE new == [op |-> r.op, path |-> r.path, to |-> r.to, flags |-> r.flags,
                   parts |-> r.parts, on |-> on]
<1>1. KindOf(r.op) \in Kinds
  BY DEF KindOf, Kinds
<1>2. Receive(KindOf(r.op)) /\ request' = Append(request, new)
  BY DEF ReceivePacket
<1>3. /\ PipeOK' /\ Len(arrived') = k /\ arrived'[k] = KindOf(r.op)
      /\ \A n \in Arrivals : arrived'[n] = arrived[n]
  BY <1>1, <1>2, PipeReceive, BoundAssumption DEF FilesInv
<1>4. Arrivals' = Arrivals \cup {k} /\ k \notin Arrivals /\ k \notin finished /\ k \notin begun
  BY <1>3, Ranges DEF Arrivals
<1>5. 1..Len(replies) \subseteq finished
  BY DEF FilesInv, PipeOK
<1>6. on \in Packets \cup {0} /\ (r.op \in HandleOps => on \in Packets /\ result[on] = "handle")
  BY <1>5, Ranges DEF Known
<1>7. new \in Requests /\ new.op = r.op /\ new.on = on /\ new.path \in Names /\ new.to \in Names
  <2>1. r.path \in Names /\ r.to \in Names
    BY MenuAssumption
  <2>2. new \in Requests
    BY <1>6 DEF Requests
  <2> QED BY <2>1, <2>2
<1> HIDE DEF new
<1>8. /\ request' \in Seq(Requests) /\ Len(request') = k /\ request'[k] = new
      /\ \A n \in Arrivals : request'[n] = request[n]
  BY <1>2, <1>7, Ranges DEF FilesInv, RequestsOK, Arrivals
<1>9. UNCHANGED <<begun, finished, replies, inputEnded, tableVars, fsVars, stage, target, result,
                  served, opened, closed>>
  BY <1>2 DEF ReceivePacket, Receive
<1>10. RequestsOK'
  <2>1. \A n \in Arrivals :
       /\ arrived'[n] = KindOf(request'[n].op) /\ request'[n].path \in Names /\ request'[n].to \in Names
       /\ request'[n].op \in HandleOps =>
            request'[n].on \in Packets /\ result'[request'[n].on] = "handle"
       /\ request'[n].op \notin HandleOps => request'[n].on = 0
    BY <1>3, <1>8, <1>9 DEF FilesInv, RequestsOK
  <2>2. /\ arrived'[k] = KindOf(request'[k].op) /\ request'[k].path \in Names /\ request'[k].to \in Names
        /\ request'[k].op \in HandleOps =>
             request'[k].on \in Packets /\ result'[request'[k].on] = "handle"
        /\ request'[k].op \notin HandleOps => request'[k].on = 0
    BY <1>3, <1>6, <1>7, <1>8, <1>9
  <2> HIDE DEF k
  <2> QED BY <1>3, <1>4, <1>8, <2>1, <2>2 DEF RequestsOK
<1>11. TableOK'
  BY <1>9 DEF FilesInv, TableOK, tableVars
<1>12. \A n \in Packets : stage[n] # "idle" => request'[n] = request[n]
  BY <1>8, Ranges DEF FilesInv, StagesOK, StageOK
<1>13. StagesOK'
  BY <1>9, <1>12 DEF FilesInv, StagesOK, StageOK
<1>14. FileSystemOK'
  <2>1. \A n \in Packets : OpenedOK(n)'
    <3> SUFFICES ASSUME NEW n \in Packets
                 PROVE  OpenedOK(n)'
      OBVIOUS
    <3>1. OpenedOK(n)
      BY DEF FilesInv, FileSystemOK
    <3>2. CASE stage[n] = "idle"
      <4>1. n \notin finished /\ result[n] = "pending"
        BY <3>2 DEF FilesInv, StagesOK, StageOK
      <4>2. opened[n] = 0
        BY <3>1, <3>2 DEF OpenedOK
      <4> QED BY <1>9, <3>1, <3>2, <4>1, <4>2 DEF OpenedOK, fsVars
    <3>3. CASE stage[n] # "idle"
      BY <1>9, <1>12, <3>1, <3>3 DEF OpenedOK, fsVars
    <3> QED BY <3>2, <3>3
  <2> QED BY <1>9, <2>1 DEF FilesInv, FileSystemOK, fsVars
<1>15. ClosedOK' /\ ServedOK'
  BY <1>9 DEF FilesInv, ClosedOK, ServedOK, tableVars, ReceivePacket
<1>16. ClosesOK'
  BY <1>8, <1>9, Ranges DEF FilesInv, ClosesOK, tableVars
<1>17. \A n \in Arrivals' : BarrierOK(n)'
  <2>1. \A n \in Arrivals : Earlier(n) \subseteq Arrivals
    BY Ranges DEF Arrivals, Earlier
  <2>2. \A n \in Arrivals : ClosesBefore(n)' = ClosesBefore(n)
    BY <1>8, <2>1 DEF ClosesBefore, Earlier
  <2>3. result'[k] = "pending"
    <3>1. k \in Packets
      BY <1>3, Ranges DEF PipeOK, Packets
    <3> QED BY <1>4, <1>9, <3>1 DEF FilesInv, StagesOK, StageOK
  <2> HIDE DEF k
  <2> QED BY <1>4, <1>8, <1>9, <2>2, <2>3 DEF FilesInv, BarrierOK
<1> QED BY <1>3, <1>10, <1>11, <1>13, <1>14, <1>15, <1>16, <1>17 DEF FilesInv

LEMMA StartInv ==
  ASSUME FilesInv, NEW n \in Packets, Start(n)
  PROVE  FilesInv'
<1>1. Begin(n) /\ UNCHANGED fileVars
  BY DEF Start
<1>2. PipeOK' /\ begun \subseteq begun' /\ UNCHANGED <<arrived, finished>>
  BY <1>1, PipeBegin DEF FilesInv, Begin
<1> QED BY <1>1, <1>2, PipelineInv DEF fileVars, inVars, FilesInv, ServedOK, Arrivals

LEMMA ReplyInv ==
  ASSUME FilesInv, SendReply
  PROVE  FilesInv'
<1>1. Reply /\ UNCHANGED fileVars
  BY DEF SendReply
<1>2. PipeOK' /\ UNCHANGED <<arrived, begun, finished>>
  BY <1>1, PipeReply DEF FilesInv, Reply
<1> QED BY <1>1, <1>2, PipelineInv DEF fileVars, inVars, FilesInv, ServedOK, Arrivals

LEMMA InputEndsInv ==
  ASSUME FilesInv, InputEnds
  PROVE  FilesInv'
<1>1. UNCHANGED vars /\ inputEnded'
  BY DEF InputEnds
<1>2. PipeOK' /\ UNCHANGED <<arrived, begun, finished>>
  BY <1>1, PipeStutter DEF FilesInv, vars
<1> QED BY <1>1, <1>2, PipelineInv DEF InputEnds, Arrivals

LEMMA StutterInv ==
  ASSUME FilesInv, UNCHANGED allVars
  PROVE  FilesInv'
<1>1. UNCHANGED vars /\ UNCHANGED fileVars
  BY DEF allVars
<1>2. PipeOK' /\ UNCHANGED <<arrived, begun, finished>>
  BY <1>1, PipeStutter DEF FilesInv, vars
<1> QED BY <1>1, <1>2, PipelineInv DEF fileVars, inVars, FilesInv, ServedOK, Arrivals

-----------------------------------------------------------------------------
(* The steps of a worker that leave the table and the files open.          *)

\* What every step of the worker that serves a packet has in common.
Works(n) ==
  /\ n \in begun \ finished /\ PipeOK' /\ Arrivals' = Arrivals /\ UNCHANGED <<arrived, begun>>
  /\ finished' \in {finished, finished \cup {n}}
  /\ stage' \in [Packets -> Stages] /\ result' \in [Packets -> Results]
  /\ \A m \in Packets \ {n} : stage'[m] = stage[m] /\ result'[m] = result[m]
  /\ stage'[n] = "done" <=> n \in finished'
  /\ result'[n] # "pending" <=> n \in finished'
  /\ stage'[n] # "idle" /\ result[n] = "pending" /\ stage[n] # "done"

LEMMA RespondWorks ==
  ASSUME FilesInv, NEW n \in Packets, NEW res \in Results \ {"pending"}, Respond(n, res)
  PROVE  Works(n) /\ finished' = finished \cup {n} /\ stage'[n] = "done" /\ result'[n] = res
<1>1. /\ Finish(n) /\ stage' = [stage EXCEPT ![n] = "done"]
      /\ result' = [result EXCEPT ![n] = res]
  BY DEF Respond
<1>2. /\ n \in begun \ finished /\ finished' = finished \cup {n}
      /\ UNCHANGED <<arrived, begun>> /\ PipeOK' /\ Arrivals' = Arrivals
  BY <1>1, PipeFinish DEF FilesInv, Finish, Arrivals
<1>3. result[n] = "pending" /\ stage[n] # "done"
  BY <1>2 DEF FilesInv, StagesOK, StageOK
<1>4. /\ stage' \in [Packets -> Stages] /\ result' \in [Packets -> Results]
      /\ stage'[n] = "done" /\ result'[n] = res
      /\ \A m \in Packets \ {n} : stage'[m] = stage[m] /\ result'[m] = result[m]
  BY <1>1 DEF FilesInv, StagesOK, Stages
<1> QED BY <1>2, <1>3, <1>4 DEF Works

LEMMA GoToWorks ==
  ASSUME FilesInv, NEW n \in begun \ finished, GoTo(n, "stated") \/ GoTo(n, "opened")
                                                \/ GoTo(n, "found") \/ GoTo(n, "setting")
  PROVE  /\ Works(n) /\ finished' = finished /\ result'[n] = "pending"
         /\ GoTo(n, "stated") => stage'[n] = "stated"
         /\ GoTo(n, "opened") => stage'[n] = "opened"
         /\ GoTo(n, "found") => stage'[n] = "found"
         /\ GoTo(n, "setting") => stage'[n] = "setting"
<1>1. PICK to \in {"stated", "opened", "found", "setting"} : stage' = [stage EXCEPT ![n] = to]
  BY DEF GoTo
<1>2. UNCHANGED <<vars, result>>
  BY DEF GoTo
<1>3. n \in Packets
  BY Ranges
<1>4. UNCHANGED <<arrived, begun, finished>> /\ PipeOK' /\ Arrivals' = Arrivals
  BY <1>2, PipeStutter DEF FilesInv, vars, Arrivals
<1>5. result[n] = "pending" /\ stage[n] # "done"
  BY <1>3 DEF FilesInv, StagesOK, StageOK
<1>6. /\ stage' \in [Packets -> Stages] /\ stage'[n] = to /\ result' = result
      /\ \A m \in Packets \ {n} : stage'[m] = stage[m]
  BY <1>1, <1>2, <1>3 DEF FilesInv, StagesOK, Stages
<1>7. Works(n)
  BY <1>3, <1>4, <1>5, <1>6 DEF Works, FilesInv, StagesOK
<1>8. stage \in [Packets -> Stages]
  BY DEF FilesInv, StagesOK
<1> QED BY <1>2, <1>3, <1>4, <1>5, <1>7, <1>8 DEF GoTo

LEMMA WorkInv ==
  ASSUME FilesInv, NEW n \in Packets, Works(n), result'[n] # "handle",
         request[n].op = "close" => openFiles[handle[request[n].on]] = 0,
         UNCHANGED <<request, inputEnded, served, tableVars, closed>>,
         target' \in [Packets -> Packets \cup {0}],
         \A m \in Packets \ {n} : target'[m] = target[m],
         StageOK(n)', FileSystemOK', BarrierOK(n)'
  PROVE  FilesInv'
<1> USE DEF Works, tableVars
<1>1. RequestsOK'
  BY DEF FilesInv, RequestsOK
<1>2. TableOK'
  BY DEF FilesInv, TableOK
<1>3. StagesOK'
  BY DEF FilesInv, StagesOK, StageOK
<1>4. ClosedOK'
  BY NotServed DEF FilesInv, ClosedOK
<1>5. ServedOK'
  BY NotServed DEF ServedOK
<1>6. ClosesOK'
  BY DEF FilesInv, ClosesOK
<1>7. \A m \in Arrivals' : BarrierOK(m)'
  BY Ranges DEF FilesInv, BarrierOK, ClosesBefore
<1> QED BY <1>1, <1>2, <1>3, <1>4, <1>5, <1>6, <1>7 DEF FilesInv

\* Nothing is opened or renamed.
LEMMA FilesKept ==
  ASSUME FilesInv, NEW n \in Packets, Works(n), UNCHANGED <<request, fsVars, opened>>,
         result'[n] # "handle", stage'[n] # "opened",
         stage'[n] = "stated" => stage[n] = "idle" /\ name[request[n].path] \in directory,
         stage[n] # "opened"
  PROVE  FileSystemOK'
<1> USE DEF Works, fsVars
<1>1. \A m \in Packets \ {n} : OpenedOK(m)'
  BY DEF FilesInv, FileSystemOK, OpenedOK
<1>2. opened[n] = 0
  BY DEF FilesInv, FileSystemOK, OpenedOK
<1>3. OpenedOK(n)'
  BY <1>2 DEF FilesInv, FileSystemOK, OpenedOK
<1> QED BY <1>1, <1>3 DEF FilesInv, FileSystemOK

\* An answer that changes nothing else.
LEMMA AnswerInv ==
  ASSUME FilesInv, NEW n \in Packets, NEW res \in {"ok", "failed", "denied"}, Respond(n, res),
         request[n].op # "close", stage[n] # "opened",
         UNCHANGED <<request, inputEnded, served, tableVars, fsVars, target, opened, closed>>
  PROVE  FilesInv'
<1>1. Works(n) /\ finished' = finished \cup {n} /\ stage'[n] = "done" /\ result'[n] = res
  BY RespondWorks DEF Results
<1>2. StageOK(n)'
  BY <1>1 DEF FilesInv, StagesOK, StageOK, Works
<1>3. FileSystemOK'
  BY <1>1, FilesKept
<1>4. BarrierOK(n)'
  BY <1>1 DEF BarrierOK
<1>5. target' \in [Packets -> Packets \cup {0}]
  BY DEF FilesInv, StagesOK
<1> QED BY <1>1, <1>2, <1>3, <1>4, <1>5, WorkInv

LEMMA DeniedInv ==
  ASSUME FilesInv, NEW n \in Packets, Denied(n)
  PROVE  FilesInv'
<1>1. /\ Modifies(request[n]) /\ Respond(n, "denied") /\ stage[n] = "idle"
      /\ UNCHANGED <<request, inputEnded, served, tableVars, fsVars, target, opened, closed>>
  BY DEF Denied, inVars
<1>2. request[n].op # "close"
  BY <1>1 DEF Modifies
<1> QED BY <1>1, <1>2, AnswerInv

LEMMA UseFileInv ==
  ASSUME FilesInv, NEW n \in Packets, UseFile(n)
  PROVE  FilesInv'
<1>1. /\ Respond(n, "ok") \/ Respond(n, "failed")
      /\ request[n].op # "close" /\ stage[n] = "found"
      /\ UNCHANGED <<request, inputEnded, served, tableVars, fsVars, target, opened, closed>>
  BY DEF UseFile, Serving, inVars
<1> QED BY <1>1, AnswerInv

LEMMA SetstatDoneInv ==
  ASSUME FilesInv, NEW n \in Packets, SetstatDone(n)
  PROVE  FilesInv'
<1>1. /\ Respond(n, "ok") /\ request[n].op # "close" /\ stage[n] = "setting"
      /\ UNCHANGED <<request, inputEnded, served, tableVars, fsVars, target, opened, closed>>
  BY DEF SetstatDone, Serving, inVars
<1> QED BY <1>1, AnswerInv

LEMMA ApplyPartInv ==
  ASSUME FilesInv, NEW n \in Packets, ApplyPart(n)
  PROVE  FilesInv'
<1>1. /\ request[n].op # "close" /\ stage[n] = "setting"
      /\ UNCHANGED <<request, inputEnded, served, tableVars, fsVars, target, opened, closed>>
  BY DEF ApplyPart, Serving, inVars
<1>2. CASE UNCHANGED <<vars, stage, result>>
  <2>1. PipeOK' /\ UNCHANGED <<arrived, begun, finished>> /\ Arrivals' = Arrivals
    BY <1>2, PipeStutter DEF FilesInv, vars, Arrivals
  <2> QED BY <1>1, <1>2, <2>1, PipelineInv DEF FilesInv, ServedOK
<1>3. CASE Respond(n, "failed")
  BY <1>1, <1>3, AnswerInv
<1> QED BY <1>2, <1>3 DEF ApplyPart

LEMMA StatDirectoryInv ==
  ASSUME FilesInv, NEW n \in Packets, StatDirectory(n)
  PROVE  FilesInv'
<1>1. /\ n \in begun \ finished /\ request[n].op = "opendir" /\ stage[n] = "idle"
      /\ UNCHANGED <<request, inputEnded, served, tableVars, fsVars, target, opened, closed>>
  BY DEF StatDirectory, Serving, inVars
<1>2. CASE name[request[n].path] \in directory /\ GoTo(n, "stated")
  <2>1. Works(n) /\ finished' = finished /\ result'[n] = "pending" /\ stage'[n] = "stated"
    BY <1>1, <1>2, GoToWorks
  <2>2. StageOK(n)'
    BY <1>1, <2>1 DEF FilesInv, StagesOK, StageOK, Works
  <2>3. FileSystemOK'
    BY <1>1, <1>2, <2>1, FilesKept
  <2>4. BarrierOK(n)' /\ target' \in [Packets -> Packets \cup {0}]
    BY <1>1, <2>1 DEF BarrierOK, FilesInv, StagesOK
  <2> QED BY <1>1, <2>1, <2>2, <2>3, <2>4, WorkInv
<1>3. CASE Respond(n, "failed")
  BY <1>1, <1>3, AnswerInv
<1> QED BY <1>2, <1>3 DEF StatDirectory

LEMMA BeginSetstatInv ==
  ASSUME FilesInv, NEW n \in Packets, BeginSetstat(n)
  PROVE  FilesInv'
<1>1. /\ n \in begun \ finished /\ GoTo(n, "setting")
      /\ (request[n].op = "setstat" /\ stage[n] = "idle") \/ (request[n].op = "fsetstat" /\ stage[n] = "found")
      /\ UNCHANGED <<request, inputEnded, served, tableVars, fsVars, target, opened, closed>>
  BY DEF BeginSetstat, Serving, inVars
<1>2. Works(n) /\ finished' = finished /\ result'[n] = "pending" /\ stage'[n] = "setting"
  BY <1>1, GoToWorks
<1>3. StageOK(n)'
  BY <1>1, <1>2 DEF FilesInv, StagesOK, StageOK, Works
<1>4. FileSystemOK'
  BY <1>1, <1>2, FilesKept
<1>5. BarrierOK(n)' /\ target' \in [Packets -> Packets \cup {0}]
  BY <1>1, <1>2 DEF BarrierOK, FilesInv, StagesOK
<1> QED BY <1>1, <1>2, <1>3, <1>4, <1>5, WorkInv

LEMMA GetHandleInv ==
  ASSUME FilesInv, NEW n \in Packets, GetHandle(n)
  PROVE  FilesInv'
<1> DEFINE file == openFiles[handle[request[n].on]]
<1>1. /\ n \in begun \ finished /\ request[n].op \in HandleOps \ {"close"} /\ stage[n] = "idle"
      /\ target' = [target EXCEPT ![n] = file]
      /\ IF file = 0 THEN Respond(n, "badHandle") ELSE GoTo(n, "found")
      /\ UNCHANGED <<request, inputEnded, served, tableVars, fsVars, opened, closed>>
  BY DEF GetHandle, Serving, inVars
<1>2. request[n].on \in Packets /\ result[request[n].on] = "handle"
  BY <1>1, Ranges DEF FilesInv, RequestsOK
<1>3. file \in {0, request[n].on} /\ request[n].on # 0
  BY <1>2, OpenFor, Ranges
<1>4. ClosesBefore(n) = {} => file # 0
  BY <1>1, <1>3, FindsOpen
<1> HIDE DEF file
<1>5. /\ target' \in [Packets -> Packets \cup {0}] /\ target'[n] = file
      /\ \A m \in Packets \ {n} : target'[m] = target[m]
  BY <1>1, <1>2, <1>3 DEF FilesInv, StagesOK
<1>6. CASE file = 0
  <2>1. Works(n) /\ finished' = finished \cup {n} /\ stage'[n] = "done" /\ result'[n] = "badHandle"
    BY <1>1, <1>6, RespondWorks DEF Results
  <2>2. StageOK(n)'
    BY <1>1, <1>5, <1>6, <2>1 DEF StageOK, Works
  <2>3. FileSystemOK'
    BY <1>1, <2>1, FilesKept
  <2>4. BarrierOK(n)'
    BY <1>1, <1>4, <1>6 DEF BarrierOK, ClosesBefore
  <2> QED BY <1>1, <1>5, <2>1, <2>2, <2>3, <2>4, WorkInv
<1>7. CASE file # 0
  <2>1. Works(n) /\ finished' = finished /\ result'[n] = "pending" /\ stage'[n] = "found"
    BY <1>1, <1>7, GoToWorks
  <2>2. StageOK(n)'
    BY <1>1, <1>3, <1>5, <1>7, <2>1 DEF StageOK, Works
  <2>3. FileSystemOK'
    BY <1>1, <2>1, FilesKept
  <2>4. BarrierOK(n)'
    BY <2>1 DEF BarrierOK
  <2> QED BY <1>1, <1>5, <2>1, <2>2, <2>3, <2>4, WorkInv
<1> QED BY <1>6, <1>7

-----------------------------------------------------------------------------
(* Steps that change the file system.                                      *)

\* Names may come to stand for another inode, or for the one the packet makes, which may
\* be a directory.
LEMMA NamesMove ==
  ASSUME FilesInv, NEW n \in Packets, Works(n), request[n].op \in Touching,
         stage[n] = "idle", stage'[n] = "done", result'[n] # "handle",
         UNCHANGED <<request, opened>>, directory' \in {directory, directory \cup {n}},
         name' \in [Names -> Nat],
         \A f \in Names : name'[f] \in {0, n} \/ \E g \in Names : name'[f] = name[g]
  PROVE  FileSystemOK'
<1> USE DEF Works
<1>1. n \in Nat \ {0}
  BY Ranges
<1>2. /\ n \notin directory /\ \A f \in Names : name[f] # n
      /\ \A m \in Packets : opened[m] # n
  BY DEF FilesInv, FileSystemOK, OpenedOK
<1>3. ASSUME NEW m \in Packets \ {n}
      PROVE  OpenedOK(m)'
  <2>1. OpenedOK(m) /\ StageOK(m) /\ m # 0
    BY Ranges DEF FilesInv, FileSystemOK, StagesOK
  <2>2. stage[m] # "stated"
    <3>1. stage[m] = "stated" => m \in begun \ finished /\ request[m].op \in Touching
      BY <2>1 DEF StageOK, Touching
    <3> QED BY <3>1, OneTouches
  <2>3. stage[m] = "idle" => m \notin directory' /\ \A f \in Names : name'[f] # m
    BY <2>1 DEF OpenedOK
  <2> QED BY <1>2, <2>1, <2>2, <2>3 DEF OpenedOK
<1>4. OpenedOK(n)'
  <2>1. opened[n] = 0
    BY DEF FilesInv, FileSystemOK, OpenedOK
  <2> QED BY <2>1 DEF OpenedOK
<1> QED BY <1>1, <1>3, <1>4 DEF FilesInv, FileSystemOK

LEMMA PathOperationInv ==
  ASSUME FilesInv, NEW n \in Packets, PathOperation(n)
  PROVE  FilesInv'
<1> DEFINE r == request[n]
<1>1. /\ n \in begun \ finished /\ r.op \in PathOps /\ stage[n] = "idle"
      /\ UNCHANGED <<request, inputEnded, served, tableVars, target, opened, closed>>
  BY DEF PathOperation, Serving, inVars
<1>2. r.op # "close" /\ r.op \in Touching
  BY <1>1 DEF PathOps, Touching
<1>3. r.path \in Names /\ r.to \in Names
  BY <1>1, Ranges DEF FilesInv, RequestsOK
<1>4. name \in [Names -> Nat] /\ n \in Nat
  BY Ranges DEF FilesInv, FileSystemOK
<1>5. CASE Respond(n, "failed") /\ UNCHANGED fsVars
  BY <1>1, <1>2, <1>5, AnswerInv
<1>6. CASE Respond(n, "ok") /\ UNCHANGED fsVars
  BY <1>1, <1>2, <1>6, AnswerInv
<1>7. ASSUME Respond(n, "ok"), directory' \in {directory, directory \cup {n}},
             name' \in [Names -> Nat],
             \A f \in Names : name'[f] \in {0, n} \/ \E g \in Names : name'[f] = name[g]
      PROVE  FilesInv'
  <2>1. Works(n) /\ finished' = finished \cup {n} /\ stage'[n] = "done" /\ result'[n] = "ok"
    BY <1>7, RespondWorks DEF Results
  <2>2. FileSystemOK'
    BY <1>1, <1>2, <1>7, <2>1, NamesMove
  <2>3. StageOK(n)'
    BY <1>1, <2>1 DEF FilesInv, StagesOK, StageOK, Works
  <2>4. BarrierOK(n)' /\ target' \in [Packets -> Packets \cup {0}]
    BY <1>1, <2>1 DEF BarrierOK, FilesInv, StagesOK
  <2> QED BY <1>1, <1>2, <2>1, <2>2, <2>3, <2>4, WorkInv
<1> HIDE DEF r
<1>8. CASE Respond(n, "ok") /\ Mkdir(n, r)
  <2>1. name' = [name EXCEPT ![r.path] = n] /\ directory' = directory \cup {n}
    BY <1>8 DEF Mkdir
  <2> QED BY <1>3, <1>4, <1>7, <1>8, <2>1
<1>9. CASE Respond(n, "ok") /\ Unlink(r)
  <2>1. name' = [name EXCEPT ![r.path] = 0] /\ directory' = directory
    BY <1>9 DEF Unlink
  <2> QED BY <1>3, <1>4, <1>7, <1>9, <2>1
<1>10. CASE Respond(n, "ok") /\ Rename(r)
  <2>1. directory' = directory
    BY <1>10 DEF Rename
  <2>2. name' = name \/ name' = [name EXCEPT ![r.path] = 0, ![r.to] = name[r.path]]
    BY <1>10 DEF Rename
  <2>3. name' \in [Names -> Nat] /\ \A f \in Names : name'[f] = 0 \/ \E g \in Names : name'[f] = name[g]
    BY <1>3, <1>4, <2>2
  <2> QED BY <1>7, <1>10, <2>1, <2>3
<1>11. CASE Respond(n, "ok") /\ Link(r)
  <2>1. name' = [name EXCEPT ![r.to] = name[r.path]] /\ directory' = directory
    BY <1>11 DEF Link
  <2> QED BY <1>3, <1>4, <1>7, <1>11, <2>1
<1>12. \/ Respond(n, "failed") /\ UNCHANGED fsVars
       \/ Respond(n, "ok") /\ UNCHANGED fsVars
       \/ Respond(n, "ok") /\ Mkdir(n, r)
       \/ Respond(n, "ok") /\ Unlink(r)
       \/ Respond(n, "ok") /\ Rename(r)
       \/ Respond(n, "ok") /\ Link(r)
  <2>1. CASE r.op = "stat"
    BY <2>1 DEF PathOperation, r
  <2>2. CASE r.op = "mkdir"
    BY <2>2 DEF PathOperation, r
  <2>3. CASE r.op = "remove"
    BY <2>3 DEF PathOperation, r
  <2>4. CASE r.op = "rename"
    BY <2>4 DEF PathOperation, r
  <2>5. CASE r.op = "hardlink"
    BY <2>5 DEF PathOperation, r
  <2> QED BY <1>1, <2>1, <2>2, <2>3, <2>4, <2>5 DEF PathOps
<1> QED BY <1>5, <1>6, <1>8, <1>9, <1>10, <1>11, <1>12

LEMMA OpenInv ==
  ASSUME FilesInv, NEW n \in Packets, Open(n)
  PROVE  FilesInv'
<1> DEFINE path == request[n].path
<1> DEFINE flags == IF request[n].op = "open" THEN request[n].flags ELSE {"read"}
<1>1. /\ n \in begun \ finished
      /\ (request[n].op = "open" /\ stage[n] = "idle") \/ (request[n].op = "opendir" /\ stage[n] = "stated")
      /\ UNCHANGED <<request, inputEnded, served, tableVars, target, closed>>
  BY DEF Open, Serving, inVars
<1>2. CASE Respond(n, "failed") /\ UNCHANGED <<fsVars, opened>>
  BY <1>1, <1>2, AnswerInv
<1>3. CASE OpenFile(n, path, flags) /\ GoTo(n, "opened")
  <2>1. /\ Works(n) /\ finished' = finished /\ result'[n] = "pending" /\ stage'[n] = "opened"
    BY <1>1, <1>3, GoToWorks
  <2>2. path \in Names /\ n \in Nat \ {0}
    BY <1>1, Ranges DEF FilesInv, RequestsOK
  <2>3. name \in [Names -> Nat] /\ directory \subseteq Nat \ {0} /\ opened \in [Packets -> Nat]
    BY DEF FilesInv, FileSystemOK
  <2>4. /\ name[path] # 0 /\ name[path] \in directory => flags \intersect {"write", "creat"} = {}
        /\ name' = [name EXCEPT ![path] = IF name[path] = 0 THEN n ELSE name[path]]
        /\ opened' = [opened EXCEPT ![n] = name'[path]] /\ directory' = directory
    BY <1>3 DEF OpenFile
  <2>5. /\ name' \in [Names -> Nat] /\ opened' \in [Packets -> Nat]
        /\ opened'[n] = IF name[path] = 0 THEN n ELSE name[path]
        /\ \A m \in Packets \ {n} : opened'[m] = opened[m]
        /\ \A f \in Names : name'[f] = n \/ name'[f] = name[f]
    BY <2>2, <2>3, <2>4
  <2>6. OpenedOK(n) /\ n \notin directory
    BY <1>1 DEF FilesInv, FileSystemOK, OpenedOK
  <2> HIDE DEF path
  <2>7. ASSUME NEW m \in Packets \ {n}
        PROVE  OpenedOK(m)'
    <3>1. OpenedOK(m) /\ StageOK(m)
      BY DEF FilesInv, FileSystemOK, StagesOK
    <3>2. stage[m] # "stated"
      <4>1. stage[m] = "stated" => m \in begun \ finished /\ request[m].op \in Touching
        BY <3>1 DEF StageOK, Touching
      <4>2. request[n].op \in Touching
        BY <1>1 DEF Touching
      <4> QED BY <1>1, <4>1, <4>2, OneTouches
    <3>3. stage[m] = "idle" => \A k \in Packets : opened'[k] # m
      BY <2>2, <2>5, <3>1 DEF OpenedOK, path
    <3>4. stage[m] = "idle" => m \notin directory' /\ \A f \in Names : name'[f] # m
      BY <2>4, <2>5, <3>1 DEF OpenedOK
    <3> QED BY <1>1, <2>1, <2>4, <2>5, <3>1, <3>2, <3>3, <3>4 DEF OpenedOK, Works
  <2>8. OpenedOK(n)'
    <3>1. opened'[n] # 0 /\ request'[n] = request[n]
      BY <1>1, <2>2, <2>5
    <3>2. request[n].op = "opendir" => opened'[n] \in directory
      BY <1>1, <2>3, <2>5, <2>6 DEF OpenedOK, path
    <3>3. request[n].op = "open" /\ "write" \in request[n].flags => opened'[n] \notin directory
      BY <2>4, <2>5, <2>6
    <3>4. n \notin finished'
      BY <1>1, <2>1
    <3> QED BY <1>1, <2>1, <2>4, <3>1, <3>2, <3>3, <3>4 DEF OpenedOK
  <2>9. FileSystemOK'
    BY <2>3, <2>4, <2>5, <2>7, <2>8 DEF FileSystemOK
  <2>10. StageOK(n)'
    BY <1>1, <2>1 DEF FilesInv, StagesOK, StageOK, Works
  <2>11. BarrierOK(n)' /\ target' \in [Packets -> Packets \cup {0}]
    BY <1>1, <2>1 DEF BarrierOK, FilesInv, StagesOK
  <2> QED BY <1>1, <2>1, <2>9, <2>10, <2>11, WorkInv
<1> QED BY <1>2, <1>3 DEF Open

-----------------------------------------------------------------------------
(* Steps that change the table of open files.                              *)

LEMMA NextHandleInv ==
  ASSUME FilesInv, NEW n \in Packets, NextHandle(n)
  PROVE  FilesInv'
<1> DEFINE h == handleCount + 1
<1> USE DEF Works
<1>1. /\ n \in begun \ finished /\ request[n].op \in {"open", "opendir"} /\ stage[n] = "opened"
      /\ handleCount' = h /\ handle' = [handle EXCEPT ![n] = h]
      /\ openFiles' = [openFiles EXCEPT ![h] = n] /\ Respond(n, "handle")
      /\ UNCHANGED <<request, inputEnded, served, fsVars, target, opened, closed>>
  BY DEF NextHandle, Serving, inVars
<1>2. Works(n) /\ finished' = finished \cup {n} /\ stage'[n] = "done" /\ result'[n] = "handle"
  BY <1>1, RespondWorks DEF Results
<1>3. handle[n] = 0
  BY <1>2 DEF FilesInv, TableOK
<1>4. /\ h \in Packets /\ openFiles[h] = 0 /\ h # 0 /\ h \in Nat /\ h > handleCount
      /\ handleCount \in Nat /\ \A m \in Packets : handle[m] # h
      /\ Cardinality({m \in Packets : handle[m] # 0} \cup {n}) = h
  <2>1. handleCount \in Nat
    BY DEF FilesInv, TableOK
  <2>2. /\ h \in Packets /\ openFiles[h] = 0 /\ \A m \in Packets : handle[m] # h
        /\ Cardinality({m \in Packets : handle[m] # 0} \cup {n}) = h
    BY <1>3, NewHandle
  <2> QED BY <2>1, <2>2
<1> HIDE DEF h
<1>5. /\ handle'[n] = h /\ openFiles'[h] = n
      /\ \A m \in Packets \ {n} : handle'[m] = handle[m]
      /\ \A i \in Packets \ {h} : openFiles'[i] = openFiles[i]
  BY <1>1, <1>4 DEF FilesInv, TableOK
<1>6. RequestsOK'
  BY <1>1, <1>2 DEF FilesInv, RequestsOK
<1>7. TableOK'
  <2>1. /\ handleCount' \in Nat /\ handle' \in [Packets -> Nat]
        /\ openFiles' \in [Packets -> Packets \cup {0}]
    BY <1>1, <1>4 DEF FilesInv, TableOK
  <2>2. {m \in Packets : handle'[m] # 0} = {m \in Packets : handle[m] # 0} \cup {n}
    BY <1>4, <1>5
  <2>3. handleCount' = Cardinality({m \in Packets : handle'[m] # 0})
    BY <1>1, <1>4, <2>2
  <2>4. \A m \in Packets : handle'[m] <= handleCount' /\ (handle'[m] # 0 <=> result'[m] = "handle")
    BY <1>1, <1>2, <1>4, <1>5 DEF FilesInv, TableOK
  <2>5. \A m, k \in Packets : handle'[m] = handle'[k] /\ handle'[m] # 0 => m = k
    BY <1>4, <1>5 DEF FilesInv, TableOK
  <2>6. \A i \in Packets : openFiles'[i] # 0 => handle'[openFiles'[i]] = i
    <3>1. \A i \in Packets \ {h} : openFiles[i] # 0 =>
             openFiles[i] \in Packets \ {n} /\ handle[openFiles[i]] = i
      BY <1>3, Ranges DEF FilesInv, TableOK
    <3>2. \A i \in Packets \ {h} : openFiles'[i] # 0 => handle'[openFiles'[i]] = i
      BY <1>5, <3>1
    <3>3. handle'[openFiles'[h]] = h
      BY <1>5
    <3> QED BY <3>2, <3>3
  <2> QED BY <2>1, <2>3, <2>4, <2>5, <2>6 DEF TableOK
<1>8. StagesOK'
  BY <1>1, <1>2 DEF FilesInv, StagesOK, StageOK
<1>9. FileSystemOK'
  BY <1>1, <1>2 DEF FilesInv, FileSystemOK, OpenedOK, fsVars
<1>10. \A p \in Packets : result[p] = "handle" =>
         p # n /\ handle'[p] = handle[p] /\ openFiles'[handle[p]] = openFiles[handle[p]]
  BY <1>2, <1>4, <1>5, OpenFor
<1>11. ClosedOK'
  <2>1. \A p \in Packets \ {n} : result'[p] = result[p]
    BY <1>2
  <2>2. \A p \in Packets \ {n} : closed'[p] =
          IF result'[p] = "handle" /\ (served' \/ openFiles'[handle'[p]] # p) THEN 1 ELSE 0
    BY <1>1, <1>10, <2>1 DEF FilesInv, ClosedOK
  <2>3. closed'[n] = 0 /\ openFiles'[handle'[n]] = n /\ ~ served'
    BY <1>1, <1>2, <1>5, NotServed DEF FilesInv, ClosedOK
  <2> QED BY <1>1, <2>2, <2>3 DEF FilesInv, ClosedOK
<1>12. ServedOK'
  BY <1>1, NotServed DEF ServedOK
<1>13. ClosesOK'
  <2>1. openFiles'[handle'[n]] = n
    BY <1>5
  <2>2. \A p \in Packets \ {n} : result'[p] = "handle" =>
          \/ openFiles'[handle'[p]] = p
          \/ \E c \in finished' : request'[c].op = "close" /\ request'[c].on = p
    BY <1>1, <1>2, <1>10 DEF FilesInv, ClosesOK
  <2> QED BY <2>1, <2>2 DEF ClosesOK
<1>14. \A m \in Arrivals' : BarrierOK(m)'
  BY <1>1, <1>2, Ranges DEF FilesInv, BarrierOK, ClosesBefore
<1> QED BY <1>2, <1>6, <1>7, <1>8, <1>9, <1>11, <1>12, <1>13, <1>14 DEF FilesInv

LEMMA CloseHandleInv ==
  ASSUME FilesInv, NEW n \in Packets, CloseHandle(n)
  PROVE  FilesInv'
<1> DEFINE p == request[n].on
<1> DEFINE h == handle[p]
<1> USE DEF Works
<1>1. /\ n \in begun \ finished /\ request[n].op = "close" /\ stage[n] = "idle"
      /\ UNCHANGED <<request, inputEnded, served, handleCount, handle, fsVars, target, opened>>
  BY DEF CloseHandle, Serving, inVars
<1>2. p \in Packets /\ result[p] = "handle"
  BY <1>1, Ranges DEF FilesInv, RequestsOK, HandleOps
<1>3. h # 0 /\ h \in Packets /\ openFiles[h] \in {0, p} /\ p # 0
  BY <1>2, OpenFor, Ranges
<1>4. target[n] = 0 /\ target \in [Packets -> Packets \cup {0}]
  BY <1>1 DEF FilesInv, StagesOK, StageOK
<1>5. CASE openFiles[h] = 0
  <2>1. Respond(n, "badHandle") /\ UNCHANGED <<openFiles, closed>>
    BY <1>5 DEF CloseHandle
  <2>2. Works(n) /\ finished' = finished \cup {n} /\ stage'[n] = "done" /\ result'[n] = "badHandle"
    BY <2>1, RespondWorks DEF Results
  <2>3. StageOK(n)'
    BY <1>1, <1>4, <2>2 DEF StageOK
  <2>4. FileSystemOK'
    BY <1>1, <2>2, FilesKept
  <2>5. BarrierOK(n)'
    BY <1>1, <1>3, <1>5, FindsOpen DEF BarrierOK, ClosesBefore
  <2> QED BY <1>1, <1>4, <1>5, <2>1, <2>2, <2>3, <2>4, <2>5, WorkInv DEF tableVars
<1>6. CASE openFiles[h] = p
  <2>1. /\ openFiles' = [openFiles EXCEPT ![h] = 0]
        /\ closed' = [closed EXCEPT ![p] = closed[p] + 1]
        /\ Respond(n, "ok") \/ Respond(n, "failed")
    BY <1>3, <1>6 DEF CloseHandle
  <2>2. /\ Works(n) /\ finished' = finished \cup {n} /\ stage'[n] = "done"
        /\ result'[n] \in {"ok", "failed"}
    BY <2>1, RespondWorks DEF Results
  <2>3. /\ openFiles' \in [Packets -> Packets \cup {0}] /\ openFiles'[h] = 0
        /\ \A i \in Packets \ {h} : openFiles'[i] = openFiles[i]
        /\ \A m \in Packets \ {p} : handle[m] # h
    BY <1>2, <1>3, <2>1 DEF FilesInv, TableOK
  <2>4. closed[p] = 0
    BY <1>1, <1>2, <1>6, NotServed DEF FilesInv, ClosedOK
  <2>5. /\ closed' \in [Packets -> Nat] /\ closed'[p] = 1
        /\ \A m \in Packets \ {p} : closed'[m] = closed[m]
    BY <1>2, <2>1, <2>4 DEF FilesInv, ClosedOK
  <2> HIDE DEF h, p
  <2>6. /\ n # p /\ result'[n] # "handle" /\ result[n] # "handle"
        /\ \A m \in Packets : result'[m] = "handle" <=> result[m] = "handle"
    BY <1>1, <1>2, <2>2
  <2>7. RequestsOK'
    BY <1>1, <2>2, <2>6 DEF FilesInv, RequestsOK
  <2>8. TableOK'
    BY <1>1, <1>3, <2>3, <2>6 DEF FilesInv, TableOK
  <2>9. StagesOK'
    BY <1>1, <1>4, <2>2 DEF FilesInv, StagesOK, StageOK
  <2>10. FileSystemOK'
    BY <1>1, <2>2, FilesKept
  <2>11. \A m \in Packets \ {p} : result[m] = "handle" =>
           openFiles'[handle[m]] = openFiles[handle[m]]
    BY <2>3, OpenFor
  <2>12. openFiles'[handle[p]] = 0
    BY <2>3 DEF h
  <2>13. ClosedOK'
    <3>1. \A m \in Packets \ {p} : closed'[m] =
            IF result'[m] = "handle" /\ (served' \/ openFiles'[handle'[m]] # m) THEN 1 ELSE 0
      BY <1>1, <2>5, <2>6, <2>11 DEF FilesInv, ClosedOK
    <3>2. closed'[p] = 1 /\ result'[p] = "handle" /\ openFiles'[handle'[p]] # p
      BY <1>1, <1>2, <1>3, <2>5, <2>6, <2>12
    <3> QED BY <2>5, <3>1, <3>2 DEF ClosedOK
  <2>14. ServedOK'
    BY <1>1, NotServed DEF ServedOK
  <2>15. ClosesOK'
    <3>1. \A m \in Packets \ {p} : result'[m] = "handle" =>
            \/ openFiles'[handle'[m]] = m
            \/ \E c \in finished' : request'[c].op = "close" /\ request'[c].on = m
      BY <1>1, <2>2, <2>6, <2>11 DEF FilesInv, ClosesOK
    <3>2. \E c \in finished' : request'[c].op = "close" /\ request'[c].on = p
      BY <1>1, <2>2 DEF p
    <3> QED BY <3>1, <3>2 DEF ClosesOK
  <2>16. \A m \in Arrivals' : BarrierOK(m)'
    BY <1>1, <2>2, Ranges DEF FilesInv, BarrierOK, ClosesBefore
  <2> QED BY <2>2, <2>7, <2>8, <2>9, <2>10, <2>13, <2>14, <2>15, <2>16 DEF FilesInv
<1> QED BY <1>3, <1>5, <1>6

LEMMA ServeReturnsInv ==
  ASSUME FilesInv, ServeReturns
  PROVE  FilesInv'
<1>1. /\ inputEnded /\ ~ served /\ finished = Arrivals /\ served'
      /\ UNCHANGED vars
      /\ UNCHANGED <<request, inputEnded, tableVars, fsVars, stage, target, result, opened>>
      /\ closed' = [n \in Packets |-> IF \E h \in Packets : openFiles[h] = n THEN closed[n] + 1
                                                                            ELSE closed[n]]
  BY DEF ServeReturns, Arrivals
<1>2. PipeOK' /\ UNCHANGED <<arrived, begun, finished>> /\ Arrivals' = Arrivals
  BY <1>1, PipeStutter DEF FilesInv, vars, Arrivals
<1>3. RequestsOK' /\ TableOK'
  BY <1>1, <1>2 DEF FilesInv, RequestsOK, TableOK, tableVars
<1>4. StagesOK'
  BY <1>1, <1>2 DEF FilesInv, StagesOK, StageOK
<1>5. FileSystemOK'
  BY <1>1, <1>2 DEF FilesInv, FileSystemOK, OpenedOK, fsVars
<1>6. ClosedOK'
  <2>1. \A n, i \in Packets : openFiles[i] = n => result[n] = "handle" /\ handle[n] = i
    BY Ranges DEF FilesInv, TableOK
  <2>2. ASSUME NEW n \in Packets
        PROVE  closed'[n] = IF result[n] = "handle" THEN 1 ELSE 0
    <3>1. closed[n] = IF result[n] = "handle" /\ openFiles[handle[n]] # n THEN 1 ELSE 0
      BY <1>1 DEF FilesInv, ClosedOK
    <3>2. CASE result[n] = "handle" /\ openFiles[handle[n]] = n
      <4>1. \E i \in Packets : openFiles[i] = n
        BY <3>2, OpenFor
      <4> QED BY <1>1, <3>1, <3>2, <4>1
    <3>3. CASE ~ (result[n] = "handle" /\ openFiles[handle[n]] = n)
      <4>1. ~ \E i \in Packets : openFiles[i] = n
        BY <2>1, <3>3
      <4> QED BY <1>1, <3>1, <3>3, <4>1
    <3> QED BY <3>2, <3>3
  <2>3. closed' \in [Packets -> Nat]
    BY <1>1 DEF FilesInv, ClosedOK
  <2> QED BY <1>1, <2>2, <2>3 DEF ClosedOK
<1>7. ServedOK'
  BY <1>1, <1>2 DEF ServedOK
<1>8. ClosesOK'
  BY <1>1, <1>2 DEF FilesInv, ClosesOK, tableVars
<1>9. \A m \in Arrivals' : BarrierOK(m)'
  BY <1>1, <1>2 DEF FilesInv, BarrierOK, ClosesBefore
<1> QED BY <1>2, <1>3, <1>4, <1>5, <1>6, <1>7, <1>8, <1>9 DEF FilesInv

LEMMA FilesStep ==
  ASSUME FilesInv, [FilesNext]_allVars
  PROVE  FilesInv'
<1>1. CASE ClientSends
  BY <1>1, ReceiveInv DEF ClientSends
<1>2. CASE InputEnds
  BY <1>2, InputEndsInv
<1>3. CASE SendReply
  BY <1>3, ReplyInv
<1>4. CASE \E n \in Packets : HandlePacket(n)
  <2>1. PICK n \in Packets : HandlePacket(n)
    BY <1>4
  <2>2. CASE Start(n)
    BY <2>2, StartInv
  <2>3. CASE Denied(n)
    BY <2>3, DeniedInv
  <2>4. CASE PathOperation(n)
    BY <2>4, PathOperationInv
  <2>5. CASE StatDirectory(n)
    BY <2>5, StatDirectoryInv
  <2>6. CASE Open(n)
    BY <2>6, OpenInv
  <2>7. CASE NextHandle(n)
    BY <2>7, NextHandleInv
  <2>8. CASE GetHandle(n)
    BY <2>8, GetHandleInv
  <2>9. CASE UseFile(n)
    BY <2>9, UseFileInv
  <2>10. CASE CloseHandle(n)
    BY <2>10, CloseHandleInv
  <2>11. CASE BeginSetstat(n)
    BY <2>11, BeginSetstatInv
  <2>12. CASE ApplyPart(n)
    BY <2>12, ApplyPartInv
  <2>13. CASE SetstatDone(n)
    BY <2>13, SetstatDoneInv
  <2> QED BY <2>1, <2>2, <2>3, <2>4, <2>5, <2>6, <2>7, <2>8, <2>9, <2>10, <2>11, <2>12, <2>13
          DEF HandlePacket
<1>5. CASE ServeReturns
  BY <1>5, ServeReturnsInv
<1>6. CASE AllDone \/ UNCHANGED allVars
  BY <1>6, StutterInv DEF AllDone
<1> QED BY <1>1, <1>2, <1>3, <1>4, <1>5, <1>6 DEF FilesNext

-----------------------------------------------------------------------------
(* The theorems.                                                           *)

\* What a Server knows of its files at every moment.
THEOREM FilesInvariant == FilesSpec => []FilesInv
<1>1. FilesInit => FilesInv
  BY FilesInitInv
<1>2. FilesInv /\ [FilesNext]_allVars => FilesInv'
  BY FilesStep
<1> QED BY <1>1, <1>2, PTL DEF FilesSpec

\* Every file that an open has opened is closed once, by the client or when Serve returns,
\* and a packet that came before the close of its handle uses the file while it is open.
THEOREM EveryFileClosedOnce == FilesSpec => []FilesClosedOnce
<1>1. FilesInv => FilesClosedOnce
  <2> SUFFICES ASSUME FilesInv
               PROVE  FilesClosedOnce
    OBVIOUS
  <2>1. ASSUME NEW n \in Packets
        PROVE  closed[n] <= (IF opened[n] = 0 THEN 0 ELSE 1)
    BY DEF FilesInv, ClosedOK, FileSystemOK, OpenedOK
  <2>2. ASSUME served, NEW n \in Packets, opened[n] # 0
        PROVE  closed[n] = 1
    <3>1. OpenedOK(n) /\ StageOK(n)
      BY DEF FilesInv, FileSystemOK, StagesOK
    <3>2. n \in finished
      BY <2>2, <3>1, Ranges DEF OpenedOK, StageOK, FilesInv, ServedOK
    <3>3. result[n] = "handle"
      BY <2>2, <3>1, <3>2 DEF OpenedOK
    <3> QED BY <2>2, <3>3 DEF FilesInv, ClosedOK
  <2>3. ASSUME NEW n \in DOMAIN request, request[n].on # 0, ClosesBefore(n) = {}
        PROVE  /\ result[n] # "badHandle"
               /\ stage[n] \in {"found", "setting"} => closed[target[n]] = 0
    <3>1. n \in Arrivals /\ n \in Packets
      BY Ranges DEF FilesInv, RequestsOK, Arrivals
    <3>2. result[n] # "badHandle"
      BY <2>3, <3>1 DEF FilesInv, BarrierOK
    <3>3. ASSUME stage[n] \in {"found", "setting"}
          PROVE  closed[target[n]] = 0
      <4>1. n \in begun \ finished /\ StageOK(n)
        BY <3>1, <3>3 DEF FilesInv, StagesOK, StageOK
      <4>2. request[n].op # "setstat"
        BY <2>3, <3>1 DEF FilesInv, RequestsOK, HandleOps
      <4>3. target[n] = request[n].on
        BY <3>3, <4>1, <4>2 DEF StageOK
      <4>4. /\ request[n].on \in Packets
            /\ openFiles[handle[request[n].on]] = request[n].on
        BY <2>3, <4>1, FindsOpen
      <4> QED BY <4>1, <4>3, <4>4, NotServed DEF FilesInv, ClosedOK
    <3> QED BY <3>2, <3>3
  <2> QED BY <2>1, <2>2, <2>3 DEF FilesClosedOnce
<1> QED BY <1>1, FilesInvariant, PTL

\* A handle stands for what its open opened: an opendir opens the directory it looked at, and
\* a file opened for writing is not a directory; handles are never shared.
THEOREM HandlesAreTheirFiles == FilesSpec => []HandlesNameTheirFile
<1>1. FilesInv => HandlesNameTheirFile
  <2> SUFFICES ASSUME FilesInv, NEW n \in DOMAIN request
               PROVE  /\ handle[n] # 0 =>
                         /\ request[n].op = "opendir" => opened[n] \in directory
                         /\ request[n].op = "open" /\ "write" \in request[n].flags =>
                              opened[n] \notin directory
                         /\ \A m \in Packets \ {n} : handle[m] # handle[n]
                      /\ target[n] \in {0, request[n].on}
    BY DEF HandlesNameTheirFile
  <2>1. n \in Packets
    BY Ranges DEF FilesInv, RequestsOK, Arrivals
  <2>2. OpenedOK(n) /\ StageOK(n)
    BY <2>1 DEF FilesInv, FileSystemOK, StagesOK
  <2>3. handle[n] # 0 => opened[n] # 0 /\ \A m \in Packets \ {n} : handle[m] # handle[n]
    BY <2>1, <2>2 DEF FilesInv, TableOK, OpenedOK
  <2> QED BY <2>2, <2>3 DEF OpenedOK, StageOK
<1> QED BY <1>1, FilesInvariant, PTL

-----------------------------------------------------------------------------
(* Setstats.                                                               *)

Applied == [by : Packets, part : Parts, inode : Nat]

\* The attributes that a setstat has set are done after the first from; those remaining
\* come after them in the packet, and while it is served nobody else sets any.
SetOK(n, from, done) ==
  LET parts == request[n].parts
      mine  == (from + 1)..(from + done) IN
    /\ from + done <= Len(applied) /\ done <= Len(parts)
    /\ \A i \in 1..Len(applied) : applied[i].by = n <=> i \in mine
    /\ \A k \in 1..done : applied[from + k].part = parts[k]
    /\ \A i, j \in mine : Firm(n, i) /\ Firm(n, j) => applied[i].inode = applied[j].inode
    /\ request[n].op = "fsetstat" =>
         \A i \in mine : Firm(n, i) => applied[i].inode = opened[request[n].on]
    /\ stage[n] \notin {"setting", "done"} => done = 0
    /\ stage[n] = "setting" =>
         /\ from + done = Len(applied)
         /\ Len(remaining[n]) = Len(parts) - done
         /\ \A k \in 1..Len(remaining[n]) : remaining[n][k] = parts[done + k]
         /\ request[n].op = "setstat" => \A i \in mine : applied[i].inode = name[request[n].path]
    /\ result[n] = "ok" => done = Len(parts)
    /\ result[n] \notin {"pending", "ok"} => done < Len(parts) \/ parts = <<>>

SetstatInv ==
  /\ applied \in Seq(Applied) /\ \A i \in 1..Len(applied) : applied[i].by \in Setstats
  /\ remaining \in [Packets -> Seq(Parts)]
  /\ \A n \in Packets : stage[n] = "setting" => n \in Setstats
  /\ \A n \in Setstats : \E from, done \in Nat : SetOK(n, from, done)

LEMMA SetstatPackets ==
  ASSUME FilesInv, NEW n \in Setstats
  PROVE  /\ n \in Arrivals /\ n \in Packets
         /\ request[n].op \in {"setstat", "fsetstat"} /\ request[n].parts \in Seq(Parts)
         /\ request[n].path \in Names
         /\ request[n].op = "fsetstat" => request[n].on \in Packets /\ result[request[n].on] = "handle"
<1>1. n \in Arrivals /\ n \in Packets /\ request[n].op \in {"setstat", "fsetstat"}
  BY Ranges DEF Setstats, FilesInv, RequestsOK, Arrivals
<1>2. request[n] \in Requests
  BY <1>1 DEF FilesInv, RequestsOK, Arrivals
<1>3. request[n].parts \in Seq(Parts)
  BY <1>2, MenuAssumption DEF Requests
<1> QED BY <1>1, <1>3 DEF FilesInv, RequestsOK, HandleOps

\* While a setstat is under way no other command is being served.
LEMMA SettingAlone ==
  ASSUME FilesInv, SetstatInv, NEW n \in begun \ finished, request[n].op \notin {"read", "write"},
         NEW m \in Packets, stage[m] = "setting"
  PROVE  m = n
<1>1. m \in begun \ finished /\ request[m].op \in {"setstat", "fsetstat"}
  BY DEF FilesInv, StagesOK, StageOK, SetstatInv, Setstats
<1>2. arrived[m] # "rw" /\ arrived[n] # "rw"
  BY <1>1, Ranges DEF FilesInv, RequestsOK, KindOf
<1> QED BY <1>1, <1>2, OneCommand DEF FilesInv

\* What a step leaves as it is that sets no attribute.
Keeps(n) ==
  /\ request[n].op = "fsetstat" => opened'[request[n].on] = opened[request[n].on]
  /\ stage'[n] = "setting" =>
       /\ stage[n] = "setting"
       /\ request[n].op = "setstat" => name'[request[n].path] = name[request[n].path]
  /\ stage'[n] \notin {"setting", "done"} => stage[n] \notin {"setting", "done"}
  /\ \/ result'[n] = result[n]
     \/ stage[n] \notin {"setting", "done"} /\ result'[n] # "ok"
     \/ /\ stage[n] = "setting" /\ result'[n] # "pending"
        /\ result'[n] = "ok" <=> remaining[n] = <<>>

LEMMA SetKept ==
  ASSUME FilesInv, SetstatInv, NEW n \in Setstats, Keeps(n), NEW from \in Nat, NEW done \in Nat,
         SetOK(n, from, done), UNCHANGED <<applied, remaining, request>>
  PROVE  SetOK(n, from, done)'
<1> DEFINE parts == request[n].parts
<1> DEFINE mine == (from + 1)..(from + done)
<1>1. parts \in Seq(Parts) /\ remaining[n] \in Seq(Parts) /\ Len(parts) \in Nat
      /\ (Len(parts) = 0 => parts = <<>>) /\ (Len(remaining[n]) = 0 <=> remaining[n] = <<>>)
  <2>1. parts \in Seq(Parts) /\ remaining[n] \in Seq(Parts)
    BY SetstatPackets DEF SetstatInv
  <2> HIDE DEF parts
  <2> QED BY <2>1
<1>2. /\ result'[n] = "ok" => done = Len(parts)
      /\ result'[n] \notin {"pending", "ok"} => done < Len(parts) \/ parts = <<>>
  <2>1. CASE result'[n] = result[n]
    BY <2>1 DEF SetOK
  <2>2. CASE stage[n] \notin {"setting", "done"} /\ result'[n] # "ok"
    BY <1>1, <2>2 DEF SetOK
  <2>3. CASE stage[n] = "setting" /\ (result'[n] = "ok" <=> remaining[n] = <<>>)
    <3>1. Len(remaining[n]) = Len(parts) - done /\ done <= Len(parts)
      BY <2>3 DEF SetOK
    <3> HIDE DEF parts
    <3> QED BY <1>1, <2>3, <3>1
  <2> QED BY <2>1, <2>2, <2>3 DEF Keeps
<1>3. \A i : Firm(n, i)' = Firm(n, i)
  BY DEF Firm
<1>4. request[n].op = "fsetstat" => opened'[request[n].on] = opened[request[n].on]
  BY DEF Keeps
<1>5. stage'[n] \notin {"setting", "done"} => done = 0
  BY DEF Keeps, SetOK
<1>6. stage'[n] = "setting" =>
         /\ from + done = Len(applied)
         /\ Len(remaining[n]) = Len(parts) - done
         /\ \A k \in 1..Len(remaining[n]) : remaining[n][k] = parts[done + k]
         /\ request[n].op = "setstat" => \A i \in mine : applied[i].inode = name'[request[n].path]
  BY DEF Keeps, SetOK
<1> QED BY <1>2, <1>3, <1>4, <1>5, <1>6 DEF SetOK

LEMMA SetstatsKept ==
  ASSUME FilesInv, SetstatInv, UNCHANGED <<applied, remaining, request>>,
         \A n \in Setstats : Keeps(n),
         \A n \in Packets : stage'[n] = "setting" => stage[n] = "setting"
  PROVE  SetstatInv'
<1>1. Setstats' = Setstats
  BY DEF Setstats
<1>2. \A n \in Setstats : \E from, done \in Nat : SetOK(n, from, done)'
  <2> TAKE n \in Setstats
  <2>1. PICK from \in Nat, done \in Nat : SetOK(n, from, done)
    BY DEF SetstatInv
  <2>2. SetOK(n, from, done)'
    BY <2>1, SetKept
  <2> QED BY <2>2
<1> QED BY <1>1, <1>2 DEF SetstatInv

\* The steps of a worker that set no attribute and begin no setstat.
LEMMA WorkKeeps ==
  ASSUME FilesInv, SetstatInv, NEW n \in Packets, Works(n),
         UNCHANGED <<applied, remaining, request>>, stage'[n] # "setting",
         stage[n] = "setting" => n \in finished' /\ (result'[n] = "ok" <=> remaining[n] = <<>>),
         stage[n] # "setting" /\ n \in Setstats => result'[n] # "ok",
         UNCHANGED name \/ (stage[n] # "setting" /\ request[n].op \notin {"read", "write"}),
         \A p \in Packets : result[p] = "handle" => opened'[p] = opened[p]
  PROVE  SetstatInv'
<1>1. /\ n \in begun \ finished /\ \A m \in Packets \ {n} : stage'[m] = stage[m] /\ result'[m] = result[m]
      /\ stage'[n] = "done" <=> n \in finished'
      /\ result'[n] # "pending" <=> n \in finished'
      /\ result[n] = "pending" /\ stage[n] # "done"
  BY DEF Works
<1>2. ASSUME NEW m \in Setstats
      PROVE  Keeps(m)
  <2>1. m \in Packets /\ (request[m].op = "fsetstat" => opened'[request[m].on] = opened[request[m].on])
    BY SetstatPackets
  <2>2. CASE m = n
    BY <1>1, <2>1, <2>2 DEF Keeps
  <2>3. CASE m # n
    <3>1. stage[m] = "setting" => UNCHANGED name
      BY <1>1, <2>1, <2>3, SettingAlone
    <3> QED BY <1>1, <2>1, <2>3, <3>1 DEF Keeps
  <2> QED BY <2>2, <2>3
<1> QED BY <1>1, <1>2, SetstatsKept

LEMMA ReceiveSetstats ==
  ASSUME FilesInv, SetstatInv, NEW r \in Menu, NEW on, ReceivePacket(r, on)
  PROVE  SetstatInv'
<1> DEFINE new == [op |-> r.op, path |-> r.path, to |-> r.to, flags |-> r.flags,
                   parts |-> r.parts, on |-> on]
<1>0. PICK k : k = Len(arrived) + 1
  OBVIOUS
<1>1. /\ request' = Append(request, new) /\ Len(arrived) < MaxPackets
      /\ UNCHANGED <<applied, remaining, name, opened, stage, result>>
  BY DEF ReceivePacket, Receive, fsVars
<1>2. new.parts \in Seq(Parts)
  BY MenuAssumption
<1> HIDE DEF new
<1>3. /\ DOMAIN request = Arrivals /\ DOMAIN request' = Arrivals \cup {k} /\ k \notin Arrivals
      /\ request'[k] = new /\ \A n \in Arrivals : request'[n] = request[n]
  BY <1>0, <1>1, Ranges DEF FilesInv, RequestsOK, Arrivals
<1>4. k \in Packets
  BY <1>0, <1>1, Ranges DEF Packets
<1>5. stage[k] = "idle" /\ result[k] = "pending"
  BY <1>3, <1>4, Ranges DEF FilesInv, StagesOK, StageOK
<1>6. Setstats \subseteq Arrivals /\ Setstats \subseteq Setstats' /\ Setstats' \subseteq Setstats \cup {k}
  BY <1>3 DEF Setstats
<1>7. ASSUME NEW n \in Setstats, NEW from \in Nat, NEW done \in Nat, SetOK(n, from, done)
      PROVE  SetOK(n, from, done)'
  <2>1. request'[n] = request[n] /\ \A i : Firm(n, i)' = Firm(n, i)
    BY <1>1, <1>3, <1>6 DEF Firm
  <2> QED BY <1>1, <1>7, <2>1 DEF SetOK
<1>8. \A n \in Setstats : \E from, done \in Nat : SetOK(n, from, done)'
  BY <1>7 DEF SetstatInv
<1>9. SetOK(k, 0, 0)'
  <2>1. \A i \in 1..Len(applied) : applied[i].by # k
    BY <1>3, <1>6 DEF SetstatInv
  <2>2. Len(applied) \in Nat /\ Len(new.parts) \in Nat
    BY <1>2 DEF SetstatInv
  <2> QED BY <1>1, <1>3, <1>5, <2>1, <2>2 DEF SetOK
<1> QED BY <1>1, <1>6, <1>8, <1>9 DEF SetstatInv

LEMMA BeginSetstats ==
  ASSUME FilesInv, SetstatInv, NEW n \in Packets, BeginSetstat(n)
  PROVE  SetstatInv'
<1>1. /\ n \in begun \ finished /\ request[n].op \in {"setstat", "fsetstat"}
      /\ stage[n] \in {"idle", "found"}
      /\ remaining' = [remaining EXCEPT ![n] = request[n].parts]
      /\ UNCHANGED <<request, applied, name, opened, result>>
      /\ stage' = [stage EXCEPT ![n] = "setting"]
  BY DEF BeginSetstat, Serving, inVars, fsVars, GoTo
<1>2. n \in Setstats /\ Setstats' = Setstats
  BY <1>1, Ranges DEF Setstats, FilesInv, RequestsOK, Arrivals
<1>3. request[n].parts \in Seq(Parts) /\ result[n] = "pending"
  BY <1>1, <1>2, SetstatPackets DEF FilesInv, StagesOK, StageOK
<1>4. /\ remaining' \in [Packets -> Seq(Parts)] /\ remaining'[n] = request[n].parts
      /\ stage'[n] = "setting"
      /\ \A m \in Packets \ {n} : remaining'[m] = remaining[m] /\ stage'[m] = stage[m]
  BY <1>1, <1>3 DEF SetstatInv, FilesInv, StagesOK
<1>5. ASSUME NEW m \in Setstats \ {n}, NEW from \in Nat, NEW done \in Nat, SetOK(m, from, done)
      PROVE  SetOK(m, from, done)'
  <2>1. m \in Packets \ {n} /\ \A i : Firm(m, i)' = Firm(m, i)
    BY <1>1, SetstatPackets DEF Firm
  <2> QED BY <1>1, <1>4, <1>5, <2>1 DEF SetOK
<1>6. \A m \in Setstats \ {n} : \E from, done \in Nat : SetOK(m, from, done)'
  BY <1>5 DEF SetstatInv
<1>7. Len(applied) \in Nat /\ SetOK(n, Len(applied), 0)'
  <2>1. PICK from \in Nat, done \in Nat : SetOK(n, from, done)
    BY <1>2 DEF SetstatInv
  <2>2. done = 0 /\ \A i \in 1..Len(applied) : applied[i].by # n
    BY <1>1, <2>1 DEF SetOK
  <2>3. Len(applied) \in Nat /\ Len(request[n].parts) \in Nat
    BY <1>3 DEF SetstatInv
  <2> QED BY <1>1, <1>3, <1>4, <2>2, <2>3 DEF SetOK
<1>8. \A m \in Setstats : \E from, done \in Nat : SetOK(m, from, done)'
  BY <1>6, <1>7
<1>9. applied' \in Seq(Applied) /\ \A i \in 1..Len(applied') : applied'[i].by \in Setstats
  BY <1>1 DEF SetstatInv
<1>10. \A m \in Packets : stage'[m] = "setting" => m \in Setstats
  BY <1>2, <1>4 DEF SetstatInv
<1> QED BY <1>2, <1>4, <1>8, <1>9, <1>10 DEF SetstatInv

\* One attribute is set: those of the packet go on being one block, and that of nobody else
\* is touched.
LEMMA PartSet ==
  ASSUME FilesInv, SetstatInv, NEW n \in Packets, n \in begun \ finished,
         request[n].op \in {"setstat", "fsetstat"}, stage[n] = "setting", remaining[n] # <<>>,
         InodeFor(n, Head(remaining[n])) # 0,
         applied' = Append(applied, [by |-> n, part |-> Head(remaining[n]),
                                     inode |-> InodeFor(n, Head(remaining[n]))]),
         remaining' = [remaining EXCEPT ![n] = Tail(@)],
         UNCHANGED <<request, name, opened, result, stage>>
  PROVE  SetstatInv'
<1> DEFINE rest == remaining[n]
<1> DEFINE parts == request[n].parts
<1> DEFINE inode == InodeFor(n, Head(rest))
<1> DEFINE new == [by |-> n, part |-> Head(rest), inode |-> inode]
<1>0. PICK len : len = Len(applied)
  OBVIOUS
<1>1. n \in Setstats /\ Setstats' = Setstats
  BY Ranges DEF Setstats, FilesInv, RequestsOK, Arrivals
<1>2. parts \in Seq(Parts) /\ rest \in Seq(Parts) /\ result[n] = "pending"
  BY <1>1, SetstatPackets DEF SetstatInv, FilesInv, StagesOK, StageOK
<1>3. /\ request[n].op = "fsetstat" => target[n] = request[n].on /\ target[n] \in Packets
      /\ \A m \in Packets : closed[m] \in Nat /\ opened[m] \in Nat
      /\ request[n].op = "fsetstat" => request[target[n]].path \in Names
      /\ name \in [Names -> Nat]
  <2>1. request[n].op = "fsetstat" => target[n] = request[n].on /\ target[n] \in Packets
    BY DEF FilesInv, StagesOK, StageOK
  <2>2. request[n].op = "fsetstat" => target[n] \in Arrivals
    BY <1>1, <2>1, SetstatPackets, Ranges DEF FilesInv, StagesOK, StageOK
  <2> QED BY <2>1, <2>2 DEF FilesInv, ClosedOK, FileSystemOK, RequestsOK
<1>4. inode \in Nat
  BY <1>1, <1>3, SetstatPackets DEF InodeFor
<1>5. /\ request[n].op = "setstat" => inode = name[request[n].path]
      /\ request[n].op = "fsetstat" /\ Head(rest) # "times" => inode = opened[request[n].on]
  BY <1>3 DEF InodeFor
<1> HIDE DEF inode
<1>6. /\ rest # <<>> /\ Len(rest) \in Nat /\ Len(rest) > 0 /\ Head(rest) = rest[1] /\ Head(rest) \in Parts
      /\ Tail(rest) \in Seq(Parts) /\ Len(Tail(rest)) = Len(rest) - 1
      /\ \A k \in 1..(Len(rest) - 1) : Tail(rest)[k] = rest[k + 1]
  <2>1. rest # <<>>
    OBVIOUS
  <2> HIDE DEF rest
  <2> QED BY <1>2, <2>1
<1>7. remaining' \in [Packets -> Seq(Parts)] /\ remaining'[n] = Tail(rest)
      /\ \A m \in Packets \ {n} : remaining'[m] = remaining[m]
  BY <1>6 DEF SetstatInv
<1> HIDE DEF rest
<1>8. new \in Applied
  BY <1>4, <1>6 DEF Applied
<1>9. new.by = n /\ new.part = Head(rest) /\ new.inode = inode
  OBVIOUS
<1>10. applied' = Append(applied, new)
  BY DEF inode, rest
<1> HIDE DEF new
<1>11. /\ applied' \in Seq(Applied) /\ Len(applied') = len + 1 /\ len \in Nat
       /\ applied'[len + 1] = new /\ \A i \in 1..len : applied'[i] = applied[i]
  BY <1>0, <1>8, <1>10 DEF SetstatInv
<1>12. \A i \in 1..Len(applied') : applied'[i].by \in Setstats
  BY <1>0, <1>1, <1>9, <1>11 DEF SetstatInv
<1>13. ASSUME NEW m \in Setstats \ {n}
       PROVE  \E from, done \in Nat : SetOK(m, from, done)'
  <2>1. PICK from \in Nat, done \in Nat : SetOK(m, from, done)
    BY DEF SetstatInv
  <2>2. m \in Packets \ {n} /\ stage[m] # "setting"
    BY SetstatPackets, SettingAlone
  <2>3. from + done <= len
    BY <1>0, <2>1 DEF SetOK
  <2> DEFINE mine == (from + 1)..(from + done)
  <2>4. mine \subseteq 1..len /\ len + 1 \notin mine
    BY <1>11, <2>3
  <2>5. \A i \in mine : applied'[i] = applied[i] /\ (Firm(m, i)' <=> Firm(m, i))
    BY <1>11, <2>4 DEF Firm
  <2>6. \A i \in 1..Len(applied') : applied'[i].by = m <=> i \in mine
    <3>1. \A i \in 1..len : applied'[i].by = m <=> i \in mine
      BY <1>0, <1>11, <2>1 DEF SetOK
    <3> HIDE DEF mine
    <3> QED BY <1>9, <1>11, <2>4, <3>1
  <2>7. \A k \in 1..done : from + k \in mine
    OBVIOUS
  <2>8. SetOK(m, from, done)'
    <3>1. \A k \in 1..done : applied'[from + k].part = request[m].parts[k]
      BY <2>1, <2>5, <2>7 DEF SetOK
    <3>2. \A i, j \in mine : Firm(m, i)' /\ Firm(m, j)' => applied'[i].inode = applied'[j].inode
      BY <2>1, <2>5 DEF SetOK
    <3>3. request[m].op = "fsetstat" =>
            \A i \in mine : Firm(m, i)' => applied'[i].inode = opened[request[m].on]
      BY <2>1, <2>5 DEF SetOK
    <3>4. from + done <= Len(applied')
      BY <1>11, <2>3
    <3> QED BY <2>1, <2>2, <2>6, <3>1, <3>2, <3>3, <3>4 DEF SetOK
  <2> QED BY <2>8
<1>14. \E from, done \in Nat : SetOK(n, from, done)'
  <2>1. PICK from \in Nat, done \in Nat : SetOK(n, from, done)
    BY <1>1 DEF SetstatInv
  <2> DEFINE mine == (from + 1)..(from + done)
  <2> DEFINE more == (from + 1)..(from + (done + 1))
  <2>2. /\ from + done = len /\ Len(rest) = Len(parts) - done
        /\ \A k \in 1..Len(rest) : rest[k] = parts[done + k]
        /\ request[n].op = "setstat" => \A i \in mine : applied[i].inode = name[request[n].path]
    BY <1>0, <2>1 DEF SetOK, rest
  <2>3. Len(parts) \in Nat
    BY <1>2
  <2> HIDE DEF parts
  <2>4. /\ more = mine \cup {len + 1} /\ mine \subseteq 1..len /\ len + 1 \notin mine
        /\ done + 1 <= Len(parts) /\ done + 1 \in Nat /\ from + (done + 1) = len + 1
    <3>1. done + 1 <= Len(parts) /\ done + 1 \in Nat /\ from + (done + 1) = len + 1
      BY <1>6, <1>11, <2>2, <2>3
    <3>2. more = mine \cup {len + 1} /\ mine \subseteq 1..len /\ len + 1 \notin mine
      BY <1>11, <2>2, <3>1
    <3> QED BY <3>1, <3>2
  <2>5. \A i \in mine : applied'[i] = applied[i] /\ (Firm(n, i)' <=> Firm(n, i))
    BY <1>11, <2>4 DEF Firm
  <2>6. \A i \in 1..Len(applied') : applied'[i].by = n <=> i \in more
    <3>1. \A i \in 1..len : applied'[i].by = n <=> i \in mine
      BY <1>0, <1>11, <2>1 DEF SetOK
    <3> HIDE DEF mine, more
    <3> QED BY <1>9, <1>11, <2>4, <3>1
  <2>7. \A k \in 1..(done + 1) : applied'[from + k].part = parts[k]
    <3> TAKE k \in 1..(done + 1)
    <3>1. CASE k \in 1..done
      <4>1. applied[from + k].part = parts[k] /\ from + k \in mine
        BY <2>1, <3>1 DEF SetOK, parts
      <4> QED BY <2>5, <4>1
    <3>2. CASE k = done + 1
      <4>1. from + k = len + 1 /\ 1 \in 1..Len(rest)
        BY <1>6, <2>4, <3>2
      <4>2. rest[1] = parts[k]
        BY <2>2, <3>2, <4>1
      <4> QED BY <1>6, <1>9, <1>11, <4>1, <4>2
    <3>3. k \in 1..done \/ k = done + 1
      OBVIOUS
    <3> QED BY <3>1, <3>2, <3>3
  <2>8. Firm(n, len + 1)' => request[n].op = "setstat" \/ Head(rest) # "times"
    BY <1>9, <1>11 DEF Firm
  <2>9. /\ request[n].op = "setstat" => \A i \in more : applied'[i].inode = name[request[n].path]
        /\ request[n].op = "fsetstat" =>
             \A i \in more : Firm(n, i)' => applied'[i].inode = opened[request[n].on]
    <3>1. request[n].op = "fsetstat" =>
            \A i \in mine : Firm(n, i)' => applied'[i].inode = opened[request[n].on]
      BY <2>1, <2>5 DEF SetOK
    <3>2. request[n].op = "setstat" => \A i \in mine : applied'[i].inode = name[request[n].path]
      BY <2>2, <2>5
    <3> HIDE DEF mine, more
    <3> QED BY <1>5, <1>9, <1>11, <2>4, <2>8, <3>1, <3>2
  <2>10. \A i, j \in more : Firm(n, i)' /\ Firm(n, j)' => applied'[i].inode = applied'[j].inode
    <3> HIDE DEF mine, more
    <3> QED BY <2>9
  <2>11. /\ Len(remaining'[n]) = Len(parts) - (done + 1)
         /\ \A k \in 1..Len(remaining'[n]) : remaining'[n][k] = parts[(done + 1) + k]
    <3>1. Len(remaining'[n]) = Len(rest) - 1
      BY <1>6, <1>7
    <3>2. ASSUME NEW k \in 1..(Len(rest) - 1)
          PROVE  remaining'[n][k] = parts[(done + 1) + k]
      <4>1. remaining'[n][k] = rest[k + 1]
        BY <1>6, <1>7
      <4>2. k + 1 \in 1..Len(rest) /\ done + (k + 1) = (done + 1) + k
        BY <1>6
      <4> QED BY <2>2, <4>1, <4>2
    <3>3. Len(rest) - 1 = Len(parts) - (done + 1)
      BY <1>6, <2>2, <2>3
    <3> HIDE DEF mine, more
    <3> QED BY <3>1, <3>2, <3>3
  <2>12. SetOK(n, from, done + 1)'
    <3>1. from + (done + 1) <= Len(applied') /\ from + (done + 1) = Len(applied')
      BY <1>11, <2>4
    <3> HIDE DEF more
    <3> QED BY <1>2, <2>4, <2>6, <2>7, <2>9, <2>10, <2>11, <3>1 DEF SetOK, parts, more
  <2> QED BY <2>4, <2>12
<1>15. \A m \in Setstats : \E from, done \in Nat : SetOK(m, from, done)'
  BY <1>13, <1>14
<1>16. \A m \in Packets : stage'[m] = "setting" => m \in Setstats
  BY DEF SetstatInv
<1> QED BY <1>1, <1>7, <1>11, <1>12, <1>15, <1>16 DEF SetstatInv

LEMMA ApplySetstats ==
  ASSUME FilesInv, SetstatInv, NEW n \in Packets, ApplyPart(n)
  PROVE  SetstatInv'
<1>1. /\ n \in begun \ finished /\ request[n].op \in {"setstat", "fsetstat"}
      /\ stage[n] = "setting" /\ remaining[n] # <<>> /\ UNCHANGED <<request, name, opened>>
  BY DEF ApplyPart, Serving, inVars, fsVars
<1>2. CASE Respond(n, "failed") /\ UNCHANGED <<applied, remaining>>
  <2>1. Works(n) /\ finished' = finished \cup {n} /\ stage'[n] = "done" /\ result'[n] = "failed"
    BY <1>2, RespondWorks DEF Results
  <2> QED BY <1>1, <1>2, <2>1, WorkKeeps
<1>3. CASE ~ (Respond(n, "failed") /\ UNCHANGED <<applied, remaining>>)
  <2>1. /\ InodeFor(n, Head(remaining[n])) # 0
        /\ applied' = Append(applied, [by |-> n, part |-> Head(remaining[n]),
                                       inode |-> InodeFor(n, Head(remaining[n]))])
        /\ remaining' = [remaining EXCEPT ![n] = Tail(@)] /\ UNCHANGED <<result, stage>>
    BY <1>3 DEF ApplyPart
  <2> QED BY <1>1, <2>1, PartSet
<1> QED BY <1>2, <1>3

LEMMA SetstatStep ==
  ASSUME FilesInv, SetstatInv, [FilesNext]_allVars
  PROVE  SetstatInv'
<1> USE DEF inVars, tableVars, fsVars
<1>1. CASE ClientSends
  BY <1>1, ReceiveSetstats DEF ClientSends
<1>2. ASSUME UNCHANGED <<request, name, stage, remaining, result, opened, applied>>
      PROVE  SetstatInv'
  <2>1. \A n \in Setstats : Keeps(n)
    BY <1>2 DEF Keeps
  <2> QED BY <1>2, <2>1, SetstatsKept
<1>3. CASE InputEnds \/ SendReply \/ ServeReturns \/ AllDone \/ UNCHANGED allVars
  BY <1>2, <1>3 DEF InputEnds, SendReply, ServeReturns, AllDone, allVars, fileVars
<1>4. CASE \E n \in Packets : HandlePacket(n)
  <2>1. PICK n \in Packets : HandlePacket(n)
    BY <1>4
  <2>2. CASE Start(n)
    BY <1>2, <2>2 DEF Start, fileVars
  <2>3. n \in Setstats => request[n].op \in {"setstat", "fsetstat"}
    BY DEF Setstats
  <2>4. n \notin finished => result[n] # "handle"
    BY DEF FilesInv, StagesOK, StageOK
  <2>5. ASSUME NEW res \in Results \ {"pending"}, Respond(n, res), stage[n] # "setting",
               res = "ok" => n \notin Setstats,
               UNCHANGED <<request, applied, remaining, opened>>,
               UNCHANGED name \/ request[n].op \notin {"read", "write"}
        PROVE  SetstatInv'
    <3>1. Works(n) /\ finished' = finished \cup {n} /\ stage'[n] = "done" /\ result'[n] = res
      BY <2>5, RespondWorks
    <3> QED BY <2>5, <3>1, WorkKeeps
  <2>6. CASE Denied(n)
    <3>1. Respond(n, "denied") /\ stage[n] # "setting" /\ UNCHANGED <<request, applied, remaining, opened, name>>
      BY <2>6 DEF Denied
    <3> QED BY <2>5, <3>1 DEF Results
  <2>7. CASE PathOperation(n)
    <3>1. /\ \E res \in {"ok", "failed"} : Respond(n, res)
          /\ stage[n] # "setting" /\ UNCHANGED <<request, applied, remaining, opened>>
          /\ request[n].op \in PathOps
      BY <2>7 DEF PathOperation, Serving
    <3>2. request[n].op \notin {"read", "write"} /\ n \notin Setstats
      BY <2>3, <3>1 DEF PathOps
    <3> QED BY <2>5, <3>1, <3>2 DEF Results
  <2>8. CASE StatDirectory(n)
    <3>1. n \in begun \ finished /\ stage[n] = "idle" /\ UNCHANGED <<request, applied, remaining, opened, name>>
      BY <2>8 DEF StatDirectory, Serving
    <3>2. CASE Respond(n, "failed")
      BY <2>5, <3>1, <3>2 DEF Results
    <3>3. CASE GoTo(n, "stated")
      <4>1. Works(n) /\ result'[n] = "pending" /\ stage'[n] = "stated"
        BY <3>1, <3>3, GoToWorks
      <4> QED BY <3>1, <4>1, WorkKeeps
    <3> QED BY <2>8, <3>2, <3>3 DEF StatDirectory
  <2>9. CASE Open(n)
    <3>1. /\ n \in begun \ finished /\ stage[n] \in {"idle", "stated"}
          /\ UNCHANGED <<request, applied, remaining>> /\ request[n].op \in {"open", "opendir"}
      BY <2>9 DEF Open, Serving
    <3>2. CASE Respond(n, "failed") /\ UNCHANGED <<fsVars, opened>>
      BY <2>5, <3>1, <3>2 DEF Results
    <3>3. CASE GoTo(n, "opened") /\ \E flags : OpenFile(n, request[n].path, flags)
      <4>1. Works(n) /\ result'[n] = "pending" /\ stage'[n] = "opened"
        BY <3>1, <3>3, GoToWorks
      <4>2. \A p \in Packets : result[p] = "handle" => opened'[p] = opened[p]
        BY <2>4, <3>1, <3>3 DEF OpenFile, FilesInv, FileSystemOK
      <4> QED BY <3>1, <4>1, <4>2, WorkKeeps
    <3> QED BY <2>9, <3>2, <3>3 DEF Open
  <2>10. CASE NextHandle(n)
    <3>1. Respond(n, "handle") /\ stage[n] # "setting" /\ UNCHANGED <<request, applied, remaining, opened, name>>
      BY <2>10 DEF NextHandle, Serving
    <3> QED BY <2>5, <3>1 DEF Results
  <2>11. CASE GetHandle(n)
    <3>1. n \in begun \ finished /\ stage[n] = "idle" /\ UNCHANGED <<request, applied, remaining, opened, name>>
      BY <2>11 DEF GetHandle, Serving
    <3>2. CASE Respond(n, "badHandle")
      BY <2>5, <3>1, <3>2 DEF Results
    <3>3. CASE GoTo(n, "found")
      <4>1. Works(n) /\ result'[n] = "pending" /\ stage'[n] = "found"
        BY <3>1, <3>3, GoToWorks
      <4> QED BY <3>1, <4>1, WorkKeeps
    <3> QED BY <2>11, <3>2, <3>3 DEF GetHandle
  <2>12. CASE UseFile(n) \/ CloseHandle(n)
    <3>1. /\ \E res \in {"ok", "failed", "badHandle"} : Respond(n, res)
          /\ stage[n] # "setting" /\ UNCHANGED <<request, applied, remaining, opened, name>>
          /\ request[n].op \in {"read", "write", "readdir", "fstat", "close"}
      BY <2>12 DEF UseFile, CloseHandle, Serving
    <3>2. n \notin Setstats
      BY <2>3, <3>1
    <3> QED BY <2>5, <3>1, <3>2 DEF Results
  <2>13. CASE BeginSetstat(n)
    BY <2>13, BeginSetstats
  <2>14. CASE ApplyPart(n)
    BY <2>14, ApplySetstats
  <2>15. CASE SetstatDone(n)
    <3>1. /\ Respond(n, "ok") /\ stage[n] = "setting" /\ remaining[n] = <<>>
          /\ UNCHANGED <<request, applied, remaining, opened, name>>
      BY <2>15 DEF SetstatDone, Serving
    <3>2. Works(n) /\ finished' = finished \cup {n} /\ stage'[n] = "done" /\ result'[n] = "ok"
      BY <3>1, RespondWorks DEF Results
    <3> QED BY <3>1, <3>2, WorkKeeps
  <2> QED BY <2>1, <2>2, <2>6, <2>7, <2>8, <2>9, <2>10, <2>11, <2>12, <2>13, <2>14, <2>15
          DEF HandlePacket
<1> QED BY <1>1, <1>3, <1>4 DEF FilesNext

\* The parts of a setstat are applied in order, as one block and to one file, up to the first
\* that fails, and it is OK exactly when there was none that did.
THEOREM SetstatsInOneGo == FilesSpec => []SetstatsAreWhole
<1>1. FilesInit => SetstatInv
  <2> SUFFICES ASSUME FilesInit
               PROVE  SetstatInv
    OBVIOUS
  <2>1. Setstats = {}
    BY DEF FilesInit, Setstats
  <2>2. applied = <<>> /\ remaining = [n \in Packets |-> <<>>] /\ \A n \in Packets : stage[n] = "idle"
    BY DEF FilesInit
  <2>3. remaining \in [Packets -> Seq(Parts)] /\ applied \in Seq(Applied) /\ Len(applied) = 0
    BY <2>2
  <2> QED BY <2>1, <2>2, <2>3 DEF SetstatInv
<1>2. FilesInv /\ SetstatInv /\ [FilesNext]_allVars => SetstatInv'
  BY SetstatStep
<1>3. FilesInv /\ SetstatInv => SetstatsAreWhole
  <2> SUFFICES ASSUME FilesInv, SetstatInv, NEW n \in Setstats
               PROVE  \E from, done \in 0..Len(applied) :
                        LET parts == request[n].parts
                            mine  == (from + 1)..(from + done) IN
                          /\ {i \in DOMAIN applied : applied[i].by = n} = mine
                          /\ done <= Len(parts) /\ \A k \in 1..done : applied[from + k].part = parts[k]
                          /\ result[n] = "ok" => done = Len(parts)
                          /\ result[n] \notin {"pending", "ok"} => done < Len(parts) \/ parts = <<>>
                          /\ \A i, j \in mine :
                               Firm(n, i) /\ Firm(n, j) => applied[i].inode = applied[j].inode
                          /\ request[n].op = "fsetstat" =>
                               \A i \in mine : Firm(n, i) => applied[i].inode = opened[request[n].on]
    BY DEF SetstatsAreWhole
  <2>1. PICK from \in Nat, done \in Nat : SetOK(n, from, done)
    BY DEF SetstatInv
  <2>2. Len(applied) \in Nat /\ DOMAIN applied = 1..Len(applied) /\ from + done <= Len(applied)
    BY <2>1 DEF SetstatInv, SetOK
  <2>3. from \in 0..Len(applied) /\ done \in 0..Len(applied)
    BY <2>2
  <2> DEFINE mine == (from + 1)..(from + done)
  <2>4. mine \subseteq 1..Len(applied)
    BY <2>2
  <2>5. {i \in DOMAIN applied : applied[i].by = n} = mine
    <3>1. \A i \in 1..Len(applied) : applied[i].by = n <=> i \in mine
      BY <2>1 DEF SetOK
    <3> HIDE DEF mine
    <3> QED BY <2>2, <2>4, <3>1
  <2>6. /\ done <= Len(request[n].parts)
        /\ \A k \in 1..done : applied[from + k].part = request[n].parts[k]
        /\ result[n] = "ok" => done = Len(request[n].parts)
        /\ result[n] \notin {"pending", "ok"} => done < Len(request[n].parts) \/ request[n].parts = <<>>
        /\ \A i, j \in mine : Firm(n, i) /\ Firm(n, j) => applied[i].inode = applied[j].inode
        /\ request[n].op = "fsetstat" =>
             \A i \in mine : Firm(n, i) => applied[i].inode = opened[request[n].on]
    BY <2>1 DEF SetOK
  <2> QED BY <2>3, <2>5, <2>6
<1> QED BY <1>1, <1>2, <1>3, FilesInvariant, PTL DEF FilesSpec
=============================================================================
