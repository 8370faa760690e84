---------------------------- MODULE RequestHandles ----------------------------
(***************************************************************************)
(* The open requests of a RequestServer (request-server.go, request.go):   *)
(* handles, the objects the application's handlers return for them, and    *)
(* the reads, writes, listings and closes that use them.                   *)
(*                                                                         *)
(* Which packets are served when is what OrderedReplies promises; here     *)
(* each packet has a content and its handler takes its steps between Begin *)
(* and Finish.  A request is named by the packet that opened it.           *)
(*                                                                         *)
(* The client uses a handle once it has got it in a reply, in any way it   *)
(* likes: twice, after its close, or for what it was not opened for.       *)
(***************************************************************************)
EXTENDS OrderedReplies, Integers, FiniteSets

CONSTANTS
  Ops,             \* what the client sends: operations below
  MaxOf,           \* bound: how often it sends each of them
  OpenFileWriter,  \* the handler FilePut has OpenFile
  MaxFilelist,     \* entries of a listing sent at once
  DirSize          \* entries of a directory

OpenOps   == {"openRead", "openWrite", "openBoth", "opendir"}
HandleOps == {"read", "write", "readdir", "fstat", "close"}

ASSUME BoundAssumption == MaxPackets \in Nat
ASSUME OpsAssumption == Ops \subseteq OpenOps \cup HandleOps \cup {"stat"}
ASSUME MaxOfAssumption == MaxOf \in [Ops -> Nat]
ASSUME HandlersAssumption ==
  OpenFileWriter \in BOOLEAN /\ MaxFilelist \in Nat \ {0} /\ DirSize \in Nat

Packets == 1..MaxPackets

Objects == {"none", "reader", "writer", "both", "lister"}

\* The switch of the dispatcher: reads and writes, closes, everything else.
KindOf(op) == CASE op \in {"read", "write"} -> "rw" [] op = "close" -> "close" [] OTHER -> "cmd"

\* What the handler returns for an open with given flags.
ObjectFor(op) ==
  CASE op = "openRead"  -> "reader"
    [] op = "openWrite" -> "writer"
    [] op = "openBoth"  -> IF OpenFileWriter THEN "both" ELSE "writer"
    [] op = "opendir"   -> "lister"

VARIABLES
  request,       \* the packets: op, the packet whose handle it is on, replies seen before
  inputEnded,    \* serveLoop has returned
  handleCount,
  handle,        \* the handle given to an opening packet
  openRequests,  \* the packet that opened each handle, 0 when it is not open
  object,        \* the reader, writer, ... of the state of a request
  lsoffset,      \* how far the listing of a request has come
  stage,         \* where the worker is in serving a packet
  target,        \* the request it has looked up, or 0
  offset,        \* the offset of the listing it has read
  result,        \* how each packet was answered
  served,        \* Serve has returned
  \* history
  given,         \* the object a handler returned while a packet was served
  closed,        \* calls of Close on that object
  told,          \* whether TransferError was called on it
  listed         \* the entries sent for a directory, in order

tableVars   == <<handleCount, handle, openRequests>>
stateVars   == <<object, lsoffset>>
workerVars  == <<stage, target, offset, result>>
historyVars == <<given, closed, told, listed>>
handleVars  == <<request, inputEnded, tableVars, stateVars, workerVars, served, historyVars>>
allVars     == <<vars, handleVars>>

HandlesTypeOK ==
  /\ request \in Seq([op : Ops, on : 0..MaxPackets, seen : 0..MaxPackets])
  /\ Len(request) = Len(arrived) /\ inputEnded \in BOOLEAN /\ served \in BOOLEAN
  /\ handleCount \in 0..MaxPackets /\ handle \in [Packets -> 0..MaxPackets]
  /\ openRequests \in [Packets -> 0..MaxPackets]
  /\ object \in [Packets -> Objects] /\ lsoffset \in [Packets -> Nat]
  /\ stage \in [Packets -> {"idle", "opening", "call", "reading", "writing", "listing", "done"}]
  /\ target \in [Packets -> 0..MaxPackets] /\ offset \in [Packets -> Nat]
  /\ result \in [Packets -> {"pending", "handle", "read", "wrote", "names", "eof", "attrs",
                             "closed", "failed", "unexpected", "badHandle"}]
  /\ given \in [Packets -> Objects] /\ closed \in [Packets -> 0..1]
  /\ told \in [Packets -> BOOLEAN] /\ listed \in [Packets -> Seq(1..DirSize)]

HandlesInit ==
  /\ Init
  /\ request = <<>> /\ inputEnded = FALSE /\ served = FALSE
  /\ handleCount = 0
  /\ handle = [n \in Packets |-> 0] /\ openRequests = [h \in Packets |-> 0]
  /\ object = [n \in Packets |-> "none"] /\ lsoffset = [n \in Packets |-> 0]
  /\ stage = [n \in Packets |-> "idle"] /\ target = [n \in Packets |-> 0]
  /\ offset = [n \in Packets |-> 0] /\ result = [n \in Packets |-> "pending"]
  /\ given = [n \in Packets |-> "none"] /\ closed = [n \in Packets |-> 0]
  /\ told = [n \in Packets |-> FALSE] /\ listed = [n \in Packets |-> <<>>]

-----------------------------------------------------------------------------
(* Packets in, replies out.                                                *)

\* Handles the client has been given.
Known == {n \in 1..Len(replies) : result[n] = "handle"}

ReceiveRequest(op, on) ==
  /\ ~ inputEnded /\ Receive(KindOf(op))
  /\ Cardinality({n \in 1..Len(request) : request[n].op = op}) < MaxOf[op]
  /\ request' = Append(request, [op |-> op, on |-> on, seen |-> Len(replies)])
  /\ UNCHANGED <<inputEnded, tableVars, stateVars, workerVars, served, historyVars>>

\* The end of the input, a broken connection, or a packet that cannot be read.
ServeLoopReturns ==
  /\ ~ inputEnded /\ inputEnded' = TRUE
  /\ UNCHANGED <<vars, request, tableVars, stateVars, workerVars, served, historyVars>>

SendReply == Reply /\ UNCHANGED handleVars

\* Mutant: workers take closes as they take reads and writes.
StartAtOnce(n) ==
  /\ n \in (1..Len(arrived)) \ begun /\ Earlier(n) \subseteq begun
  /\ begun' = begun \cup {n}
  /\ UNCHANGED <<arrived, finished, replies, handleVars>>

\* A worker takes the packet from its channel.
Start(n) == Begin(n) /\ UNCHANGED handleVars

Serving(n, ops, at) ==
  n \in begun \ finished /\ request[n].op \in ops /\ stage[n] = at

\* The last steps of packetWorker: the response goes to the packet manager.
Respond(n, res) ==
  /\ Finish(n)
  /\ stage' = [stage EXCEPT ![n] = "done"]
  /\ result' = [result EXCEPT ![n] = res]

-----------------------------------------------------------------------------
(* Open and opendir: the handle is registered before the handler runs.     *)

\* Mutant: the number of open requests serves as the next handle.
NextRequestReuses(n) ==
  /\ Serving(n, OpenOps, "idle")
  /\ LET h == Cardinality({i \in Packets : openRequests[i] # 0}) + 1 IN
       /\ handle' = [handle EXCEPT ![n] = h]
       /\ openRequests' = [openRequests EXCEPT ![h] = n]
  /\ stage' = [stage EXCEPT ![n] = "opening"]
  /\ UNCHANGED <<vars, request, inputEnded, handleCount, stateVars, target, offset, result, served,
                 historyVars>>

NextRequest(n) ==
  /\ Serving(n, OpenOps, "idle")
  /\ handleCount' = handleCount + 1
  /\ handle' = [handle EXCEPT ![n] = handleCount + 1]
  /\ openRequests' = [openRequests EXCEPT ![handleCount + 1] = n]
  /\ stage' = [stage EXCEPT ![n] = "opening"]
  /\ UNCHANGED <<vars, request, inputEnded, stateVars, target, offset, result, served,
                 historyVars>>

OpenSucceeds(n) ==
  /\ Serving(n, OpenOps, "opening")
  /\ given' = [given EXCEPT ![n] = ObjectFor(request[n].op)]
  /\ object' = [object EXCEPT ![n] = ObjectFor(request[n].op)]
  /\ Respond(n, "handle")
  /\ UNCHANGED <<request, inputEnded, tableVars, lsoffset, target, offset, served, closed,
                 told, listed>>

\* The handler returns an error, or the flags are bad: the handle is removed.
OpenFails(n) ==
  /\ Serving(n, OpenOps, "opening")
  /\ openRequests' = [openRequests EXCEPT ![handle[n]] = 0]
  /\ Respond(n, "failed")
  /\ UNCHANGED <<request, inputEnded, handleCount, handle, stateVars, target, offset, served,
                 historyVars>>

-----------------------------------------------------------------------------
(* Reads, writes and listings.  What is done is chosen by what the handle   *)
(* was opened for, not by the type of the packet.                           *)

\* getRequest; the request is used after the lock is released.
GetRequest(n) ==
  /\ Serving(n, {"read", "write", "readdir", "fstat"}, "idle")
  /\ target' = [target EXCEPT ![n] = openRequests[handle[request[n].on]]]
  /\ stage' = [stage EXCEPT ![n] = "call"]
  /\ UNCHANGED <<vars, request, inputEnded, tableVars, stateVars, offset, result, served,
                 historyVars>>

BadHandle(n) ==
  /\ Serving(n, {"read", "write", "readdir", "fstat"}, "call") /\ target[n] = 0
  /\ Respond(n, "badHandle")
  /\ UNCHANGED <<request, inputEnded, tableVars, stateVars, target, offset, served, historyVars>>

UsesObject(n) == Serving(n, {"read", "write", "readdir"}, "call") /\ target[n] # 0

\* fileget and fileput do not look at the type of the packet; fileputget does.
CallStage(op, obj) ==
  CASE obj = "reader" \/ (obj = "both" /\ op = "read")  -> "reading"
    [] obj = "writer" \/ (obj = "both" /\ op = "write") -> "writing"
    [] obj = "lister" -> "listing"
    [] OTHER -> "unexpected"

\* getReaderAt, getWriterAt, ..., and for a listing lsNext.
CallHandler(n) ==
  /\ UsesObject(n)
  /\ LET to == CallStage(request[n].op, object[target[n]]) IN
       to # "unexpected" /\ stage' = [stage EXCEPT ![n] = to]
  /\ offset' = [offset EXCEPT ![n] = lsoffset[target[n]]]
  /\ UNCHANGED <<vars, request, inputEnded, tableVars, stateVars, target, result, served,
                 historyVars>>

CallUnexpected(n) ==
  /\ UsesObject(n) /\ CallStage(request[n].op, object[target[n]]) = "unexpected"
  /\ Respond(n, "unexpected")
  /\ UNCHANGED <<request, inputEnded, tableVars, stateVars, target, offset, served, historyVars>>

\* ReadAt or WriteAt was called, whatever it returned.
TransferReturns(n) ==
  /\ n \in begun /\ stage[n] \in {"reading", "writing"}
  /\ Respond(n, IF stage[n] = "reading" THEN "read" ELSE "wrote")
  /\ UNCHANGED <<request, inputEnded, tableVars, stateVars, target, offset, served, historyVars>>

\* Entries ListAt copies, of those there are from an offset on.
Copied(off) == {k \in 0..MaxFilelist : off + k <= DirSize \/ k = 0}

\* The entries after an offset.
Entries(off, k) == [i \in 1..k |-> off + i]

\* Mutant: a batch counts as full.
ListReturnsFull(n) ==
  /\ n \in begun /\ stage[n] = "listing"
  /\ \E k \in Copied(offset[n]), res \in {"names", "eof", "failed"} :
       /\ res = "eof" => k = 0 /\ offset[n] >= DirSize
       /\ lsoffset' = [lsoffset EXCEPT ![target[n]] = @ + (IF k = 0 THEN 0 ELSE MaxFilelist)]
       /\ listed' = IF res = "names" THEN [listed EXCEPT ![target[n]] = @ \o Entries(offset[n], k)]
                                     ELSE listed
       /\ Respond(n, res)
  /\ UNCHANGED <<request, inputEnded, tableVars, object, target, offset, served, given, closed,
                 told>>

\* ListAt and lsInc.  The end is passed on when there is nothing else to send; an
\* error is sent instead of the entries that came with it.
ListReturns(n) ==
  /\ n \in begun /\ stage[n] = "listing"
  /\ \E k \in Copied(offset[n]), res \in {"names", "eof", "failed"} :
       /\ res = "eof" => k = 0 /\ offset[n] >= DirSize
       /\ lsoffset' = [lsoffset EXCEPT ![target[n]] = @ + k]
       /\ listed' = IF res = "names" THEN [listed EXCEPT ![target[n]] = @ \o Entries(offset[n], k)]
                                     ELSE listed
       /\ Respond(n, res)
  /\ UNCHANGED <<request, inputEnded, tableVars, object, target, offset, served, given, closed,
                 told>>

\* filestat for a path, or for the path of an open request: the handler returns a
\* lister for one entry, which is not kept.
StatReturns(n) ==
  /\ \/ Serving(n, {"stat"}, "idle")
     \/ Serving(n, {"fstat"}, "call") /\ target[n] # 0
  /\ \/ given' = [given EXCEPT ![n] = "lister"] /\ (Respond(n, "attrs") \/ Respond(n, "failed"))
     \/ Respond(n, "failed") /\ UNCHANGED given
  /\ UNCHANGED <<request, inputEnded, tableVars, stateVars, target, offset, served, closed, told,
                 listed>>

-----------------------------------------------------------------------------
(* Close, and the end of Serve.                                            *)

\* Request.close forgets a lister and a reader-writer, and keeps the others.
AfterClose(obj) == IF obj \in {"lister", "both"} THEN "none" ELSE obj

\* Mutant: the request is closed but stays in openRequests.
CloseRequestKept(n) ==
  /\ Serving(n, {"close"}, "idle")
  /\ LET r == openRequests[handle[request[n].on]] IN
       IF r = 0
       THEN Respond(n, "badHandle") /\ UNCHANGED <<openRequests, object, closed>>
       ELSE /\ closed' = [closed EXCEPT ![r] = @ + (IF object[r] = "none" THEN 0 ELSE 1)]
            /\ object' = [object EXCEPT ![r] = AfterClose(@)]
            /\ Respond(n, "closed")
            /\ UNCHANGED openRequests
  /\ UNCHANGED <<request, inputEnded, handleCount, handle, lsoffset, target, offset, served, given,
                 told, listed>>

\* closeRequest holds the lock of openRequests while the objects are closed.
CloseRequest(n) ==
  /\ Serving(n, {"close"}, "idle")
  /\ LET h == handle[request[n].on]
         r == openRequests[h]
     IN IF r = 0
        THEN Respond(n, "badHandle") /\ UNCHANGED <<openRequests, object, closed>>
        ELSE /\ openRequests' = [openRequests EXCEPT ![h] = 0]
             /\ closed' = [closed EXCEPT ![r] = @ + (IF object[r] = "none" THEN 0 ELSE 1)]
             /\ object' = [object EXCEPT ![r] = AfterClose(@)]
             /\ Respond(n, "closed")
  /\ UNCHANGED <<request, inputEnded, handleCount, handle, lsoffset, target, offset, served, given,
                 told, listed>>

StillOpen == {openRequests[h] : h \in Packets} \ {0}

\* Mutant: the requests left open are closed and not told of the error.
ServeReturnsSilently ==
  /\ inputEnded /\ ~ served /\ finished = 1..Len(arrived)
  /\ closed' = [n \in Packets |-> IF n \in StillOpen /\ object[n] # "none" THEN closed[n] + 1
                                                                           ELSE closed[n]]
  /\ object' = [n \in Packets |-> IF n \in StillOpen THEN AfterClose(object[n]) ELSE object[n]]
  /\ openRequests' = [h \in Packets |-> 0]
  /\ served' = TRUE
  /\ UNCHANGED <<vars, request, inputEnded, handleCount, handle, lsoffset, workerVars, given,
                 told, listed>>

\* Mutant: Serve returns with the table as it is.
ServeReturnsLeaves ==
  /\ inputEnded /\ ~ served /\ finished = 1..Len(arrived)
  /\ served' = TRUE
  /\ UNCHANGED <<vars, request, inputEnded, tableVars, stateVars, workerVars, historyVars>>

\* Serve, when its workers have ended: every request left open is told of the
\* error, unless it is a listing, and closed.
ServeReturns ==
  /\ inputEnded /\ ~ served /\ finished = 1..Len(arrived)
  /\ told' = [n \in Packets |-> n \in StillOpen /\ object[n] \in {"reader", "writer", "both"}]
  /\ closed' = [n \in Packets |-> IF n \in StillOpen /\ object[n] # "none" THEN closed[n] + 1
                                                                           ELSE closed[n]]
  /\ object' = [n \in Packets |-> IF n \in StillOpen THEN AfterClose(object[n]) ELSE object[n]]
  /\ openRequests' = [h \in Packets |-> 0]
  /\ served' = TRUE
  /\ UNCHANGED <<vars, request, inputEnded, handleCount, handle, lsoffset, workerVars, given,
                 listed>>

-----------------------------------------------------------------------------
\* The client sent everything it had, and got its replies.
AllDone == served /\ Len(replies) = Len(arrived) /\ UNCHANGED allVars

Serve(n) ==
  \/ Start(n)
  \/ NextRequest(n) \/ OpenSucceeds(n) \/ OpenFails(n)
  \/ GetRequest(n) \/ BadHandle(n) \/ CallHandler(n) \/ CallUnexpected(n)
  \/ TransferReturns(n) \/ ListReturns(n) \/ StatReturns(n)
  \/ CloseRequest(n)

ClientSends ==
  \/ \E op \in Ops \ HandleOps : ReceiveRequest(op, 0)
  \/ \E op \in Ops \cap HandleOps, on \in Known : ReceiveRequest(op, on)

HandlesNext ==
  \/ ClientSends \/ ServeLoopReturns \/ SendReply
  \/ (\E n \in Packets : Serve(n))
  \/ ServeReturns \/ AllDone

HandlesSpec == HandlesInit /\ [][HandlesNext]_allVars

\* Handlers return, and the workers and Serve run.
FairHandlesSpec ==
  /\ HandlesSpec
  /\ \A n \in Packets : WF_allVars(Serve(n))
  /\ WF_allVars(ServeReturns)

-----------------------------------------------------------------------------
(* Properties.                                                             *)

Arrived == 1..Len(arrived)

Openers == {n \in Arrived : request[n].op \in OpenOps}

ClosesBefore(m) ==
  {n \in Earlier(m) : request[n].op = "close" /\ request[n].on = request[m].on}

\* Every object a handler returned for an open is closed at most once, and once
\* when Serve returns, whichever way the client left it.
ObjectsClosedOnce ==
  \A n \in Openers :
    /\ closed[n] <= (IF given[n] = "none" THEN 0 ELSE 1)
    /\ served => given[n] = "none" \/ closed[n] = 1

InHandler(m) == stage[m] \in {"reading", "writing", "listing"}

\* A read, write or listing that came before the close of its handle finds the
\* handle open, and its object is not closed while the handler runs; once the client
\* has the reply to the close, what it sends on the handle reaches no handler.
ClosesAreBarriers ==
  /\ \A m \in Arrived : request[m].op \in HandleOps /\ ClosesBefore(m) = {} =>
       result[m] # "badHandle" /\ (InHandler(m) => closed[target[m]] = 0)
  /\ \A m \in Arrived : (\E n \in ClosesBefore(m) : n <= request[m].seen) =>
       ~ InHandler(m) /\ result[m] \in {"pending", "badHandle"}

\* A handle the client holds never stands for another open, and a failed open leaves
\* none behind.
HandlesNameTheirOpen ==
  /\ \A m \in Arrived : target[m] \in {0, request[m].on}
  /\ \A n \in Openers : result[n] = "failed" => n \notin StillOpen

\* Readers and writers are told of the error of Serve if and only if the client had
\* not closed them.
LeftOpenAreTold ==
  \A n \in Openers :
    told[n] <=> /\ served /\ given[n] \in {"reader", "writer", "both"}
                /\ \A m \in Arrived : request[m].op = "close" => request[m].on # n

\* A directory that the client lists, and does nothing else with, is listed in order,
\* without gap or repetition, up to its end, as long as no listing fails.
ListingsAreExact ==
  \A n \in Openers :
    (\A m \in Arrived : request[m].on = n =>
       request[m].op \in {"readdir", "close"} /\ result[m] # "failed") =>
      /\ listed[n] = Entries(0, lsoffset[n])
      /\ \A m \in Arrived : request[m].on = n /\ result[m] = "eof" => lsoffset[n] = DirSize

\* When the input ends, Serve returns with every request closed.
ServeEnds == inputEnded ~> served /\ StillOpen = {}

\* Filewrite "returns an io.Writer for the file which the server then writes the
\* uploaded file to" (request-readme.md:28): what is written to it was uploaded.
WritesAreUploads == \A n \in Arrived : result[n] = "wrote" => request[n].op = "write"
=============================================================================
