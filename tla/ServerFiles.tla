----------------------------- MODULE ServerFiles -----------------------------
(***************************************************************************)
(* The handlers of Server (server.go): the table of open files, and the    *)
(* operating system calls that a packet becomes, each a step of its own.   *)
(*                                                                         *)
(* Which packets are served when is what OrderedReplies promises.  A file  *)
(* opened is named by the packet that opened it.  The file system is one   *)
(* directory without symbolic links; an inode is named by the packet that  *)
(* made it.  Every call may fail, as it may for reasons of its own.        *)
(***************************************************************************)
EXTENDS OrderedReplies, Integers, FiniteSets

CONSTANTS
  Menu,       \* what the client sends: [op, path, to, flags, parts]
  MaxOf,      \* bound: how often it sends each operation
  Names,      \* names of the file system
  InitName,   \* the inode of each name at the start, 0 when there is none
  InitDirs    \* the names that are directories at the start

PathOps   == {"stat", "mkdir", "remove", "rename", "hardlink"}
HandleOps == {"read", "write", "readdir", "fstat", "fsetstat", "close"}
Operations == PathOps \union HandleOps \union {"open", "opendir", "setstat"}

\* The attributes that the flags of a setstat may name.
Parts == {"size", "permissions", "owner", "times"}

ASSUME BoundAssumption == MaxPackets \in Nat
ASSUME MenuAssumption ==
  \A r \in Menu : /\ r.op \in Operations /\ r.path \in Names /\ r.to \in Names
                  /\ r.parts \in Seq(Parts)
\* Inodes up to MaxPackets are those that packets make.
ASSUME NamesAssumption ==
  /\ \A f \in Names : InitName[f] = 0 \/ InitName[f] \in Nat \ (1..MaxPackets)
  /\ InitName \in [Names -> Nat] /\ InitDirs \subseteq {f \in Names : InitName[f] # 0}

Packets == 1..MaxPackets

VARIABLES
  readOnly,     \* the option of the server
  request,      \* the packets, with the packet whose handle they are on
  inputEnded,   \* the loop of Serve has ended
  served,       \* Serve has returned
  handleCount,
  openFiles,    \* the packet that opened the file of each handle, 0 when there is none
  handle,       \* the handle given to an opening packet
  name,         \* the file system: the inode of each name, 0 when there is none
  directory,    \* the inodes that are directories
  stage,        \* where the worker is in serving a packet
  target,       \* the file it has looked up, or 0
  remaining,    \* the parts of a setstat still to be applied
  result,       \* how each packet was answered
  \* history
  opened,       \* the inode an opening packet has opened
  closed,       \* calls of Close on the file
  applied       \* the attributes set: by which packet, which part, of which inode

tableVars == <<handleCount, openFiles, handle>>
fsVars    == <<name, directory>>
inVars    == <<readOnly, request, inputEnded, served>>
fileVars  == <<inVars, tableVars, fsVars, stage, target, remaining, result, opened, closed, applied>>
allVars   == <<vars, fileVars>>

FilesTypeOK ==
  /\ readOnly \in BOOLEAN /\ inputEnded \in BOOLEAN /\ served \in BOOLEAN
  /\ Len(request) = Len(arrived)
  /\ handleCount \in 0..MaxPackets /\ handle \in [Packets -> 0..MaxPackets]
  /\ openFiles \in [Packets -> 0..MaxPackets] /\ target \in [Packets -> 0..MaxPackets]
  /\ name \in [Names -> Nat] /\ directory \subseteq Nat
  /\ stage \in [Packets -> {"idle", "stated", "opened", "found", "setting", "done"}]
  /\ result \in [Packets -> {"pending", "ok", "failed", "denied", "handle", "badHandle"}]
  /\ opened \in [Packets -> Nat] /\ closed \in [Packets -> Nat]

-----------------------------------------------------------------------------
(* The file system.                                                        *)

\* os.Mkdir, os.Remove, os.Rename and os.Link, when they succeed.
Mkdir(n, r) == /\ name[r.path] = 0
               /\ name' = [name EXCEPT ![r.path] = n] /\ directory' = directory \union {n}

Unlink(r) == /\ name[r.path] # 0
             /\ name' = [name EXCEPT ![r.path] = 0] /\ UNCHANGED directory

Rename(r) == /\ name[r.path] # 0
             /\ name[r.to] = 0 \/ (name[r.to] \in directory) = (name[r.path] \in directory)
             /\ name' = IF name[r.to] = name[r.path] THEN name
                        ELSE [name EXCEPT ![r.path] = 0, ![r.to] = name[r.path]]
             /\ UNCHANGED directory

Link(r) == /\ name[r.path] # 0 /\ name[r.path] \notin directory /\ name[r.to] = 0
           /\ name' = [name EXCEPT ![r.to] = name[r.path]] /\ UNCHANGED directory

\* os.OpenFile: what is opened, made if need be.
OpenFile(n, path, flags) ==
  /\ IF name[path] = 0 THEN "creat" \in flags
                       ELSE /\ ~ {"creat", "excl"} \subseteq flags
                            /\ name[path] \in directory => flags \intersect {"write", "creat"} = {}
  /\ name' = [name EXCEPT ![path] = IF @ = 0 THEN n ELSE @]
  /\ opened' = [opened EXCEPT ![n] = name'[path]]
  /\ UNCHANGED directory

-----------------------------------------------------------------------------
FilesInit ==
  /\ Init
  /\ readOnly \in BOOLEAN /\ request = <<>> /\ inputEnded = FALSE /\ served = FALSE
  /\ handleCount = 0
  /\ openFiles = [h \in Packets |-> 0] /\ handle = [n \in Packets |-> 0]
  /\ name = InitName /\ directory = {InitName[d] : d \in InitDirs}
  /\ stage = [n \in Packets |-> "idle"] /\ target = [n \in Packets |-> 0]
  /\ remaining = [n \in Packets |-> <<>>] /\ result = [n \in Packets |-> "pending"]
  /\ opened = [n \in Packets |-> 0] /\ closed = [n \in Packets |-> 0] /\ applied = <<>>

\* The switch of the dispatcher.
KindOf(op) == CASE op \in {"read", "write"} -> "rw" [] op = "close" -> "close" [] OTHER -> "cmd"

\* Handles the client has been given.
Known == {n \in 1..Len(replies) : result[n] = "handle"}

ReceivePacket(r, on) ==
  /\ ~ inputEnded /\ Receive(KindOf(r.op))
  /\ Cardinality({n \in DOMAIN request : request[n].op = r.op}) < MaxOf[r.op]
  /\ request' = Append(request, [op |-> r.op, path |-> r.path, to |-> r.to, flags |-> r.flags,
                                 parts |-> r.parts, on |-> on])
  /\ UNCHANGED <<readOnly, inputEnded, served, tableVars, fsVars, stage, target, remaining, result,
                 opened, closed, applied>>

\* The end of the input, or a packet that cannot be read.
InputEnds ==
  /\ ~ inputEnded /\ inputEnded' = TRUE
  /\ UNCHANGED <<vars, readOnly, request, served, tableVars, fsVars, stage, target, remaining,
                 result, opened, closed, applied>>

SendReply == Reply /\ UNCHANGED fileVars

\* Mutant: every packet is served as soon as a worker is free.
StartAtOnce(n) ==
  /\ n \in (1..Len(arrived)) \ begun /\ Earlier(n) \subseteq begun
  /\ begun' = begun \union {n}
  /\ UNCHANGED <<arrived, finished, replies, fileVars>>

Start(n) == Begin(n) /\ UNCHANGED fileVars

\* What the read-only check calls a write.
Modifies(r) ==
  \/ r.op \in {"mkdir", "remove", "rename", "setstat", "fsetstat", "write"}
  \/ (r.op = "open" /\ "write" \in r.flags)

Serving(n, ops, at) ==
  /\ n \in begun \ finished /\ request[n].op \in ops /\ stage[n] = at
  /\ ~ (readOnly /\ Modifies(request[n]))

Respond(n, res) ==
  /\ Finish(n)
  /\ stage' = [stage EXCEPT ![n] = "done"] /\ result' = [result EXCEPT ![n] = res]

\* A handler goes on to its next step.
GoTo(n, to) == stage' = [stage EXCEPT ![n] = to] /\ UNCHANGED <<vars, result>>

Denied(n) ==
  /\ n \in begun \ finished /\ stage[n] = "idle" /\ readOnly /\ Modifies(request[n])
  /\ Respond(n, "denied")
  /\ UNCHANGED <<inVars, tableVars, fsVars, target, remaining, opened, closed, applied>>

-----------------------------------------------------------------------------
(* Packets with paths.                                                     *)

PathOperation(n) ==
  /\ Serving(n, PathOps, "idle")
  /\ LET r == request[n] IN
       \/ /\ Respond(n, "ok")
          /\ CASE r.op = "stat"     -> name[r.path] # 0 /\ UNCHANGED fsVars
               [] r.op = "mkdir"    -> Mkdir(n, r)
               [] r.op = "remove"   -> Unlink(r)
               [] r.op = "rename"   -> Rename(r)
               [] r.op = "hardlink" -> Link(r)
       \/ Respond(n, "failed") /\ UNCHANGED fsVars
  /\ UNCHANGED <<inVars, tableVars, target, remaining, opened, closed, applied>>

\* opendir is a Stat and then an open for reading.
StatDirectory(n) ==
  /\ Serving(n, {"opendir"}, "idle")
  /\ \/ name[request[n].path] \in directory /\ GoTo(n, "stated")
     \/ Respond(n, "failed")
  /\ UNCHANGED <<inVars, tableVars, fsVars, target, remaining, opened, closed, applied>>

\* sshFxpOpenPacket.respond.  Flags that neither read nor write are an error.
Open(n) ==
  /\ Serving(n, {"open"}, "idle") \/ Serving(n, {"opendir"}, "stated")
  /\ LET flags == IF request[n].op = "open" THEN request[n].flags ELSE {"read"} IN
       \/ /\ flags \intersect {"read", "write"} # {}
          /\ OpenFile(n, request[n].path, flags) /\ GoTo(n, "opened")
       \/ Respond(n, "failed") /\ UNCHANGED <<fsVars, opened>>
  /\ UNCHANGED <<inVars, tableVars, target, remaining, closed, applied>>

\* A handle is taken only for a file that is open.
NextHandle(n) ==
  /\ Serving(n, {"open", "opendir"}, "opened")
  /\ handleCount' = handleCount + 1
  /\ handle' = [handle EXCEPT ![n] = handleCount + 1]
  /\ openFiles' = [openFiles EXCEPT ![handleCount + 1] = n]
  /\ Respond(n, "handle")
  /\ UNCHANGED <<inVars, fsVars, target, remaining, opened, closed, applied>>

-----------------------------------------------------------------------------
(* Packets with handles.                                                   *)

\* The lock is released before the file is used.
GetHandle(n) ==
  /\ Serving(n, HandleOps \ {"close"}, "idle")
  /\ LET file == openFiles[handle[request[n].on]] IN
       /\ target' = [target EXCEPT ![n] = file]
       /\ IF file = 0 THEN Respond(n, "badHandle") ELSE GoTo(n, "found")
  /\ UNCHANGED <<inVars, tableVars, fsVars, remaining, opened, closed, applied>>

\* ReadAt, WriteAt, Readdir and Stat: a file that is closed fails them.
UseFile(n) ==
  /\ Serving(n, {"read", "write", "readdir", "fstat"}, "found")
  /\ \/ closed[target[n]] = 0 /\ Respond(n, "ok")
     \/ Respond(n, "failed")
  /\ UNCHANGED <<inVars, tableVars, fsVars, target, remaining, opened, closed, applied>>

\* Mutant: the file is closed and its handle stays.
CloseHandleKept(n) ==
  /\ Serving(n, {"close"}, "idle")
  /\ LET file == openFiles[handle[request[n].on]] IN
       IF file = 0 THEN Respond(n, "badHandle") /\ UNCHANGED closed
       ELSE closed' = [closed EXCEPT ![file] = @ + 1] /\ Respond(n, "ok")
  /\ UNCHANGED <<inVars, tableVars, fsVars, target, remaining, opened, applied>>

\* closeHandle closes the file with the lock held.
CloseHandle(n) ==
  /\ Serving(n, {"close"}, "idle")
  /\ LET h == handle[request[n].on]  file == openFiles[h] IN
       IF file = 0 THEN Respond(n, "badHandle") /\ UNCHANGED <<openFiles, closed>>
       ELSE /\ openFiles' = [openFiles EXCEPT ![h] = 0]
            /\ closed' = [closed EXCEPT ![file] = @ + 1]
            /\ Respond(n, "ok") \/ Respond(n, "failed")
  /\ UNCHANGED <<inVars, handleCount, handle, fsVars, target, remaining, opened, applied>>

-----------------------------------------------------------------------------
(* setstat and fsetstat: size, permissions, owner, times, in this order.    *)

BeginSetstat(n) ==
  /\ Serving(n, {"setstat"}, "idle") \/ Serving(n, {"fsetstat"}, "found")
  /\ remaining' = [remaining EXCEPT ![n] = request[n].parts]
  /\ GoTo(n, "setting")
  /\ UNCHANGED <<inVars, tableVars, fsVars, target, opened, closed, applied>>

\* The times of an open file are set under the name it was opened by.
InodeFor(n, part) ==
  IF request[n].op = "setstat" THEN name[request[n].path]
  ELSE IF part = "times" THEN name[request[target[n]].path]
  ELSE IF closed[target[n]] = 0 THEN opened[target[n]] ELSE 0

\* Mutant: an error does not keep the parts after it from being applied.
ApplyPartAnyway(n) ==
  /\ Serving(n, {"setstat", "fsetstat"}, "setting") /\ remaining[n] # <<>>
  /\ \/ LET part == Head(remaining[n]) IN
          /\ InodeFor(n, part) # 0
          /\ applied' = Append(applied, [by |-> n, part |-> part, inode |-> InodeFor(n, part)])
     \/ UNCHANGED applied
  /\ remaining' = [remaining EXCEPT ![n] = Tail(@)]
  /\ UNCHANGED <<vars, inVars, tableVars, fsVars, stage, target, result, opened, closed>>

ApplyPart(n) ==
  /\ Serving(n, {"setstat", "fsetstat"}, "setting") /\ remaining[n] # <<>>
  /\ \/ LET part == Head(remaining[n]) IN
          /\ InodeFor(n, part) # 0
          /\ applied' = Append(applied, [by |-> n, part |-> part, inode |-> InodeFor(n, part)])
          /\ remaining' = [remaining EXCEPT ![n] = Tail(@)]
          /\ UNCHANGED <<vars, stage, result>>
     \/ Respond(n, "failed") /\ UNCHANGED <<applied, remaining>>
  /\ UNCHANGED <<inVars, tableVars, fsVars, target, opened, closed>>

SetstatDone(n) ==
  /\ Serving(n, {"setstat", "fsetstat"}, "setting") /\ remaining[n] = <<>>
  /\ Respond(n, "ok")
  /\ UNCHANGED <<inVars, tableVars, fsVars, target, remaining, opened, closed, applied>>

-----------------------------------------------------------------------------
\* The files still in the table are closed when the workers have ended.
ServeReturns ==
  /\ inputEnded /\ ~ served /\ finished = 1..Len(arrived)
  /\ served' = TRUE
  /\ closed' = [n \in Packets |-> IF \E h \in Packets : openFiles[h] = n THEN closed[n] + 1
                                                                         ELSE closed[n]]
  /\ UNCHANGED <<vars, readOnly, request, inputEnded, tableVars, fsVars, stage, target, remaining,
                 result, opened, applied>>

AllDone == served /\ Len(replies) = Len(arrived) /\ UNCHANGED allVars

HandlePacket(n) ==
  \/ Start(n) \/ Denied(n) \/ PathOperation(n)
  \/ StatDirectory(n) \/ Open(n) \/ NextHandle(n)
  \/ GetHandle(n) \/ UseFile(n) \/ CloseHandle(n)
  \/ BeginSetstat(n) \/ ApplyPart(n) \/ SetstatDone(n)

ClientSends ==
  \/ \E r \in {q \in Menu : q.op \notin HandleOps} : ReceivePacket(r, 0)
  \/ \E r \in {q \in Menu : q.op \in HandleOps}, on \in Known : ReceivePacket(r, on)

FilesNext ==
  \/ ClientSends \/ InputEnds \/ SendReply
  \/ (\E n \in Packets : HandlePacket(n))
  \/ ServeReturns \/ AllDone

FilesSpec == FilesInit /\ [][FilesNext]_allVars

-----------------------------------------------------------------------------
(* Properties.                                                             *)

ClosesBefore(m) ==
  {n \in Earlier(m) : request[n].op = "close" /\ request[n].on = request[m].on}

\* Every file opened is closed once when Serve returns, by the client or by Serve, whatever
\* the order of the packets, and never twice; a packet that came before the close of its handle
\* finds the file open and uses it open, although it lets go of the lock in between (getHandle).
FilesClosedOnce ==
  /\ \A n \in Packets : closed[n] <= (IF opened[n] = 0 THEN 0 ELSE 1)
  /\ served => \A n \in Packets : opened[n] # 0 => closed[n] = 1
  /\ \A n \in DOMAIN request : request[n].on # 0 /\ ClosesBefore(n) = {} =>
       /\ result[n] # "badHandle"
       /\ stage[n] \in {"found", "setting"} => closed[target[n]] = 0

\* A handle given to the client stands for the file that its open opened: a directory if it
\* was an opendir, although that looks at the path and opens it in two steps, a file if it was
\* opened for writing; no other packet ever has the same handle.
HandlesNameTheirFile ==
  \A n \in DOMAIN request :
    /\ handle[n] # 0 =>
         /\ request[n].op = "opendir" => opened[n] \in directory
         /\ request[n].op = "open" /\ "write" \in request[n].flags => opened[n] \notin directory
         /\ \A m \in Packets \ {n} : handle[m] # handle[n]
    /\ target[n] \in {0, request[n].on}

Setstats == {n \in DOMAIN request : request[n].op \in {"setstat", "fsetstat"}}

\* Whether an attribute follows the file and not the name it was opened by.
Firm(n, i) == request[n].op = "setstat" \/ applied[i].part # "times"

\* A setstat applies its parts in order up to the first that fails and says OK only if it has
\* applied all of them; they all go to one file, the open one for an fsetstat (its times apart,
\* which follow the name), and no other packet sets an attribute in between.
SetstatsAreWhole ==
  \A n \in Setstats : \E from, done \in 0..Len(applied) :
    LET parts == request[n].parts
        mine  == (from + 1)..(from + done) IN
      /\ {i \in DOMAIN applied : applied[i].by = n} = mine
      /\ done <= Len(parts) /\ \A k \in 1..done : applied[from + k].part = parts[k]
      /\ result[n] = "ok" => done = Len(parts)
      /\ result[n] \notin {"pending", "ok"} => done < Len(parts) \/ parts = <<>>
      /\ \A i, j \in mine : Firm(n, i) /\ Firm(n, j) => applied[i].inode = applied[j].inode
      /\ request[n].op = "fsetstat" =>
           \A i \in mine : Firm(n, i) => applied[i].inode = opened[request[n].on]
=============================================================================
