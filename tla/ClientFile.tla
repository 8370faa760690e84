------------------------------ MODULE ClientFile ------------------------------
(***************************************************************************)
(* One File of the client (client.go) used by several goroutines: the      *)
(* lock, the handle and the offset, and the operations that take one       *)
(* request after the other.  Transfers that keep several requests in       *)
(* flight are ConcurrentTransfer and ConcurrentWriteTo.                    *)
(*                                                                         *)
(* Of the remote file only the size is kept; a byte is its position.       *)
(***************************************************************************)
EXTENDS Integers, Sequences, FiniteSets

CONSTANTS
  Callers,    \* goroutines that use the File
  MaxCalls,   \* bound on their calls
  MaxPacket,  \* f.c.maxPacket
  MaxSize,    \* bound on the size of the file
  Lens,       \* lengths of the buffers
  Offs        \* offsets of ReadAt, WriteAt and Seek

ASSUME FileAssumption ==
  /\ IsFiniteSet(Callers) /\ MaxCalls \in Nat /\ MaxSize \in Nat
  /\ MaxPacket \in Nat \ {0} /\ Lens \subseteq Nat /\ Offs \subseteq Int

\* Operations at the offset of the File, and at a given one; operations of a single
\* request; what takes the lock for itself.
CursorOps == {"Read", "Write", "ReadFrom"}
AtOps     == {"ReadAt", "WriteAt"}
OneOps    == {"Stat", "Sync"}
Exclusive == CursorOps \cup {"Seek", "Sync", "Close"}
Reads     == {"Read", "ReadAt"}

VARIABLES
  size,      \* of the remote file
  open,      \* f.handle # ""
  cursor,    \* f.offset
  holders,   \* the callers that hold f.mu
  calls,     \* how many calls were made
  pc,        \* of each caller
  op,        \* its operation: kind, length of the buffer, offset where it starts
  got,       \* how much has been read or written
  chunk,     \* where the chunk ends that is being read
  taken,     \* ReadFrom: how much r has yielded
  end,       \* ReadFrom: what r said with its last bytes
  err,       \* how the operation ended
  \* history
  data,      \* the bytes an operation has put into its buffer, or into the file
  closes     \* close requests sent

fileVars   == <<size, open, cursor>>
callerVars == <<pc, op, got, chunk, taken, end, err, data>>
vars       == <<fileVars, holders, calls, callerVars, closes>>

NoOp == [kind |-> "none", len |-> 0, off |-> 0]

TypeOK ==
  /\ size \in 0..MaxSize /\ open \in BOOLEAN /\ cursor \in 0..MaxSize
  /\ holders \subseteq Callers /\ calls \in 0..MaxCalls /\ closes \in 0..MaxCalls
  /\ pc \in [Callers -> {"idle", "lock", "next", "await", "unlock"}]
  /\ \A c \in Callers :
       /\ op[c].kind \in CursorOps \cup AtOps \cup OneOps \cup {"Seek", "Close", "none"}
       /\ got[c] \in 0..MaxSize /\ chunk[c] \in 0..MaxSize /\ taken[c] \in 0..MaxSize
       /\ data[c] \in Seq(0..(MaxSize - 1))
  /\ end \in [Callers -> {"more", "eof", "failed"}]
  /\ err \in [Callers -> {"none", "eof", "failed", "closed", "invalid"}]

Init ==
  /\ size \in 0..MaxSize /\ open = TRUE /\ cursor = 0
  /\ holders = {} /\ calls = 0 /\ closes = 0
  /\ pc = [c \in Callers |-> "idle"] /\ op = [c \in Callers |-> NoOp]
  /\ got = [c \in Callers |-> 0] /\ chunk = [c \in Callers |-> 0] /\ taken = [c \in Callers |-> 0]
  /\ end = [c \in Callers |-> "more"] /\ err = [c \in Callers |-> "none"]
  /\ data = [c \in Callers |-> <<>>]

Bytes(from, n) == [k \in 1..n |-> from + k - 1]

Least(a, b) == IF a < b THEN a ELSE b

-----------------------------------------------------------------------------
(* Calls and the lock.                                                     *)

\* What a caller may ask for, within MaxSize.
Requests ==
  [kind : CursorOps, len : Lens, off : {0}]
    \cup [kind : AtOps, len : Lens, off : Offs \cap Nat]
    \cup [kind : {"Seek"}, len : {0}, off : Offs]
    \cup [kind : OneOps \cup {"Close"}, len : {0}, off : {0}]

Call(c, r) ==
  /\ pc[c] = "idle" /\ calls < MaxCalls
  /\ r.off + r.len <= MaxSize
  /\ op' = [op EXCEPT ![c] = r] /\ calls' = calls + 1
  /\ pc' = [pc EXCEPT ![c] = "lock"]
  /\ UNCHANGED <<fileVars, holders, got, chunk, taken, end, err, data, closes>>

MayLock(c) ==
  IF op[c].kind \in Exclusive THEN holders = {} ELSE \A d \in holders : op[d].kind \notin Exclusive

StartsAt(c) == IF op[c].kind \in CursorOps THEN cursor ELSE op[c].off

Fits(c) == cursor + op[c].len <= MaxSize \/ op[c].kind \notin CursorOps

\* Mutant: Close leaves the handle in place.
LockKeeping(c) ==
  /\ pc[c] = "lock" /\ MayLock(c) /\ Fits(c)
  /\ holders' = holders \cup {c}
  /\ op' = [op EXCEPT ![c].off = StartsAt(c)]
  /\ IF open THEN pc' = [pc EXCEPT ![c] = "next"] /\ UNCHANGED err
             ELSE pc' = [pc EXCEPT ![c] = "unlock"] /\ err' = [err EXCEPT ![c] = "closed"]
  /\ UNCHANGED <<size, cursor, calls, got, chunk, taken, end, data, closes, open>>

\* Mutant: the offset and the handle are read before the lock is taken.
LockLate(c) ==
  /\ pc[c] = "lock"
  /\ holders' = holders \cup {c}
  /\ op' = [op EXCEPT ![c].off = StartsAt(c)]
  /\ pc' = [pc EXCEPT ![c] = IF open THEN "next" ELSE "unlock"]
  /\ err' = [err EXCEPT ![c] = IF open THEN "none" ELSE "closed"]
  /\ open' = (open /\ op[c].kind # "Close")
  /\ UNCHANGED <<size, cursor, calls, got, chunk, taken, end, data, closes>>

\* Every operation takes the lock and then looks at the handle; Close invalidates it
\* before it sends its request.
Lock(c) ==
  /\ pc[c] = "lock" /\ MayLock(c) /\ Fits(c)
  /\ holders' = holders \cup {c}
  /\ op' = [op EXCEPT ![c].off = StartsAt(c)]
  /\ pc' = [pc EXCEPT ![c] = IF open THEN "next" ELSE "unlock"]
  /\ err' = [err EXCEPT ![c] = IF open THEN "none" ELSE "closed"]
  /\ open' = (open /\ op[c].kind # "Close")
  /\ UNCHANGED <<size, cursor, calls, got, chunk, taken, end, data, closes>>

\* The offset moves with what was read or written before the lock is released.
Unlock(c) ==
  /\ pc[c] = "unlock"
  /\ holders' = holders \ {c} /\ pc' = [pc EXCEPT ![c] = "idle"]
  /\ cursor' = IF op[c].kind \in CursorOps THEN cursor + got[c] ELSE cursor
  /\ op' = [op EXCEPT ![c] = NoOp]
  /\ got' = [got EXCEPT ![c] = 0] /\ chunk' = [chunk EXCEPT ![c] = 0]
  /\ taken' = [taken EXCEPT ![c] = 0] /\ end' = [end EXCEPT ![c] = "more"]
  /\ err' = [err EXCEPT ![c] = "none"] /\ data' = [data EXCEPT ![c] = <<>>]
  /\ UNCHANGED <<size, open, calls, closes>>

\* How an operation goes on: with its next request, or by releasing the lock.
GoOn(c, more) == pc' = [pc EXCEPT ![c] = IF more THEN "next" ELSE "unlock"]

Send(c) == pc' = [pc EXCEPT ![c] = "await"]

-----------------------------------------------------------------------------
(* Read and ReadAt: chunks of MaxPacket, each read until it is full.       *)

AtNext(c, kinds) == pc[c] = "next" /\ op[c].kind \in kinds

ReadRequest(c) ==
  /\ AtNext(c, Reads)
  /\ IF got[c] = op[c].len
     THEN GoOn(c, FALSE) /\ UNCHANGED chunk
     ELSE /\ Send(c)
          /\ chunk' = IF got[c] = chunk[c]
                      THEN [chunk EXCEPT ![c] = Least(op[c].len, got[c] + MaxPacket)]
                      ELSE chunk
  /\ UNCHANGED <<fileVars, holders, calls, op, got, taken, end, err, data, closes>>

\* Mutant: the rest of a chunk is asked for at the start of the chunk.
ReadAnswerRepeats(c) ==
  LET at == op[c].off + (IF got[c] < MaxPacket THEN 0 ELSE MaxPacket)
  IN /\ pc[c] = "await" /\ op[c].kind \in Reads
     /\ \/ \E n \in 1..(chunk[c] - got[c]) :
             /\ at + n <= size
             /\ got' = [got EXCEPT ![c] = @ + n]
             /\ data' = [data EXCEPT ![c] = @ \o Bytes(at, n)]
             /\ GoOn(c, TRUE) /\ UNCHANGED err
        \/ /\ \E e \in {"failed"} \cup (IF at >= size THEN {"eof"} ELSE {}) :
                err' = [err EXCEPT ![c] = e]
           /\ GoOn(c, FALSE) /\ UNCHANGED <<got, data>>
     /\ UNCHANGED <<fileVars, holders, calls, op, chunk, taken, end, closes>>

\* Mutant: the end of the file does not end the loop.
ReadAnswerEndless(c) ==
  LET at == op[c].off + got[c]
  IN /\ pc[c] = "await" /\ op[c].kind \in Reads
     /\ \/ \E n \in 1..(chunk[c] - got[c]) :
             /\ at + n <= size
             /\ got' = [got EXCEPT ![c] = @ + n]
             /\ data' = [data EXCEPT ![c] = @ \o Bytes(at, n)]
        \/ at >= size /\ UNCHANGED <<got, data>>
     /\ GoOn(c, TRUE)
     /\ UNCHANGED <<fileVars, holders, calls, op, chunk, taken, end, err, closes>>

\* The server returns some of the bytes asked for, the end of the file, or an error.
ReadAnswer(c) ==
  LET at == op[c].off + got[c]
  IN /\ pc[c] = "await" /\ op[c].kind \in Reads
     /\ \/ \E n \in 1..(chunk[c] - got[c]) :
             /\ at + n <= size
             /\ got' = [got EXCEPT ![c] = @ + n]
             /\ data' = [data EXCEPT ![c] = @ \o Bytes(at, n)]
             /\ GoOn(c, TRUE) /\ UNCHANGED err
        \/ /\ \E e \in {"failed"} \cup (IF at >= size THEN {"eof"} ELSE {}) :
                err' = [err EXCEPT ![c] = e]
           /\ GoOn(c, FALSE) /\ UNCHANGED <<got, data>>
     /\ UNCHANGED <<fileVars, holders, calls, op, chunk, taken, end, closes>>

-----------------------------------------------------------------------------
(* Write, WriteAt and ReadFrom: a chunk is written whole or not at all.    *)

WriteRequest(c) ==
  /\ AtNext(c, {"Write", "WriteAt"})
  /\ \/ got[c] = op[c].len /\ op[c].len > MaxPacket /\ GoOn(c, FALSE) /\ UNCHANGED chunk
     \/ /\ got[c] < op[c].len \/ op[c].len <= MaxPacket
        /\ chunk' = [chunk EXCEPT ![c] = Least(op[c].len, got[c] + MaxPacket)] /\ Send(c)
  /\ UNCHANGED <<fileVars, holders, calls, op, got, taken, end, err, data, closes>>

\* r.Read yields bytes, of the op[c].len it has, and perhaps its end or an error with
\* them.
SourceYields(c) ==
  /\ AtNext(c, {"ReadFrom"}) /\ end[c] = "more" /\ err[c] = "none"
  /\ \E n \in 0..Least(MaxPacket, op[c].len - taken[c]), e \in {"more", "eof", "failed"} :
       /\ n > 0 \/ e # "more"
       /\ taken' = [taken EXCEPT ![c] = @ + n] /\ end' = [end EXCEPT ![c] = e]
       /\ IF n > 0
          THEN chunk' = [chunk EXCEPT ![c] = got[c] + n] /\ Send(c) /\ UNCHANGED err
          ELSE /\ UNCHANGED chunk /\ GoOn(c, FALSE)
               /\ err' = [err EXCEPT ![c] = IF e = "failed" THEN e ELSE @]
  /\ UNCHANGED <<fileVars, holders, calls, op, got, data, closes>>

\* A single chunk ends an operation; ReadFrom looks at the error of r first, and
\* returns that of the write only when r had none.
AfterWrite(c, ok) ==
  IF op[c].kind = "ReadFrom"
  THEN /\ GoOn(c, end[c] = "more" /\ ok)
       /\ err' = [err EXCEPT ![c] = IF end[c] = "failed" \/ (end[c] = "more" /\ ~ ok)
                                    THEN "failed" ELSE "none"]
  ELSE /\ GoOn(c, ok /\ op[c].len > MaxPacket)
       /\ err' = [err EXCEPT ![c] = IF ok THEN "none" ELSE "failed"]

WriteAnswer(c) ==
  LET at == op[c].off + got[c]
      n  == chunk[c] - got[c]
  IN /\ pc[c] = "await" /\ op[c].kind \in {"Write", "WriteAt", "ReadFrom"}
     /\ \/ /\ got' = [got EXCEPT ![c] = @ + n]
           /\ size' = IF n > 0 /\ at + n > size THEN at + n ELSE size
           /\ data' = [data EXCEPT ![c] = @ \o Bytes(at, n)]
           /\ AfterWrite(c, TRUE)
        \/ AfterWrite(c, FALSE) /\ UNCHANGED <<got, size, data>>
     /\ UNCHANGED <<open, cursor, holders, calls, op, chunk, taken, end, closes>>

-----------------------------------------------------------------------------
(* Seek, and the operations of one request.                                *)

\* Relative to the start, to the offset, or to the size a stat reports.
Seek(c) ==
  /\ AtNext(c, {"Seek"})
  /\ \/ \E base \in {0, cursor, size} :
          IF base + op[c].off \in 0..MaxSize
          THEN cursor' = base + op[c].off /\ UNCHANGED err
          ELSE base + op[c].off < 0 /\ err' = [err EXCEPT ![c] = "invalid"] /\ UNCHANGED cursor
     \/ err' = [err EXCEPT ![c] = "failed"] /\ UNCHANGED cursor
  /\ GoOn(c, FALSE)
  /\ UNCHANGED <<size, open, holders, calls, op, got, chunk, taken, end, data, closes>>

OneRequest(c) ==
  /\ AtNext(c, OneOps \cup {"Close"}) /\ Send(c)
  /\ closes' = closes + (IF op[c].kind = "Close" THEN 1 ELSE 0)
  /\ UNCHANGED <<fileVars, holders, calls, op, got, chunk, taken, end, err, data>>

OneAnswer(c) ==
  /\ pc[c] = "await" /\ op[c].kind \in OneOps \cup {"Close"}
  /\ err' \in {err, [err EXCEPT ![c] = "failed"]}
  /\ GoOn(c, FALSE)
  /\ UNCHANGED <<fileVars, holders, calls, op, got, chunk, taken, end, data, closes>>

-----------------------------------------------------------------------------
Step(c) ==
  \/ Lock(c) \/ Unlock(c)
  \/ ReadRequest(c) \/ ReadAnswer(c)
  \/ WriteRequest(c) \/ SourceYields(c) \/ WriteAnswer(c)
  \/ Seek(c) \/ OneRequest(c) \/ OneAnswer(c)

Next == \E c \in Callers : Step(c) \/ \E r \in Requests : Call(c, r)

Spec == Init /\ [][Next]_vars

\* Requests are answered, a chunk that is not at the end of the file with at least a
\* byte, and the lock is granted to everybody who waits for it.
Fairness == \A c \in Callers : WF_vars(Step(c)) /\ SF_vars(Lock(c))

FairSpec == Spec /\ Fairness

-----------------------------------------------------------------------------
(* Properties.                                                             *)

Ended(c, kinds) == pc[c] = "unlock" /\ op[c].kind \in kinds /\ err[c] # "closed"

\* However the server cuts its answers, an operation has moved the bytes at its offset
\* and after, as many as it says, and fewer than asked for only with an error ("Write
\* returns a non-nil error when n != len(b)", and io.ReaderAt likewise).
BuffersAreExact ==
  \A c \in Callers : Ended(c, Reads \cup {"Write", "WriteAt", "ReadFrom"}) =>
    /\ data[c] = Bytes(op[c].off, got[c])
    /\ op[c].kind # "ReadFrom" /\ got[c] < op[c].len => err[c] # "none"

\* The offset does not move under an operation that started from it: goroutines
\* that read or write at the offset go through the file one after the other, and
\* none reads twice or skips what another has read.
CursorIsShared ==
  \A c \in Callers : op[c].kind \in CursorOps /\ c \in holders => op[c].off = cursor

\* "there cannot be any erroneous use-after-close requests sent after Close": once the
\* close request is sent no other request is, or is still awaited, on the handle.
NoUseAfterClose ==
  /\ closes <= 1
  /\ closes = 1 => \A c \in Callers : pc[c] = "await" => op[c].kind = "Close"

\* ReadFrom "reads data from r until EOF and writes it to the file": when it returns
\* no error, what r yielded is in the file.
ReadFromIsWritten ==
  \A c \in Callers : Ended(c, {"ReadFrom"}) /\ err[c] = "none" => got[c] = taken[c]

\* Every operation returns.
OperationsReturn == \A c \in Callers : pc[c] = "next" ~> pc[c] = "idle"
=============================================================================
