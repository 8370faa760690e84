-------------------------- MODULE ConcurrentWriteTo --------------------------
(***************************************************************************)
(* File.WriteTo of the client (client.go), beside the transfers of         *)
(* ConcurrentTransfer: a whole file is read by chunks that are in flight   *)
(* together and written to a Writer in order.                              *)
(*                                                                         *)
(* The slicer dispatches requests without end; a worker takes the request, *)
(* awaits its answer and hands the bytes to the caller on a channel that   *)
(* belongs to the chunk (readWork.cur); the caller, having written a       *)
(* chunk, waits on the channel of the next one.  When the caller returns   *)
(* it closes cancel and waits for the workers, which end once the slicer   *)
(* has closed readCh (workCh in ConcurrentTransfer).                       *)
(*                                                                         *)
(* A byte of the file is its position.                                     *)
(***************************************************************************)
EXTENDS ConcurrentTransfer, Sequences

CONSTANTS
  MaxSize,  \* bound on the size of the file
  Resizes   \* how often somebody else changes that size meanwhile

ASSUME SizesAssumption ==
  MaxSize \in Nat /\ Resizes \in Nat /\ (NumChunks - 2) * ChunkLen >= MaxSize

VARIABLES
  size, resizes,  \* of the remote file, and how often it changed
  start, offset,  \* f.offset at the call, and now
  cur,            \* the chunk whose channel the caller waits on
  out,            \* what w was given: the positions of the bytes, in order
  err             \* how the transfer ended

fileVars    == <<size, resizes, start>>
outVars     == <<cur, out, offset, err>>
writeToVars == <<fileVars, outVars>>
allVars     == <<vars, writeToVars>>

WriteToTypeOK ==
  /\ TypeOK
  /\ size \in 0..MaxSize /\ start \in 0..MaxSize /\ resizes \in 0..Resizes
  /\ offset \in 0..(MaxSize + NumChunks * ChunkLen) /\ cur \in Chunks
  /\ out \in Seq(0..(MaxSize - 1)) /\ err \in {"none", "failed", "write"}

InitWriteTo ==
  /\ mode = "writeTo"
  /\ slPc = "done" /\ next = 1 /\ srcEnd = "more" /\ dispatched = {}
  /\ answer = [i \in Chunks |-> NoAnswer]
  /\ wkPc = [w \in Workers |-> "exited"] /\ wkChunk = [w \in Workers |-> 0]
  /\ done = [i \in Chunks |-> 0]
  /\ cancelled = FALSE /\ errClosed = FALSE
  /\ rdPc = "guess" /\ firstErr = [off |-> MaxInt64, err |-> "none"]
  /\ size \in 0..MaxSize /\ start \in 0..size

InitTransfers ==
  /\ \/ Init /\ size = 0 /\ start = 0
     \/ InitWriteTo
  /\ resizes = 0 /\ offset = start /\ cur = 1 /\ out = <<>> /\ err = "none"

Bytes(from, n) == [k \in 1..n |-> from + k - 1]

\* What a read of n bytes at pos returns: the server reads less than it was
\* asked only where the file ends.
Available(pos, n) == IF pos >= size THEN 0 ELSE IF size - pos < n THEN size - pos ELSE n

-----------------------------------------------------------------------------
\* Large regular files are read concurrently, the others in sequence.  The stat
\* may fail.
Guess ==
  /\ rdPc = "guess"
  /\ \/ /\ size > ChunkLen /\ rdPc' = "reduce"
        /\ slPc' = "slice" /\ wkPc' = [w \in Workers |-> "take"] /\ UNCHANGED err
     \/ rdPc' = "sequential" /\ UNCHANGED <<slPc, wkPc, err>>
     \/ rdPc' = "returned" /\ err' = "failed" /\ UNCHANGED <<slPc, wkPc>>
  /\ UNCHANGED <<mode, next, srcEnd, dispatched, answer, wkChunk, done, cancelled, errClosed,
                 firstErr, fileVars, cur, out, offset>>

\* Somebody else writes to the file, or truncates it.
Resize ==
  /\ mode = "writeTo" /\ resizes < Resizes /\ resizes' = resizes + 1
  /\ size' \in 0..MaxSize
  /\ UNCHANGED <<vars, start, outVars>>

\* The slicer has no end of its own.  The last chunk of the model begins beyond
\* every end of the file and is never taken.
EndlessSlicer ==
  \/ SliceChunk \/ CancelSlice
  \/ next < NumChunks /\ \E w \in Workers : HandOut(w)

\* The server reads the chunk, or the connection is lost.
ReadAnswer(i) ==
  /\ i \in dispatched /\ answer[i] = NoAnswer
  /\ LET n == Available(start + Offset(i), ChunkLen)
     IN answer' \in {[answer EXCEPT ![i] = r] :
          r \in {[n |-> n, err |-> IF n = 0 THEN "eof" ELSE "none"], [n |-> 0, err |-> "failed"]}}
  /\ UNCHANGED <<mode, slicerVars, workerVars, reduceVars, writeToVars>>

-----------------------------------------------------------------------------
(* The workers and the caller.                                             *)

\* Mutant: a worker whose chunk is not wanted any more ends.
DropAndReturn(w) ==
  /\ wkPc[w] = "report" /\ cancelled
  /\ wkPc' = [wkPc EXCEPT ![w] = "exited"]
  /\ UNCHANGED <<mode, slicerVars, answer, wkChunk, done, reduceVars>>

\* Mutant: a worker waits for the caller only, not for cancel.
DropNever(w) == FALSE

\* Nobody waits for the chunk; the worker goes on, to drain readCh.
Drop(w) ==
  /\ wkPc[w] = "report" /\ cancelled
  /\ wkPc' = [wkPc EXCEPT ![w] = "take"]
  /\ UNCHANGED <<mode, slicerVars, answer, wkChunk, done, reduceVars>>

\* A chunk goes to w, which takes it or fails after some of it; then comes the
\* error of the chunk, of which the end of the file is none.
Consume(r, at, go, stop) ==
  /\ offset' = at + r.n
  /\ \/ /\ out' = out \o Bytes(at, r.n)
        /\ err' = IF r.err = "failed" THEN "failed" ELSE "none"
        /\ rdPc' = IF r.err = "none" THEN go ELSE stop
     \/ /\ r.n > 0 /\ \E k \in 0..(r.n - 1) : out' = out \o Bytes(at, k)
        /\ err' = "write" /\ rdPc' = stop

Consumed(w) ==
  /\ cur' = cur + 1
  /\ wkPc' = [wkPc EXCEPT ![w] = "take"]
  /\ UNCHANGED <<mode, slicerVars, answer, wkChunk, done, cancelled, errClosed, firstErr, fileVars>>

\* Mutant: one channel for all chunks.
DeliverAny(w) ==
  /\ wkPc[w] = "report" /\ rdPc = "reduce"
  /\ Consume(answer[wkChunk[w]], start + Offset(wkChunk[w]), "reduce", "cancel")
  /\ Consumed(w)

\* readWork.cur <- writeWork, and what the caller does with it.
Deliver(w) ==
  /\ wkPc[w] = "report" /\ rdPc = "reduce" /\ wkChunk[w] = cur
  /\ Consume(answer[cur], start + Offset(cur), "reduce", "cancel")
  /\ Consumed(w)

\* writeToSequential: readChunkAt repeats the request until the chunk is full
\* or the file ends, so that a short chunk comes with its error.
SequentialChunk ==
  /\ rdPc = "sequential"
  /\ \E r \in {[n |-> k, err |-> "failed"] : k \in 0..(ChunkLen - 1)} \cup
              {[n |-> k, err |-> IF k < ChunkLen THEN "eof" ELSE "none"] : k \in 0..ChunkLen} :
       /\ r.n <= Available(offset, ChunkLen)
       /\ r.err = "eof" => offset + r.n >= size
       /\ Consume(r, offset, "sequential", "returned")
  /\ UNCHANGED <<mode, slicerVars, answer, workerVars, cancelled, errClosed, firstErr, fileVars, cur>>

CancelAll ==
  /\ rdPc = "cancel" /\ cancelled' = TRUE /\ rdPc' = "wait"
  /\ UNCHANGED <<mode, slicerVars, answer, workerVars, errClosed, firstErr, writeToVars>>

\* wg.Wait().
ReturnAfterWait ==
  /\ rdPc = "wait" /\ \A w \in Workers : wkPc[w] = "exited"
  /\ rdPc' = "returned"
  /\ UNCHANGED <<mode, slicerVars, answer, workerVars, cancelled, errClosed, firstErr, writeToVars>>

-----------------------------------------------------------------------------
AnySlicer ==
  /\ IF mode = "writeTo" THEN EndlessSlicer ELSE Slicer
  /\ UNCHANGED writeToVars

AnyWorker(w) ==
  IF mode = "writeTo"
  THEN \/ (ReceiveAnswer(w) \/ Drop(w) \/ WorkerExit(w)) /\ UNCHANGED writeToVars
       \/ Deliver(w)
  ELSE Worker(w) /\ UNCHANGED writeToVars

AnyCaller ==
  IF mode = "writeTo"
  THEN Guess \/ SequentialChunk \/ CancelAll \/ ReturnAfterWait
  ELSE (Caller \/ CloseErrCh) /\ UNCHANGED writeToVars

AnyAnswer(i) == IF mode = "writeTo" THEN ReadAnswer(i) ELSE Answer(i) /\ UNCHANGED writeToVars

Next ==
  \/ AnySlicer \/ AnyCaller \/ Resize
  \/ \E w \in Workers : AnyWorker(w)
  \/ \E i \in Chunks : AnyAnswer(i)

Spec == InitTransfers /\ [][Next]_allVars

\* Every goroutine runs, every request is answered, if only with the error of a
\* lost connection, and the select of a slicer does not pass over cancel for ever.
FairSpec ==
  /\ Spec
  /\ WF_allVars(AnySlicer) /\ SF_allVars(CancelSlice /\ UNCHANGED writeToVars)
  /\ WF_allVars(AnyCaller)
  /\ \A w \in Workers : WF_allVars(AnyWorker(w))
  /\ \A i \in Chunks : WF_allVars(AnyAnswer(i))

-----------------------------------------------------------------------------
(* Properties.                                                             *)

\* Whatever the order of the answers, w gets bytes of the file in order and none twice; when
\* nobody changes the size of the file they are those from the offset on, none left out, up to
\* the end of the file unless there is an error, for which a comment of WriteTo counts on
\* regular files (client.go:1343), and the offset never stays behind what w was given.
OutIsPrefix ==
  /\ \A k \in 1..(Len(out) - 1) : out[k] < out[k + 1]
  /\ resizes = 0 => /\ out = Bytes(start, Len(out)) /\ start + Len(out) <= offset
                    /\ (rdPc = "returned" /\ mode = "writeTo" /\ err = "none") =>
                         start + Len(out) = size

\* "Because writes are serialized, this will always be the last successfully
\* read byte", says the comment where f.offset is set.
OffsetIsLastReadByte ==
  rdPc = "returned" /\ mode = "writeTo" /\ err = "none" => offset = start + Len(out)
=============================================================================
