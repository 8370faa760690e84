-------------------------- MODULE ConcurrentTransfer --------------------------
(***************************************************************************)
(* The transfers of the client that spread chunks over goroutines          *)
(* (client.go): readAt, writeAtConcurrent and readFromWithConcurrency.     *)
(*                                                                         *)
(*   slicer -> workCh -> workers -> errCh -> the caller, who reduces       *)
(*                                           the errors to the earliest    *)
(*                                                                         *)
(* The slicer dispatches the request for a chunk and then hands the chunk  *)
(* to a worker, which waits for the answer.  Both channels are unbuffered. *)
(* The first error closes cancel, which stops the slicer; workers go on    *)
(* until workCh is closed, and errCh is closed when they have all ended.   *)
(*                                                                         *)
(* Offsets are relative to the start of the transfer.  That each request   *)
(* gets one result on its own channel is ClientConn's promise.             *)
(*                                                                         *)
(* ConcurrentWriteTo adds WriteTo, whose goroutines are built alike, and   *)
(* has the specification of all four.                                      *)
(***************************************************************************)
EXTENDS Integers, FiniteSets

CONSTANTS
  Workers,    \* the goroutines that wait for answers
  NumChunks,  \* chunks of the buffer; for readFrom, the most its source yields
  ChunkLen,   \* f.c.maxPacket
  LastLen     \* length of the last chunk

ASSUME WorkersAssumption == IsFiniteSet(Workers) /\ Workers # {}
ASSUME LengthsAssumption ==
  NumChunks \in Nat \ {0} /\ ChunkLen \in Nat \ {0} /\ LastLen \in 1..ChunkLen

VARIABLES
  mode,       \* "read" (readAt), "write" (writeAtConcurrent), "readFrom" or "writeTo"
  slPc,       \* the slicer
  next,       \* the chunk it dispatches or hands out next
  srcEnd,     \* readFrom: what r.Read said last: "more", "eof" or "failed"
  dispatched, \* chunks whose request has been dispatched
  answer,     \* the result in the channel of each request
  wkPc, wkChunk,  \* the workers, and the chunk each one works on
  done,       \* how much of each chunk has been copied, or written
  cancelled,  \* cancel is closed
  errClosed,  \* errCh is closed
  rdPc,       \* the caller, who reduces
  firstErr    \* the earliest error so far

Chunks == 1..NumChunks

LenOf(i) == IF i = NumChunks /\ mode # "writeTo" THEN LastLen ELSE ChunkLen

\* Where chunk i begins; the chunk after the last one begins at the end.
Offset(i) == IF i > NumChunks THEN (NumChunks - 1) * ChunkLen + LastLen ELSE (i - 1) * ChunkLen

Total == Offset(NumChunks + 1)

MaxInt64 == Total + 1   \* beyond every offset

\* What the answer to the request for a chunk amounts to: a read that returns
\* less than was asked is taken for the end of the file.
Outcomes(kind, i) ==
  IF kind = "read"
  THEN {[n |-> k, err |-> IF k < LenOf(i) THEN "eof" ELSE "none"] : k \in 0..LenOf(i)}
         \cup {[n |-> 0, err |-> "failed"]}
  ELSE {[n |-> LenOf(i), err |-> "none"], [n |-> 0, err |-> "failed"]}

NoAnswer == [n |-> 0, err |-> "pending"]

slicerVars == <<slPc, next, srcEnd, dispatched>>
workerVars == <<wkPc, wkChunk, done>>
reduceVars == <<cancelled, errClosed, rdPc, firstErr>>
vars == <<mode, slicerVars, answer, workerVars, reduceVars>>

TypeOK ==
  /\ mode \in {"read", "write", "readFrom", "writeTo"}
  /\ slPc \in {"slice", "offer", "fail", "done"} /\ next \in 1..(NumChunks + 1)
  /\ srcEnd \in {"more", "eof", "failed"} /\ dispatched \subseteq Chunks
  /\ answer \in [Chunks -> [n : 0..ChunkLen, err : {"pending", "none", "eof", "failed"}]]
  /\ wkPc \in [Workers -> {"take", "await", "report", "exited"}]
  /\ wkChunk \in [Workers -> Chunks \cup {0}] /\ done \in [Chunks -> 0..ChunkLen]
  /\ cancelled \in BOOLEAN /\ errClosed \in BOOLEAN
  /\ rdPc \in {"guess", "sequential", "reduce", "cancel", "wait", "returned"}
  /\ firstErr \in [off : 0..MaxInt64, err : {"none", "eof", "failed"}]

Init ==
  /\ mode \in {"read", "write", "readFrom"}
  /\ slPc = "slice" /\ next = 1 /\ srcEnd = "more" /\ dispatched = {}
  /\ answer = [i \in Chunks |-> NoAnswer]
  /\ wkPc = [w \in Workers |-> "take"] /\ wkChunk = [w \in Workers |-> 0]
  /\ done = [i \in Chunks |-> 0]
  /\ cancelled = FALSE /\ errClosed = FALSE
  /\ rdPc = "reduce" /\ firstErr = [off |-> MaxInt64, err |-> "none"]

-----------------------------------------------------------------------------
(* The slicer.                                                             *)

\* r.Read may yield data and its end or error at once; the end is looked at
\* after the data has been handed out.
SliceChunk ==
  /\ slPc = "slice" /\ next <= NumChunks
  /\ srcEnd' \in IF mode = "readFrom" THEN {"more", "eof", "failed"} ELSE {"more"}
  /\ dispatched' = dispatched \cup {next}
  /\ slPc' = "offer"
  /\ UNCHANGED <<mode, next, answer, workerVars, reduceVars>>

AfterChunk(end) == CASE end = "more" -> "slice" [] end = "eof" -> "done" [] end = "failed" -> "fail"

\* The buffer is used up, or the source ends without data.
SliceEnds ==
  /\ slPc = "slice"
  /\ \/ mode # "readFrom" /\ next > NumChunks /\ slPc' = "done" /\ UNCHANGED srcEnd
     \/ mode = "readFrom" /\ srcEnd' \in {"eof", "failed"} /\ slPc' = AfterChunk(srcEnd')
  /\ UNCHANGED <<mode, next, dispatched, answer, workerVars, reduceVars>>

HandOut(w) ==
  /\ slPc = "offer" /\ wkPc[w] = "take"
  /\ wkPc' = [wkPc EXCEPT ![w] = "await"]
  /\ wkChunk' = [wkChunk EXCEPT ![w] = next]
  /\ next' = next + 1
  /\ slPc' = AfterChunk(srcEnd)
  /\ UNCHANGED <<mode, srcEnd, dispatched, answer, done, reduceVars>>

CancelSlice ==
  /\ slPc = "offer" /\ cancelled
  /\ slPc' = "done"
  /\ UNCHANGED <<mode, next, srcEnd, dispatched, answer, workerVars, reduceVars>>

-----------------------------------------------------------------------------
(* The connection, and the workers.                                        *)

Answer(i) ==
  /\ i \in dispatched /\ answer[i] = NoAnswer
  /\ \E o \in Outcomes(mode, i) : answer' = [answer EXCEPT ![i] = o]
  /\ UNCHANGED <<mode, slicerVars, workerVars, reduceVars>>

ReceiveAnswer(w) ==
  /\ wkPc[w] = "await" /\ answer[wkChunk[w]] # NoAnswer
  /\ done' = [done EXCEPT ![wkChunk[w]] = answer[wkChunk[w]].n]
  /\ wkPc' = [wkPc EXCEPT ![w] = IF answer[wkChunk[w]].err = "none" /\ mode # "writeTo"
                                 THEN "take" ELSE "report"]
  /\ UNCHANGED <<mode, slicerVars, answer, wkChunk, reduceVars>>

\* workCh is closed.
WorkerExit(w) ==
  /\ wkPc[w] = "take" /\ slPc = "done"
  /\ wkPc' = [wkPc EXCEPT ![w] = "exited"]
  /\ UNCHANGED <<mode, slicerVars, answer, wkChunk, done, reduceVars>>

\* Mutant: errCh is closed as soon as there is no more work.
CloseErrChEarly ==
  /\ ~ errClosed /\ slPc = "done"
  /\ errClosed' = TRUE
  /\ UNCHANGED <<mode, slicerVars, answer, workerVars, cancelled, rdPc, firstErr>>

\* wg.Wait(), close(errCh).
CloseErrCh ==
  /\ ~ errClosed /\ \A w \in Workers : wkPc[w] = "exited"
  /\ errClosed' = TRUE
  /\ UNCHANGED <<mode, slicerVars, answer, workerVars, cancelled, rdPc, firstErr>>

-----------------------------------------------------------------------------
(* The caller: for err := range errCh.                                     *)

\* Mutant: the last error instead of the earliest.
ReduceToLast(off, err) ==
  /\ rdPc = "reduce"
  /\ firstErr' = [off |-> off, err |-> err]
  /\ rdPc' = "cancel"

Reduce(off, err) ==
  /\ rdPc = "reduce"
  /\ firstErr' = IF off <= firstErr.off THEN [off |-> off, err |-> err] ELSE firstErr
  /\ rdPc' = "cancel"

\* Mutant: a worker ends with its first error.
ReportErrorAndExit(w) ==
  /\ wkPc[w] = "report"
  /\ Reduce(Offset(wkChunk[w]) + done[wkChunk[w]], answer[wkChunk[w]].err)
  /\ wkPc' = [wkPc EXCEPT ![w] = "exited"]
  /\ UNCHANGED <<mode, slicerVars, answer, wkChunk, done, cancelled, errClosed>>

ReportError(w) ==
  /\ wkPc[w] = "report"
  /\ Reduce(Offset(wkChunk[w]) + done[wkChunk[w]], answer[wkChunk[w]].err)
  /\ wkPc' = [wkPc EXCEPT ![w] = "take"]
  /\ UNCHANGED <<mode, slicerVars, answer, wkChunk, done, cancelled, errClosed>>

\* readFrom: the error of the source, at the offset after what it yielded.
ReportSourceError ==
  /\ slPc = "fail"
  /\ Reduce(Offset(next), "failed")
  /\ slPc' = "done"
  /\ UNCHANGED <<mode, next, srcEnd, dispatched, answer, workerVars, cancelled, errClosed>>

\* Mutant: the caller leaves errCh after the first error.
CancelAndReturn ==
  /\ rdPc = "cancel"
  /\ cancelled' = TRUE /\ rdPc' = "returned"
  /\ UNCHANGED <<mode, slicerVars, answer, workerVars, errClosed, firstErr>>

Cancel ==
  /\ rdPc = "cancel"
  /\ cancelled' = TRUE /\ rdPc' = "reduce"
  /\ UNCHANGED <<mode, slicerVars, answer, workerVars, errClosed, firstErr>>

Return ==
  /\ rdPc = "reduce" /\ errClosed
  /\ rdPc' = "returned"
  /\ UNCHANGED <<mode, slicerVars, answer, workerVars, cancelled, errClosed, firstErr>>

\* The offset up to which the caller is told that the transfer went; for
\* readFrom it becomes the offset of the file.
Reached == IF firstErr.err = "none" THEN Offset(next) ELSE firstErr.off

-----------------------------------------------------------------------------
GoroutinesEnded == slPc = "done" /\ \A w \in Workers : wkPc[w] = "exited"

Slicer == SliceChunk \/ SliceEnds \/ CancelSlice \/ \E w \in Workers : HandOut(w)

Worker(w) == ReceiveAnswer(w) \/ ReportError(w) \/ WorkerExit(w)

Caller == ReportSourceError \/ Cancel \/ Return

-----------------------------------------------------------------------------
(* Properties.                                                             *)

\* Chunks are answered in any order, but what the caller is told was read or
\* written is: everything before the offset it gets.
ReachedIsDone ==
  rdPc = "returned" /\ mode # "writeTo" =>
    \A i \in Chunks : Offset(i) < Reached =>
      done[i] = LenOf(i) \/ Offset(i) + done[i] >= Reached

\* The error reported is that of the earliest failure among all the chunks that
\* were handed out, no failure goes unreported, and a transfer without an error
\* went to its end.
EarliestErrorReported ==
  rdPc = "returned" /\ mode # "writeTo" =>
    /\ \A i \in 1..(next - 1) :
         answer[i].err # "none" => /\ firstErr.err # "none"
                                   /\ Offset(i) + answer[i].n >= firstErr.off
    /\ srcEnd = "failed" => firstErr.err # "none"
    /\ firstErr.err = "none" => mode = "readFrom" \/ Reached = Total

\* When the transfer returns no goroutine of it is left: nobody touches the
\* caller's buffer or source any more, or sends on the closed errCh.
NobodyLeftBehind == rdPc = "returned" \/ errClosed => GoroutinesEnded

\* Every transfer returns and ends its goroutines, whatever fails.
TransferEnds == <>(rdPc = "returned" /\ GoroutinesEnded)
=============================================================================
