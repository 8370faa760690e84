----------------------- MODULE ConcurrentTransferProofs -----------------------
(***************************************************************************)
(* The transfers of the client that spread chunks over goroutines, for any *)
(* number of workers, any number and length of chunks and any file.        *)
(***************************************************************************)
EXTENDS ConcurrentWriteTo, FiniteSetTheorems, SequenceTheorems, TLAPS

Handed == 1..(next - 1)

Busy(w) == wkPc[w] \in {"await", "report"}

TypesOK ==
  /\ TypeOK
  /\ size \in Nat /\ start \in Nat /\ resizes \in Nat /\ offset \in Nat /\ cur \in Nat
  /\ out \in Seq(Nat) /\ err \in {"none", "failed", "write"}

\* The slicer, the workers and the answers, which all transfers share.
WorkOK ==
  /\ slPc = "offer" => next <= NumChunks
  /\ \A w \in Workers :
       /\ Busy(w) => wkChunk[w] \in Handed
       /\ wkPc[w] = "report" => /\ answer[wkChunk[w]].err # "pending"
                                /\ done[wkChunk[w]] = answer[wkChunk[w]].n
                                /\ mode # "writeTo" => answer[wkChunk[w]].err # "none"
       /\ wkPc[w] = "exited" => slPc = "done"
  /\ \A i \in Chunks : answer[i].err = "pending" => answer[i] = NoAnswer
  /\ errClosed => \A w \in Workers : wkPc[w] = "exited"
  /\ rdPc = "returned" => GoroutinesEnded

\* What became of a chunk that was handed out: a worker waits for its answer, or it is
\* done as far as the answer says, and its error is with a worker or has been reduced.
ChunkOK(i) ==
  \/ \E w \in Workers : wkPc[w] = "await" /\ wkChunk[w] = i
  \/ /\ answer[i].err # "pending" /\ done[i] = answer[i].n
     /\ \/ answer[i].err = "none"
        \/ \E w \in Workers : wkPc[w] = "report" /\ wkChunk[w] = i
        \/ firstErr.err # "none" /\ firstErr.off <= Offset(i) + answer[i].n

\* A transfer that reduces its errors.
ReduceOK ==
  mode # "writeTo" =>
    /\ rdPc \in {"reduce", "cancel", "returned"}
    /\ \A i \in Chunks : /\ answer[i].n <= LenOf(i)
                         /\ answer[i].err = "none" => answer[i].n = LenOf(i)
    /\ \A i \in Handed : ChunkOK(i)
    /\ firstErr.err = "none" => firstErr.off = MaxInt64 /\ ~ cancelled /\ rdPc # "cancel"
    /\ firstErr.err # "none" => firstErr.off <= Offset(next)
    /\ srcEnd = "failed" => slPc \in {"offer", "fail"} \/ firstErr.err # "none"
    /\ mode # "readFrom" =>
         /\ srcEnd = "more" /\ slPc # "fail"
         /\ slPc = "done" /\ firstErr.err = "none" => next = NumChunks + 1
    /\ resizes = 0 /\ out = <<>> /\ start <= offset

Ascending(s) == \A k \in 1..(Len(s) - 1) : s[k] < s[k + 1]

Below(s, b) == \A k \in 1..Len(s) : s[k] < b

\* WriteTo, while nobody changes the size of the file.
SteadyOK ==
  /\ start <= size
  /\ out = Bytes(start, Len(out)) /\ start + Len(out) <= offset
  /\ \A i \in Chunks :
       /\ answer[i].err = "none" => answer[i].n = Available(start + Offset(i), ChunkLen)
       /\ answer[i].err = "eof" => Available(start + Offset(i), ChunkLen) = 0
  /\ rdPc = "reduce" =>
       Len(out) = IF Offset(cur) <= size - start THEN Offset(cur) ELSE size - start
  /\ rdPc = "sequential" => start + Len(out) = offset /\ offset <= size
  /\ rdPc \in {"cancel", "wait", "returned"} /\ err = "none" => start + Len(out) = size

\* WriteTo: what the caller has written, up to the chunk it waits for.
WriteToOK ==
  mode = "writeTo" =>
    /\ ~ errClosed /\ next <= NumChunks /\ cur <= NumChunks /\ cur >= 1
    /\ rdPc \in {"guess", "sequential"} => GoroutinesEnded
    /\ rdPc = "guess" => out = <<>> /\ cur = 1 /\ offset = start
    /\ rdPc \in {"guess", "reduce", "sequential"} => err = "none"
    /\ \A i \in Chunks : answer[i].err \in {"eof", "failed"} => answer[i].n = 0
    /\ \A i \in Chunks : answer[i].err = "none" => answer[i].n > 0
    /\ Ascending(out)
    /\ rdPc = "reduce" => Below(out, start + Offset(cur))
    /\ rdPc = "sequential" => Below(out, offset)
    /\ resizes = 0 => SteadyOK

TransferInv == TypesOK /\ WorkOK /\ ReduceOK /\ WriteToOK

-----------------------------------------------------------------------------
(* Offsets, and sequences of positions.                                    *)

LEMMA Lengths ==
         /\ NumChunks \in Nat /\ NumChunks >= 1 /\ ChunkLen \in Nat /\ ChunkLen >= 1
         /\ LastLen \in Nat /\ LastLen >= 1 /\ LastLen <= ChunkLen
         /\ MaxSize \in Nat /\ Resizes \in Nat
BY LengthsAssumption, SizesAssumption

LEMMA Products ==
  ASSUME NEW a \in Nat, NEW b \in Nat, NEW c \in Nat, a <= b
  PROVE  /\ a * c \in Nat /\ b * c \in Nat /\ a * c <= b * c
         /\ (a + 1) * c = a * c + c
OBVIOUS

\* Chunks follow each other; the first one begins at the start.
LEMMA Offsets ==
         /\ Offset(1) = 0
         /\ \A i \in 1..(NumChunks + 1) : Offset(i) \in Nat
         /\ \A i \in Chunks : Offset(i + 1) = Offset(i) + (IF i = NumChunks THEN LastLen ELSE ChunkLen)
         /\ \A i, j \in 1..(NumChunks + 1) : i <= j => Offset(i) <= Offset(j)
<1> USE Lengths
<1> DEFINE P(i) == (i - 1) * ChunkLen
<1>1. \A i \in 1..NumChunks : Offset(i) = P(i) /\ P(i) \in Nat
  BY DEF Offset
<1>2. Offset(NumChunks + 1) = P(NumChunks) + LastLen
  BY DEF Offset
<1>3. \A i \in 1..(NumChunks - 1) : P(i + 1) = P(i) + ChunkLen
  <2> TAKE i \in 1..(NumChunks - 1)
  <2> QED BY Products
<1>4. \A i, j \in 1..NumChunks : i <= j => P(i) <= P(j)
  <2> TAKE i, j \in 1..NumChunks
  <2>1. i - 1 \in Nat /\ j - 1 \in Nat
    OBVIOUS
  <2> QED BY <2>1, Products
<1>5. P(1) = 0
  OBVIOUS
<1> HIDE DEF P
<1>6. \A i, j \in 1..(NumChunks + 1) : i <= j => Offset(i) <= Offset(j)
  <2> SUFFICES ASSUME NEW i \in 1..(NumChunks + 1), NEW j \in 1..(NumChunks + 1), i <= j
               PROVE  Offset(i) <= Offset(j)
    OBVIOUS
  <2>1. CASE j <= NumChunks
    BY <1>1, <1>4, <2>1
  <2>2. CASE j = NumChunks + 1 /\ i <= NumChunks
    <3>1. P(i) <= P(NumChunks) /\ P(i) \in Nat /\ P(NumChunks) \in Nat
      BY <1>1, <1>4, <2>2
    <3> QED BY <1>1, <1>2, <2>2, <3>1
  <2>3. CASE i = NumChunks + 1 /\ j = NumChunks + 1
    BY <1>1, <1>2, <2>3
  <2> QED BY <2>1, <2>2, <2>3
<1>7. \A i \in 1..(NumChunks + 1) : Offset(i) \in Nat
  BY <1>1, <1>2
<1>8. \A i \in Chunks : Offset(i + 1) = Offset(i) + (IF i = NumChunks THEN LastLen ELSE ChunkLen)
  BY <1>1, <1>2, <1>3 DEF Chunks
<1> QED BY <1>1, <1>5, <1>6, <1>7, <1>8

\* The offset that stands for no error is beyond every other.
LEMMA Beyond ==
  MaxInt64 \in Nat /\ \A i \in 1..(NumChunks + 1) : Offset(i) < MaxInt64
BY Offsets, Lengths DEF MaxInt64, Total

\* Appending positions from a bound on.
LEMMA Appended ==
  ASSUME NEW s \in Seq(Nat), NEW at \in Nat, NEW n \in Nat, Ascending(s), Below(s, at)
  PROVE  /\ s \o Bytes(at, n) \in Seq(Nat) /\ Len(s \o Bytes(at, n)) = Len(s) + n
         /\ Ascending(s \o Bytes(at, n)) /\ Below(s \o Bytes(at, n), at + n)
<1> DEFINE t == s \o Bytes(at, n)
<1>1. Bytes(at, n) \in Seq(Nat) /\ Len(Bytes(at, n)) = n /\ \A k \in 1..n : Bytes(at, n)[k] = at + k - 1
  BY DEF Bytes
<1>2. /\ t \in Seq(Nat) /\ Len(t) = Len(s) + n /\ Len(s) \in Nat
      /\ \A k \in 1..Len(t) : t[k] = IF k <= Len(s) THEN s[k] ELSE Bytes(at, n)[k - Len(s)]
  BY <1>1
<1> HIDE DEF t
<1>3. \A k \in 1..Len(t) : k > Len(s) => t[k] = at + (k - Len(s)) - 1
  BY <1>1, <1>2
<1>4. \A k \in 1..Len(s) : t[k] = s[k] /\ s[k] < at /\ s[k] \in Nat
  BY <1>2 DEF Below
<1>5. \A k \in 1..(Len(t) - 1) : t[k] < t[k + 1]
  <2> TAKE k \in 1..(Len(t) - 1)
  <2>1. CASE k < Len(s)
    BY <1>2, <1>4, <2>1 DEF Ascending
  <2>2. CASE k = Len(s)
    <3>1. k \in 1..Len(s) /\ k + 1 \in 1..Len(t) /\ k + 1 > Len(s) /\ k + 1 - Len(s) = 1
      BY <1>2, <2>2
    <3>2. t[k + 1] = at + 1 - 1
      BY <1>3, <3>1
    <3> QED BY <1>4, <3>1, <3>2
  <2>3. CASE k > Len(s)
    <3>1. k \in 1..Len(t) /\ k + 1 \in 1..Len(t) /\ k + 1 > Len(s) /\ k \in Nat /\ Len(s) \in Nat
      BY <1>2, <2>3
    <3>2. t[k] = at + (k - Len(s)) - 1 /\ t[k + 1] = at + (k + 1 - Len(s)) - 1
      BY <1>3, <2>3, <3>1
    <3> QED BY <3>1, <3>2
  <2> QED BY <1>2, <2>1, <2>2, <2>3
<1>6. \A k \in 1..Len(t) : t[k] < at + n
  <2> TAKE k \in 1..Len(t)
  <2>1. CASE k <= Len(s)
    BY <1>2, <1>4, <2>1
  <2>2. CASE k > Len(s)
    <3>1. t[k] = at + (k - Len(s)) - 1 /\ k <= Len(s) + n /\ k \in Nat
      BY <1>2, <1>3, <2>2
    <3> QED BY <1>2, <3>1
  <2> QED BY <1>2, <2>1, <2>2
<1> QED BY <1>2, <1>5, <1>6 DEF t, Ascending, Below

LEMMA BytesAppended ==
  ASSUME NEW from \in Nat, NEW m \in Nat, NEW n \in Nat
  PROVE  Bytes(from, m) \o Bytes(from + m, n) = Bytes(from, m + n)
<1>1. /\ Bytes(from, m) \in Seq(Nat) /\ Bytes(from + m, n) \in Seq(Nat) /\ Bytes(from, m + n) \in Seq(Nat)
      /\ Len(Bytes(from, m)) = m /\ Len(Bytes(from + m, n)) = n /\ Len(Bytes(from, m + n)) = m + n
      /\ \A k \in 1..m : Bytes(from, m)[k] = from + k - 1
      /\ \A k \in 1..n : Bytes(from + m, n)[k] = from + m + k - 1
      /\ \A k \in 1..(m + n) : Bytes(from, m + n)[k] = from + k - 1
  BY DEF Bytes
<1> DEFINE t == Bytes(from, m) \o Bytes(from + m, n)
<1> DEFINE u == Bytes(from, m + n)
<1>2. /\ t \in Seq(Nat) /\ Len(t) = m + n
      /\ \A k \in 1..Len(t) : t[k] = IF k <= m THEN Bytes(from, m)[k] ELSE Bytes(from + m, n)[k - m]
  BY <1>1
<1>3. \A k \in 1..(m + n) : t[k] = from + k - 1
  <2> HIDE DEF t
  <2> TAKE k \in 1..(m + n)
  <2>1. CASE k <= m
    BY <1>1, <1>2, <2>1
  <2>2. CASE k > m
    <3>1. k - m \in 1..n /\ t[k] = Bytes(from + m, n)[k - m]
      BY <1>2, <2>2
    <3>2. Bytes(from + m, n)[k - m] = from + m + (k - m) - 1
      BY <1>1, <3>1
    <3> QED BY <3>1, <3>2
  <2> QED BY <2>1, <2>2
<1>4. u \in Seq(Nat) /\ Len(u) = m + n /\ \A k \in 1..(m + n) : u[k] = from + k - 1
  BY <1>1
<1> HIDE DEF t, u
<1>5. t = u
  BY <1>2, <1>3, <1>4, SeqEqual
<1> QED BY <1>5 DEF t, u

-----------------------------------------------------------------------------
(* The invariant is kept by every action.                                  *)

LEMMA InitInv ==
  ASSUME InitTransfers
  PROVE  TransferInv
<1> USE Lengths, Offsets DEF InitTransfers
<1>0. /\ NoAnswer \in [n : 0..ChunkLen, err : {"pending", "none", "eof", "failed"}]
      /\ [off |-> MaxInt64, err |-> "none"] \in [off : 0..MaxInt64, err : {"none", "eof", "failed"}]
      /\ <<>> \in Seq(Nat) /\ 1 \in 1..(NumChunks + 1) /\ 0 \in 0..ChunkLen
  BY Beyond DEF NoAnswer
<1>1. CASE Init /\ size = 0 /\ start = 0
  <2> USE <1>1 DEF Init
  <2>1. TypesOK
    BY <1>0 DEF TypesOK, TypeOK
  <2>2. WorkOK
    BY DEF WorkOK, Busy, Chunks, NoAnswer
  <2>3. ReduceOK
    BY DEF ReduceOK, ChunkOK, Handed, Chunks, LenOf, NoAnswer
  <2>4. WriteToOK
    BY DEF WriteToOK
  <2> QED BY <2>1, <2>2, <2>3, <2>4 DEF TransferInv
<1>2. CASE InitWriteTo
  <2> USE <1>2 DEF InitWriteTo
  <2>1. TypesOK
    <3>1. size \in Nat /\ start \in Nat
      OBVIOUS
    <3> QED BY <1>0, <3>1 DEF TypesOK, TypeOK
  <2>2. WorkOK
    BY DEF WorkOK, Busy, Chunks, NoAnswer
  <2>3. ReduceOK
    BY DEF ReduceOK
  <2>4. SteadyOK
    <3>1. out = <<>> /\ Bytes(start, 0) = <<>> /\ Len(out) = 0
      BY DEF Bytes
    <3> QED BY <3>1 DEF SteadyOK, NoAnswer, Chunks
  <2>5. WriteToOK
    BY <2>4 DEF WriteToOK, Ascending, NoAnswer, Chunks, GoroutinesEnded
  <2> QED BY <2>1, <2>2, <2>3, <2>5 DEF TransferInv
<1> QED BY <1>1, <1>2

\* What a step of the slicer and the workers leaves of WriteTo.
LEMMA WriteToKept ==
  ASSUME WriteToOK, UNCHANGED <<mode, answer, rdPc, errClosed, writeToVars>>,
         mode = "writeTo" => next' <= NumChunks,
         mode = "writeTo" /\ rdPc \in {"guess", "sequential"} => GoroutinesEnded'
  PROVE  WriteToOK'
<1> USE DEF writeToVars, fileVars, outVars
<1>1. SteadyOK => SteadyOK'
  BY DEF SteadyOK, Available
<1> QED BY <1>1 DEF WriteToOK

LEMMA SliceChunkInv ==
  ASSUME TransferInv, SliceChunk, UNCHANGED writeToVars
  PROVE  TransferInv'
<1> USE DEF SliceChunk, workerVars, reduceVars
<1>1. TypesOK'
  BY DEF TransferInv, TypesOK, TypeOK, writeToVars, fileVars, outVars, Chunks
<1>2. WorkOK'
  BY DEF TransferInv, WorkOK, Busy, Handed, GoroutinesEnded
<1>3. ReduceOK'
  <2>1. \A i : ChunkOK(i) => ChunkOK(i)'
    BY DEF ChunkOK
  <2> QED BY <2>1 DEF TransferInv, ReduceOK, Handed, LenOf, writeToVars, fileVars, outVars
<1>4. WriteToOK'
  BY WriteToKept DEF TransferInv, WriteToOK, GoroutinesEnded
<1> QED BY <1>1, <1>2, <1>3, <1>4 DEF TransferInv

LEMMA SliceEndsInv ==
  ASSUME TransferInv, SliceEnds, mode # "writeTo", UNCHANGED writeToVars
  PROVE  TransferInv'
<1> USE DEF SliceEnds, AfterChunk, workerVars, reduceVars
<1>1. TypesOK'
  BY DEF TransferInv, TypesOK, TypeOK, writeToVars, fileVars, outVars
<1>2. WorkOK'
  BY DEF TransferInv, WorkOK, Busy, Handed, GoroutinesEnded
<1>3. ReduceOK'
  <2>1. \A i : ChunkOK(i) => ChunkOK(i)'
    BY DEF ChunkOK
  <2>2. next <= NumChunks + 1 /\ next \in Nat
    BY Lengths DEF TransferInv, TypesOK, TypeOK
  <2> QED BY <2>1, <2>2, Lengths DEF TransferInv, ReduceOK, Handed, LenOf, writeToVars, fileVars, outVars
<1>4. WriteToOK'
  BY DEF WriteToOK
<1> QED BY <1>1, <1>2, <1>3, <1>4 DEF TransferInv

LEMMA CancelSliceInv ==
  ASSUME TransferInv, CancelSlice, UNCHANGED writeToVars
  PROVE  TransferInv'
<1> USE DEF CancelSlice, workerVars, reduceVars
<1>1. TypesOK'
  BY DEF TransferInv, TypesOK, TypeOK, writeToVars, fileVars, outVars
<1>2. WorkOK'
  BY DEF TransferInv, WorkOK, Busy, Handed, GoroutinesEnded
<1>3. ReduceOK'
  <2>1. \A i : ChunkOK(i) => ChunkOK(i)'
    BY DEF ChunkOK
  <2> QED BY <2>1 DEF TransferInv, ReduceOK, Handed, LenOf, writeToVars, fileVars, outVars
<1>4. WriteToOK'
  BY WriteToKept DEF TransferInv, WriteToOK, GoroutinesEnded
<1> QED BY <1>1, <1>2, <1>3, <1>4 DEF TransferInv

LEMMA HandOutInv ==
  ASSUME TransferInv, NEW w \in Workers, HandOut(w), mode = "writeTo" => next < NumChunks,
         UNCHANGED writeToVars
  PROVE  TransferInv'
<1> USE DEF HandOut, reduceVars
<1>1. next \in Chunks /\ next \in Nat /\ next' = next + 1 /\ Handed' = Handed \cup {next}
      /\ Handed \subseteq Chunks
  BY Lengths DEF TransferInv, TypesOK, TypeOK, WorkOK, Chunks, Handed
<1>2. slPc' \in {"slice", "done", "fail"} /\ (srcEnd = "failed" => slPc' = "fail")
      /\ (srcEnd = "more" => slPc' = "slice")
  BY DEF AfterChunk, TransferInv, TypesOK, TypeOK
<1>3. TypesOK'
  BY <1>1, <1>2, Lengths DEF TransferInv, TypesOK, TypeOK, writeToVars, fileVars, outVars, Chunks
<1>4. WorkOK'
  <2>1. \A v \in Workers : v # w => wkPc'[v] = wkPc[v] /\ wkChunk'[v] = wkChunk[v]
    BY DEF TransferInv, TypesOK, TypeOK
  <2>2. wkPc'[w] = "await" /\ wkChunk'[w] = next /\ wkPc[w] = "take"
    BY DEF TransferInv, TypesOK, TypeOK
  <2>3. \A v \in Workers : wkPc[v] # "exited"
    BY DEF TransferInv, WorkOK
  <2>4. rdPc # "returned" /\ ~ errClosed
    BY <2>2 DEF TransferInv, WorkOK, GoroutinesEnded
  <2> QED BY <1>1, <1>2, <2>1, <2>2, <2>3, <2>4 DEF TransferInv, WorkOK, Busy
<1>5. ReduceOK'
  <2> SUFFICES ASSUME mode # "writeTo" PROVE ReduceOK'
    BY DEF ReduceOK
  <2>1. \A i \in Handed : ChunkOK(i)'
    <3> TAKE i \in Handed
    <3>1. ChunkOK(i)
      BY DEF TransferInv, ReduceOK
    <3>2. \A v \in Workers : wkPc[v] # "take" => wkPc'[v] = wkPc[v] /\ wkChunk'[v] = wkChunk[v]
      BY DEF TransferInv, TypesOK, TypeOK
    <3> QED BY <3>1, <3>2 DEF ChunkOK
  <2>2. \A i \in Handed' \ Handed : ChunkOK(i)'
    <3>1. wkPc'[w] = "await" /\ wkChunk'[w] = next
      BY DEF TransferInv, TypesOK, TypeOK
    <3> QED BY <1>1, <3>1 DEF ChunkOK
  <2>3. Offset(next) <= Offset(next') /\ Offset(next) \in Nat /\ Offset(next') \in Nat /\ firstErr.off \in Nat
    <3>1. next' \in 1..(NumChunks + 1) /\ next \in 1..(NumChunks + 1) /\ next <= next'
      BY <1>1, Lengths DEF Chunks
    <3>3. firstErr.off \in Nat
      BY Beyond DEF TransferInv, TypesOK, TypeOK
    <3> QED BY <3>1, <3>3, Offsets
  <2> QED BY <1>1, <1>2, <2>1, <2>2, <2>3 DEF TransferInv, ReduceOK, LenOf, writeToVars, fileVars, outVars
<1>6. WriteToOK'
  <2>1. mode = "writeTo" => rdPc \notin {"guess", "sequential"}
    BY DEF TransferInv, WriteToOK, GoroutinesEnded
  <2>2. mode = "writeTo" => next' <= NumChunks
    BY <1>1, Lengths
  <2> QED BY <2>1, <2>2, WriteToKept DEF TransferInv
<1> QED BY <1>3, <1>4, <1>5, <1>6 DEF TransferInv

\* The answer to a chunk that a worker waits for.
LEMMA AnswerInv ==
  ASSUME TransferInv, mode # "writeTo", NEW i \in Chunks, Answer(i), UNCHANGED writeToVars
  PROVE  TransferInv'
<1> USE DEF Answer, slicerVars, workerVars, reduceVars
<1> PICK o \in Outcomes(mode, i) : answer' = [answer EXCEPT ![i] = o]
  BY DEF Answer
<1>1. /\ o \in [n : 0..ChunkLen, err : {"pending", "none", "eof", "failed"}] /\ o.err # "pending"
      /\ o.n <= LenOf(i) /\ (o.err = "none" => o.n = LenOf(i))
  <2>1. LenOf(i) \in Nat /\ LenOf(i) <= ChunkLen
    BY Lengths DEF LenOf
  <2> QED BY <2>1, Lengths DEF Outcomes
<1>2. answer[i].err = "pending" /\ answer'[i] = o /\ \A j \in Chunks \ {i} : answer'[j] = answer[j]
  BY DEF TransferInv, TypesOK, TypeOK, NoAnswer
<1>3. TypesOK'
  BY <1>1 DEF TransferInv, TypesOK, TypeOK, writeToVars, fileVars, outVars
<1>4. Handed \subseteq Chunks
  BY Lengths DEF Handed, Chunks, TransferInv, TypesOK, TypeOK
<1>5. WorkOK'
  BY <1>1, <1>2, <1>4 DEF TransferInv, WorkOK, Busy, Handed, GoroutinesEnded
<1>6. ReduceOK'
  <2>1. \A j \in Handed : ChunkOK(j) => ChunkOK(j)'
    BY <1>2, <1>4 DEF ChunkOK
  <2> QED BY <1>1, <1>2, <2>1 DEF TransferInv, ReduceOK, Handed, LenOf, writeToVars, fileVars, outVars
<1>7. WriteToOK'
  BY DEF WriteToOK
<1> QED BY <1>3, <1>5, <1>6, <1>7 DEF TransferInv

LEMMA ReadAnswerInv ==
  ASSUME TransferInv, mode = "writeTo", NEW i \in Chunks, ReadAnswer(i)
  PROVE  TransferInv'
<1> USE DEF ReadAnswer, slicerVars, workerVars, reduceVars, writeToVars, fileVars, outVars
<1> DEFINE n == Available(start + Offset(i), ChunkLen)
<1>1. n \in Nat /\ n <= ChunkLen
  <2>1. Offset(i) \in Nat /\ size \in Nat /\ start \in Nat /\ ChunkLen \in Nat
    BY Offsets, Lengths DEF Chunks, TransferInv, TypesOK
  <2> QED BY <2>1 DEF Available
<1>2. PICK o \in {[n |-> n, err |-> IF n = 0 THEN "eof" ELSE "none"], [n |-> 0, err |-> "failed"]} :
        answer' = [answer EXCEPT ![i] = o]
  BY DEF ReadAnswer
<1>3. /\ o \in [n : 0..ChunkLen, err : {"pending", "none", "eof", "failed"}] /\ o.err # "pending"
      /\ (o.err \in {"eof", "failed"} => o.n = 0) /\ (o.err = "none" => o.n > 0 /\ o.n = n)
      /\ (o.err = "eof" => n = 0)
  <2> HIDE DEF n
  <2> QED BY <1>1, <1>2, Lengths
<1>4. answer[i].err = "pending" /\ answer'[i] = o /\ \A j \in Chunks \ {i} : answer'[j] = answer[j]
  BY <1>2 DEF TransferInv, TypesOK, TypeOK, NoAnswer
<1>5. TypesOK'
  BY <1>2, <1>3 DEF TransferInv, TypesOK, TypeOK
<1>6. Handed \subseteq Chunks
  BY Lengths DEF Handed, Chunks, TransferInv, TypesOK, TypeOK
<1>7. WorkOK'
  BY <1>3, <1>4, <1>6 DEF TransferInv, WorkOK, Busy, Handed, GoroutinesEnded
<1>8. ReduceOK'
  BY DEF ReduceOK
<1>9. SteadyOK => SteadyOK'
  BY <1>3, <1>4 DEF SteadyOK, Available
<1>10. WriteToOK'
  BY <1>3, <1>4, <1>9 DEF TransferInv, WriteToOK, GoroutinesEnded
<1> QED BY <1>5, <1>7, <1>8, <1>10 DEF TransferInv

LEMMA ReceiveAnswerInv ==
  ASSUME TransferInv, NEW w \in Workers, ReceiveAnswer(w), UNCHANGED writeToVars
  PROVE  TransferInv'
<1> USE DEF ReceiveAnswer, slicerVars, reduceVars
<1> DEFINE i == wkChunk[w]
<1>1. i \in Handed /\ i \in Chunks /\ answer[i].err # "pending" /\ answer[i].n \in 0..ChunkLen
      /\ Handed \subseteq Chunks
  <2>1. i \in Handed /\ Handed \subseteq Chunks
    BY Lengths DEF TransferInv, TypesOK, TypeOK, WorkOK, Busy, Chunks, Handed
  <2> QED BY <2>1 DEF TransferInv, TypesOK, TypeOK, WorkOK
<1>2. /\ done'[i] = answer[i].n /\ wkPc'[w] = IF answer[i].err = "none" /\ mode # "writeTo" THEN "take" ELSE "report"
      /\ \A j \in Chunks \ {i} : done'[j] = done[j]
      /\ \A v \in Workers \ {w} : wkPc'[v] = wkPc[v]
  BY <1>1 DEF TransferInv, TypesOK, TypeOK
<1>3. TypesOK'
  BY <1>1, <1>2 DEF TransferInv, TypesOK, TypeOK, writeToVars, fileVars, outVars
<1>4. WorkOK'
  BY <1>1, <1>2 DEF TransferInv, WorkOK, Busy, Handed, GoroutinesEnded
<1>5. ReduceOK'
  <2> SUFFICES ASSUME mode # "writeTo" PROVE ReduceOK'
    BY DEF ReduceOK
  <2>1. \A j \in Handed : ChunkOK(j)'
    <3> TAKE j \in Handed
    <3>1. ChunkOK(j)
      BY DEF TransferInv, ReduceOK
    <3>2. CASE j = i
      BY <1>1, <1>2, <3>2 DEF ChunkOK
    <3>3. CASE j # i
      <4>1. j \in Chunks /\ done'[j] = done[j]
        BY <1>1, <1>2, <3>3
      <4>2. \A v \in Workers : wkChunk[v] = j => wkPc'[v] = wkPc[v]
        BY <1>2, <3>3
      <4> QED BY <3>1, <4>1, <4>2 DEF ChunkOK
    <3> QED BY <3>2, <3>3
  <2> QED BY <2>1 DEF TransferInv, ReduceOK, Handed, LenOf, writeToVars, fileVars, outVars
<1>6. WriteToOK'
  <2>1. mode = "writeTo" => next' <= NumChunks
    BY DEF TransferInv, WriteToOK
  <2>2. mode = "writeTo" => rdPc \notin {"guess", "sequential"}
    BY DEF TransferInv, WriteToOK, GoroutinesEnded
  <2> QED BY <2>1, <2>2, WriteToKept DEF TransferInv
<1> QED BY <1>3, <1>4, <1>5, <1>6 DEF TransferInv

\* A worker that has nothing more to do for a chunk: it ends, or goes on to the next one.
LEMMA WorkerExitInv ==
  ASSUME TransferInv, NEW w \in Workers, WorkerExit(w), UNCHANGED writeToVars
  PROVE  TransferInv'
<1> USE DEF WorkerExit, slicerVars, reduceVars
<1>1. wkPc'[w] = "exited" /\ wkPc[w] = "take" /\ \A v \in Workers \ {w} : wkPc'[v] = wkPc[v]
  BY DEF TransferInv, TypesOK, TypeOK
<1>2. TypesOK'
  BY DEF TransferInv, TypesOK, TypeOK, writeToVars, fileVars, outVars
<1>3. WorkOK'
  BY <1>1 DEF TransferInv, WorkOK, Busy, Handed, GoroutinesEnded
<1>4. ReduceOK'
  <2>1. \A j \in Handed : ChunkOK(j) => ChunkOK(j)'
    BY <1>1 DEF ChunkOK
  <2> QED BY <2>1 DEF TransferInv, ReduceOK, Handed, LenOf, writeToVars, fileVars, outVars
<1>5. WriteToOK'
  BY <1>1, WriteToKept DEF TransferInv, WriteToOK, GoroutinesEnded
<1> QED BY <1>2, <1>3, <1>4, <1>5 DEF TransferInv

LEMMA DropInv ==
  ASSUME TransferInv, mode = "writeTo", NEW w \in Workers, Drop(w), UNCHANGED writeToVars
  PROVE  TransferInv'
<1> USE DEF Drop, slicerVars, reduceVars
<1>1. wkPc'[w] = "take" /\ wkPc[w] = "report" /\ \A v \in Workers \ {w} : wkPc'[v] = wkPc[v]
  BY DEF TransferInv, TypesOK, TypeOK
<1>2. TypesOK'
  BY DEF TransferInv, TypesOK, TypeOK, writeToVars, fileVars, outVars
<1>3. WorkOK'
  BY <1>1 DEF TransferInv, WorkOK, Busy, Handed, GoroutinesEnded
<1>4. ReduceOK'
  BY DEF ReduceOK
<1>5. WriteToOK'
  BY <1>1, WriteToKept DEF TransferInv, WriteToOK, GoroutinesEnded
<1> QED BY <1>2, <1>3, <1>4, <1>5 DEF TransferInv

\* What the reduction does to the earliest error: the new one is no later than it, and no
\* later than the one reported.
LEMMA Reduced ==
  ASSUME TransferInv, mode # "writeTo", NEW off \in Nat, NEW e \in {"eof", "failed"},
         off <= Offset(next), Reduce(off, e)
  PROVE  /\ firstErr' \in [off : 0..MaxInt64, err : {"none", "eof", "failed"}]
         /\ firstErr'.err # "none" /\ firstErr'.off <= off /\ firstErr'.off <= Offset(next)
         /\ firstErr.err # "none" => firstErr'.off <= firstErr.off
         /\ rdPc' = "cancel" /\ rdPc = "reduce"
<1>1. off < MaxInt64 /\ MaxInt64 \in Nat /\ Offset(next) \in Nat
  BY Beyond, Offsets DEF TransferInv, TypesOK, TypeOK
<1>2. firstErr \in [off : 0..MaxInt64, err : {"none", "eof", "failed"}]
  BY DEF TransferInv, TypesOK, TypeOK
<1>3. firstErr.err = "none" => firstErr.off = MaxInt64
  BY DEF TransferInv, ReduceOK
<1>4. firstErr.err # "none" => firstErr.off <= Offset(next)
  BY DEF TransferInv, ReduceOK
<1>5. firstErr.off \in Nat
  BY <1>1, <1>2
<1>6. CASE off <= firstErr.off
  <2>1. firstErr' = [off |-> off, err |-> e]
    BY <1>6 DEF Reduce
  <2> QED BY <1>1, <1>5, <1>6, <2>1 DEF Reduce
<1>7. CASE ~ (off <= firstErr.off)
  <2>1. firstErr' = firstErr /\ firstErr.err # "none"
    BY <1>1, <1>3, <1>7 DEF Reduce
  <2> QED BY <1>2, <1>4, <1>5, <1>7, <2>1 DEF Reduce
<1> QED BY <1>6, <1>7

LEMMA ReportErrorInv ==
  ASSUME TransferInv, mode # "writeTo", NEW w \in Workers, ReportError(w), UNCHANGED writeToVars
  PROVE  TransferInv'
<1> USE DEF slicerVars
<1> DEFINE i == wkChunk[w]
<1> DEFINE off == Offset(i) + answer[i].n
<1>1. /\ UNCHANGED <<mode, slPc, next, srcEnd, dispatched, answer, wkChunk, done, cancelled, errClosed>>
      /\ wkPc' = [wkPc EXCEPT ![w] = "take"] /\ wkPc[w] = "report"
      /\ Reduce(Offset(i) + done[i], answer[i].err)
  BY DEF ReportError
<1>2. i \in Handed /\ i \in Chunks /\ Handed \subseteq Chunks
  <2>1. i \in Handed /\ Handed \subseteq Chunks
    BY <1>1, Lengths DEF TransferInv, TypesOK, TypeOK, WorkOK, Busy, Chunks, Handed
  <2> QED BY <2>1
<1>3. /\ done[i] \in Nat /\ answer[i].n \in Nat /\ answer[i].n <= LenOf(i)
      /\ answer[i].err \in {"eof", "failed"}
  BY <1>1, <1>2 DEF TransferInv, TypesOK, TypeOK, WorkOK, ReduceOK
<1>4. done[i] = answer[i].n
  BY <1>1 DEF TransferInv, WorkOK
<1>5. off \in Nat /\ off <= Offset(next)
  <2>1. i \in Nat /\ next \in 1..(NumChunks + 1) /\ i + 1 \in 1..(NumChunks + 1) /\ i + 1 <= next
    BY <1>2, Lengths DEF Handed, Chunks, TransferInv, TypesOK, TypeOK
  <2>2. Offset(i + 1) = Offset(i) + LenOf(i) /\ LenOf(i) \in Nat
    BY <1>2, Offsets, Lengths DEF LenOf
  <2>3. Offset(i + 1) <= Offset(next)
    BY <2>1, Offsets
  <2>4. Offset(i) \in Nat /\ Offset(i + 1) \in Nat /\ Offset(next) \in Nat
    <3>1. i \in 1..(NumChunks + 1)
      BY <1>2, Lengths DEF Chunks
    <3> QED BY <2>1, <3>1, Offsets
  <2> QED BY <1>3, <2>2, <2>3, <2>4
<1>6. /\ firstErr' \in [off : 0..MaxInt64, err : {"none", "eof", "failed"}]
      /\ firstErr'.err # "none" /\ firstErr'.off <= off /\ firstErr'.off <= Offset(next)
      /\ firstErr.err # "none" => firstErr'.off <= firstErr.off
      /\ rdPc' = "cancel" /\ rdPc = "reduce"
  <2>1. Reduce(off, answer[i].err)
    BY <1>1, <1>4
  <2> HIDE DEF off
  <2> QED BY <1>3, <1>5, <2>1, Reduced
<1>7. wkPc'[w] = "take" /\ \A v \in Workers \ {w} : wkPc'[v] = wkPc[v]
  BY <1>1 DEF TransferInv, TypesOK, TypeOK
<1>8. TypesOK'
  BY <1>1, <1>6 DEF TransferInv, TypesOK, TypeOK, writeToVars, fileVars, outVars
<1>9. WorkOK'
  BY <1>1, <1>6, <1>7 DEF TransferInv, WorkOK, Busy, Handed, GoroutinesEnded
<1>10. ReduceOK'
  <2>1. \A j \in Handed : ChunkOK(j)'
    <3> TAKE j \in Handed
    <3>1. ChunkOK(j)
      BY DEF TransferInv, ReduceOK
    <3>2. CASE j = i
      BY <1>1, <1>3, <1>4, <1>6, <3>2 DEF ChunkOK
    <3>3. CASE j # i
      <4>1. \A v \in Workers : wkChunk[v] = j => wkPc'[v] = wkPc[v]
        BY <1>7, <3>3
      <4>2. Offset(j) \in Nat /\ answer[j].n \in Nat /\ firstErr.off \in Nat /\ firstErr'.off \in Nat
        <5>1. j \in Chunks /\ j \in 1..(NumChunks + 1)
          BY <1>2, Lengths DEF Chunks
        <5> QED BY <1>6, <5>1, Beyond, Offsets DEF TransferInv, TypesOK, TypeOK
      <4> QED BY <1>1, <1>6, <3>1, <4>1, <4>2 DEF ChunkOK
    <3> QED BY <3>2, <3>3
  <2> QED BY <1>1, <1>6, <2>1 DEF TransferInv, ReduceOK, Handed, LenOf, writeToVars, fileVars, outVars
<1>11. WriteToOK'
  BY <1>1 DEF WriteToOK
<1> QED BY <1>8, <1>9, <1>10, <1>11 DEF TransferInv

LEMMA ReportSourceErrorInv ==
  ASSUME TransferInv, mode # "writeTo", ReportSourceError, UNCHANGED writeToVars
  PROVE  TransferInv'
<1>1. /\ UNCHANGED <<mode, next, srcEnd, dispatched, answer, wkPc, wkChunk, done, cancelled, errClosed>>
      /\ slPc = "fail" /\ slPc' = "done" /\ Reduce(Offset(next), "failed")
  BY DEF ReportSourceError, workerVars
<1>2. Offset(next) \in Nat /\ Offset(next) <= Offset(next)
  BY Offsets DEF TransferInv, TypesOK, TypeOK
<1>3. /\ firstErr' \in [off : 0..MaxInt64, err : {"none", "eof", "failed"}]
      /\ firstErr'.err # "none" /\ firstErr'.off <= Offset(next)
      /\ firstErr.err # "none" => firstErr'.off <= firstErr.off
      /\ rdPc' = "cancel" /\ rdPc = "reduce"
  BY <1>1, <1>2, Reduced
<1>4. TypesOK'
  BY <1>1, <1>3 DEF TransferInv, TypesOK, TypeOK, writeToVars, fileVars, outVars
<1>5. WorkOK'
  BY <1>1, <1>3 DEF TransferInv, WorkOK, Busy, Handed, GoroutinesEnded
<1>6. ReduceOK'
  <2>1. \A j \in Handed : ChunkOK(j)'
    <3> TAKE j \in Handed
    <3>1. ChunkOK(j)
      BY DEF TransferInv, ReduceOK
    <3>2. j \in Chunks
      BY Lengths DEF TransferInv, TypesOK, TypeOK, Handed, Chunks
    <3>3. Offset(j) \in Nat /\ answer[j].n \in Nat /\ firstErr.off \in Nat /\ firstErr'.off \in Nat
      <4>1. j \in 1..(NumChunks + 1)
        BY <3>2, Lengths DEF Chunks
      <4> QED BY <1>3, <3>2, <4>1, Beyond, Offsets DEF TransferInv, TypesOK, TypeOK
    <3> QED BY <1>1, <1>3, <3>1, <3>3 DEF ChunkOK
  <2>2. mode = "readFrom"
    BY <1>1 DEF TransferInv, ReduceOK
  <2> QED BY <1>1, <1>3, <2>1, <2>2 DEF TransferInv, ReduceOK, Handed, LenOf, writeToVars, fileVars, outVars
<1>7. WriteToOK'
  BY <1>1 DEF WriteToOK
<1> QED BY <1>4, <1>5, <1>6, <1>7 DEF TransferInv

\* The caller closes cancel; errCh is closed; the caller returns.
LEMMA CallerInv ==
  ASSUME TransferInv, mode # "writeTo", Cancel \/ Return \/ CloseErrCh, UNCHANGED writeToVars
  PROVE  TransferInv'
<1>1. /\ UNCHANGED <<mode, slPc, next, srcEnd, dispatched, answer, wkPc, wkChunk, done, firstErr>>
      /\ \/ rdPc = "cancel" /\ cancelled' = TRUE /\ rdPc' = "reduce" /\ errClosed' = errClosed
         \/ rdPc = "reduce" /\ errClosed /\ rdPc' = "returned" /\ UNCHANGED <<cancelled, errClosed>>
         \/ (\A w \in Workers : wkPc[w] = "exited") /\ errClosed' = TRUE /\ UNCHANGED <<cancelled, rdPc>>
  BY DEF Cancel, Return, CloseErrCh, slicerVars, workerVars
<1>2. TypesOK'
  <2>1. cancelled' \in BOOLEAN /\ errClosed' \in BOOLEAN
    BY <1>1 DEF TransferInv, TypesOK, TypeOK
  <2>2. rdPc' \in {"guess", "sequential", "reduce", "cancel", "wait", "returned"}
    BY <1>1 DEF TransferInv, TypesOK, TypeOK
  <2> QED BY <1>1, <2>1, <2>2 DEF TransferInv, TypesOK, TypeOK, writeToVars, fileVars, outVars
<1>3. WorkOK'
  <2>1. (\A w \in Workers : wkPc[w] = "exited") => slPc = "done"
    BY WorkersAssumption DEF TransferInv, WorkOK
  <2> QED BY <1>1, <2>1 DEF TransferInv, WorkOK, Busy, Handed, GoroutinesEnded
<1>4. ReduceOK'
  <2>1. \A j : ChunkOK(j) => ChunkOK(j)'
    BY <1>1 DEF ChunkOK
  <2> QED BY <1>1, <2>1 DEF TransferInv, ReduceOK, Handed, LenOf, writeToVars, fileVars, outVars
<1>5. WriteToOK'
  BY <1>1 DEF WriteToOK
<1> QED BY <1>2, <1>3, <1>4, <1>5 DEF TransferInv

-----------------------------------------------------------------------------
(* The steps of WriteTo alone.                                             *)

LEMMA GuessInv ==
  ASSUME TransferInv, mode = "writeTo", Guess
  PROVE  TransferInv'
<1>1. /\ UNCHANGED <<mode, next, srcEnd, dispatched, answer, wkChunk, done, cancelled, errClosed, firstErr,
                     size, resizes, start, cur, out, offset>>
      /\ rdPc = "guess"
      /\ \/ /\ rdPc' = "reduce" /\ slPc' = "slice" /\ wkPc' = [w \in Workers |-> "take"] /\ err' = err
         \/ rdPc' = "sequential" /\ UNCHANGED <<slPc, wkPc, err>>
         \/ rdPc' = "returned" /\ err' = "failed" /\ UNCHANGED <<slPc, wkPc>>
  BY DEF Guess, fileVars
<1>2. TypesOK'
  BY <1>1 DEF TransferInv, TypesOK, TypeOK
<1>3. ~ errClosed /\ GoroutinesEnded
  BY <1>1 DEF TransferInv, WorkOK, WriteToOK
<1>4. WorkOK'
  BY <1>1, <1>3 DEF TransferInv, WorkOK, Busy, Handed, GoroutinesEnded, WriteToOK
<1>5. ReduceOK'
  BY <1>1 DEF ReduceOK
<1>6. out = <<>> /\ cur = 1 /\ offset = start /\ err = "none" /\ Len(out) = 0
  BY <1>1 DEF TransferInv, WriteToOK
<1>7. SteadyOK => SteadyOK'
  <2>1. start \in Nat /\ size \in Nat /\ Offset(1) = 0
    BY Offsets DEF TransferInv, TypesOK
  <2> QED BY <1>1, <1>6, <2>1 DEF SteadyOK, Available
<1>8. WriteToOK'
  BY <1>1, <1>3, <1>6, <1>7 DEF TransferInv, WriteToOK, GoroutinesEnded, Below
<1> QED BY <1>2, <1>4, <1>5, <1>8 DEF TransferInv

\* What is written of a chunk, all of it or less with an error.
LEMMA ConsumeEffect ==
  ASSUME out \in Seq(Nat), Ascending(out), NEW at \in Nat, Below(out, at), NEW r, r.n \in Nat,
         NEW go, NEW stop, Consume(r, at, go, stop)
  PROVE  \E k \in 0..r.n :
           /\ out' = out \o Bytes(at, k) /\ out' \in Seq(Nat) /\ Len(out') = Len(out) + k
           /\ Ascending(out') /\ Below(out', at + r.n) /\ offset' = at + r.n
           /\ \/ /\ k = r.n /\ err' = (IF r.err = "failed" THEN "failed" ELSE "none")
                 /\ rdPc' = IF r.err = "none" THEN go ELSE stop
              \/ r.n > 0 /\ err' = "write" /\ rdPc' = stop
<1>1. \E k \in 0..r.n :
        /\ out' = out \o Bytes(at, k)
        /\ \/ /\ k = r.n /\ err' = (IF r.err = "failed" THEN "failed" ELSE "none")
              /\ rdPc' = IF r.err = "none" THEN go ELSE stop
           \/ r.n > 0 /\ err' = "write" /\ rdPc' = stop
  <2>1. CASE /\ out' = out \o Bytes(at, r.n) /\ err' = (IF r.err = "failed" THEN "failed" ELSE "none")
             /\ rdPc' = IF r.err = "none" THEN go ELSE stop
    <3>1. r.n \in 0..r.n
      OBVIOUS
    <3> QED BY <2>1, <3>1
  <2>2. CASE /\ r.n > 0 /\ \E k \in 0..(r.n - 1) : out' = out \o Bytes(at, k)
             /\ err' = "write" /\ rdPc' = stop
    <3>1. 0..(r.n - 1) \subseteq 0..r.n
      OBVIOUS
    <3> QED BY <2>2, <3>1
  <2> QED BY <2>1, <2>2 DEF Consume
<1> PICK k \in 0..r.n :
        /\ out' = out \o Bytes(at, k)
        /\ \/ /\ k = r.n /\ err' = (IF r.err = "failed" THEN "failed" ELSE "none")
              /\ rdPc' = IF r.err = "none" THEN go ELSE stop
           \/ r.n > 0 /\ err' = "write" /\ rdPc' = stop
  BY <1>1
<1>2. k \in Nat
  OBVIOUS
<1>3. out' \in Seq(Nat) /\ Len(out') = Len(out) + k /\ Ascending(out') /\ Below(out', at + k)
  BY <1>2, Appended
<1>4. Below(out', at + r.n)
  <2> SUFFICES ASSUME NEW i \in 1..Len(out') PROVE out'[i] < at + r.n
    BY DEF Below
  <2>1. out'[i] \in Nat /\ out'[i] < at + k /\ k <= r.n
    BY <1>3 DEF Below
  <2> QED BY <1>2, <2>1
<1>5. offset' = at + r.n
  BY DEF Consume
<1> QED BY <1>3, <1>4, <1>5

LEMMA SequentialChunkInv ==
  ASSUME TransferInv, mode = "writeTo", SequentialChunk
  PROVE  TransferInv'
<1>1. /\ UNCHANGED <<mode, slPc, next, srcEnd, dispatched, answer, wkPc, wkChunk, done, cancelled,
                     errClosed, firstErr, size, resizes, start, cur>>
      /\ rdPc = "sequential"
  BY DEF SequentialChunk, slicerVars, workerVars, fileVars
<1> PICK r \in {[n |-> k, err |-> "failed"] : k \in 0..(ChunkLen - 1)} \cup
               {[n |-> k, err |-> IF k < ChunkLen THEN "eof" ELSE "none"] : k \in 0..ChunkLen} :
       /\ r.n <= Available(offset, ChunkLen)
       /\ r.err = "eof" => offset + r.n >= size
       /\ Consume(r, offset, "sequential", "returned")
  BY DEF SequentialChunk
<1>2. r.n \in Nat /\ r.err \in {"none", "eof", "failed"}
  BY Lengths
<1>3. out \in Seq(Nat) /\ offset \in Nat /\ size \in Nat /\ start \in Nat /\ Len(out) \in Nat
  BY DEF TransferInv, TypesOK
<1>4. Ascending(out) /\ Below(out, offset) /\ GoroutinesEnded
  BY <1>1 DEF TransferInv, WriteToOK
<1>5. PICK k \in 0..r.n :
        /\ out' = out \o Bytes(offset, k) /\ out' \in Seq(Nat) /\ Len(out') = Len(out) + k
        /\ Ascending(out') /\ Below(out', offset + r.n) /\ offset' = offset + r.n
        /\ \/ /\ k = r.n /\ err' = (IF r.err = "failed" THEN "failed" ELSE "none")
              /\ rdPc' = IF r.err = "none" THEN "sequential" ELSE "returned"
           \/ r.n > 0 /\ err' = "write" /\ rdPc' = "returned"
  BY <1>2, <1>3, <1>4, ConsumeEffect
<1>6. TypesOK'
  <2>1. err' \in {"none", "failed", "write"} /\ rdPc' \in {"sequential", "returned"}
    BY <1>5
  <2> QED BY <1>1, <1>2, <1>3, <1>5, <2>1 DEF TransferInv, TypesOK, TypeOK
<1>7. WorkOK'
  BY <1>1, <1>4, <1>5 DEF TransferInv, WorkOK, Busy, Handed, GoroutinesEnded
<1>8. ReduceOK'
  BY <1>1 DEF ReduceOK
<1>9. SteadyOK => SteadyOK'
  <2> SUFFICES ASSUME SteadyOK PROVE SteadyOK'
    OBVIOUS
  <2>1. start + Len(out) = offset /\ offset <= size /\ out = Bytes(start, Len(out))
    BY <1>1 DEF SteadyOK
  <2>2. offset + r.n <= size
    BY <1>2, <1>3, <2>1, Lengths DEF Available
  <2>3. out' = Bytes(start, Len(out'))
    <3>1. Bytes(start, Len(out)) \o Bytes(start + Len(out), k) = Bytes(start, Len(out) + k)
      <4>1. k \in Nat
        BY <1>2
      <4> QED BY <1>3, <4>1, BytesAppended
    <3> QED BY <1>5, <2>1, <3>1
  <2>4. rdPc' \in {"sequential", "returned"} /\ k <= r.n /\ k \in Nat
    BY <1>2, <1>5
  <2>5. rdPc' = "sequential" => k = r.n
    BY <1>5
  <2>6. rdPc' = "returned" /\ err' = "none" => k = r.n /\ r.err = "eof"
    BY <1>2, <1>5
  <2>7. start + Len(out') <= offset' /\ (k = r.n => start + Len(out') = offset') /\ offset' <= size
    BY <1>2, <1>3, <1>5, <2>1, <2>2, <2>4
  <2>8. rdPc' = "returned" /\ err' = "none" => start + Len(out') = size
    BY <1>2, <1>3, <1>5, <2>2, <2>6, <2>7
  <2> QED BY <1>1, <1>3, <2>3, <2>4, <2>5, <2>7, <2>8 DEF SteadyOK, Available
<1>10. WriteToOK'
  BY <1>1, <1>4, <1>5, <1>9 DEF TransferInv, WriteToOK, GoroutinesEnded
<1> QED BY <1>6, <1>7, <1>8, <1>10 DEF TransferInv

\* A short chunk is the last one of the file.
LEMMA LastChunkEnds ==
  ASSUME NEW o \in Nat, NEW n \in Nat, NEW c \in Nat, NEW s \in Nat, NEW z \in Nat,
         s + o + n = z, n <= c
  PROVE  o + n = z - s /\ o + n <= o + c
OBVIOUS

\* The caller takes the next chunk in the order of the file.
LEMMA DeliverInv ==
  ASSUME TransferInv, mode = "writeTo", NEW w \in Workers, Deliver(w)
  PROVE  TransferInv'
<1> DEFINE r == answer[cur]
<1> DEFINE at == start + Offset(cur)
<1>1. /\ UNCHANGED <<mode, slPc, next, srcEnd, dispatched, answer, wkChunk, done, cancelled,
                     errClosed, firstErr, size, resizes, start>>
      /\ wkPc[w] = "report" /\ wkPc' = [wkPc EXCEPT ![w] = "take"]
      /\ rdPc = "reduce" /\ wkChunk[w] = cur /\ cur' = cur + 1
      /\ Consume(r, at, "reduce", "cancel")
  BY DEF Deliver, Consumed, slicerVars, fileVars
<1>2. cur \in Chunks /\ cur + 1 \in Chunks /\ cur \in Nat
  BY <1>1, Lengths DEF TransferInv, TypesOK, TypeOK, WorkOK, WriteToOK, Busy, Handed, Chunks
<1>3. /\ Offset(cur) \in Nat /\ Offset(cur + 1) = Offset(cur) + ChunkLen
      /\ out \in Seq(Nat) /\ size \in Nat /\ start \in Nat /\ offset \in Nat /\ Len(out) \in Nat
  <2>1. cur # NumChunks /\ cur \in 1..(NumChunks + 1)
    BY <1>2, Lengths DEF Chunks
  <2> QED BY <1>2, <2>1, Offsets DEF TransferInv, TypesOK
<1>4. /\ r.n \in Nat /\ r.n <= ChunkLen /\ r.err \in {"none", "eof", "failed"}
      /\ r.err = "none" => r.n > 0
      /\ r.err # "none" => r.n = 0
  <2>1. r \in [n : 0..ChunkLen, err : {"pending", "none", "eof", "failed"}] /\ r.err # "pending"
    BY <1>1, <1>2 DEF TransferInv, TypesOK, TypeOK, WorkOK
  <2> QED BY <1>2, <2>1, Lengths DEF TransferInv, WriteToOK
<1>5. Ascending(out) /\ Below(out, at) /\ at \in Nat
  BY <1>1, <1>3 DEF TransferInv, WriteToOK
<1>6. PICK k \in 0..r.n :
        /\ out' = out \o Bytes(at, k) /\ out' \in Seq(Nat) /\ Len(out') = Len(out) + k
        /\ Ascending(out') /\ Below(out', at + r.n) /\ offset' = at + r.n
        /\ \/ /\ k = r.n /\ err' = (IF r.err = "failed" THEN "failed" ELSE "none")
              /\ rdPc' = IF r.err = "none" THEN "reduce" ELSE "cancel"
           \/ r.n > 0 /\ err' = "write" /\ rdPc' = "cancel"
  <2>1. Consume(r, at, "reduce", "cancel")
    BY <1>1
  <2> HIDE DEF r, at
  <2> QED BY <1>3, <1>4, <1>5, <2>1, ConsumeEffect
<1>7. wkPc'[w] = "take" /\ \A v \in Workers \ {w} : wkPc'[v] = wkPc[v]
  BY <1>1 DEF TransferInv, TypesOK, TypeOK
<1>8. TypesOK'
  <2>1. err' \in {"none", "failed", "write"} /\ rdPc' \in {"reduce", "cancel"}
    BY <1>6
  <2>2. cur' \in Nat /\ offset' \in Nat /\ out' \in Seq(Nat)
    BY <1>1, <1>2, <1>4, <1>5, <1>6
  <2> QED BY <1>1, <2>1, <2>2 DEF TransferInv, TypesOK, TypeOK
<1>9. WorkOK'
  BY <1>1, <1>6, <1>7 DEF TransferInv, WorkOK, Busy, Handed, GoroutinesEnded
<1>10. ReduceOK'
  BY <1>1 DEF ReduceOK
<1>11. Below(out', start' + Offset(cur'))
  <2>1. at + r.n <= start + Offset(cur + 1) /\ at + r.n \in Nat
    BY <1>3, <1>4, <1>5, Lengths
  <2>2. \A i \in 1..Len(out') : out'[i] \in Nat /\ out'[i] < at + r.n
    BY <1>6 DEF Below
  <2>3. start + Offset(cur + 1) \in Nat
    BY <1>3, Lengths
  <2> HIDE DEF r, at
  <2>4. Below(out', start + Offset(cur + 1))
    <3> SUFFICES ASSUME NEW i \in 1..Len(out') PROVE out'[i] < start + Offset(cur + 1)
      BY DEF Below
    <3>1. out'[i] \in Nat /\ out'[i] < at + r.n
      BY <2>2
    <3> QED BY <2>1, <2>3, <3>1
  <2> QED BY <1>1, <2>4
<1>12. SteadyOK => SteadyOK'
  <2> SUFFICES ASSUME SteadyOK PROVE SteadyOK'
    OBVIOUS
  <2>1. /\ start <= size /\ out = Bytes(start, Len(out))
        /\ Len(out) = IF Offset(cur) <= size - start THEN Offset(cur) ELSE size - start
        /\ r.err = "none" => r.n = Available(at, ChunkLen)
        /\ r.err = "eof" => Available(at, ChunkLen) = 0
    BY <1>1, <1>2 DEF SteadyOK
  <2>2. r.n > 0 => at < size /\ at + r.n <= size /\ Len(out) = Offset(cur)
    BY <1>3, <1>4, <2>1, Lengths DEF Available
  <2>3. r.err = "none" => r.n = ChunkLen \/ at + r.n = size
    BY <1>3, <1>4, <2>1, Lengths DEF Available
  <2>4. r.err = "eof" => Len(out) = size - start
    BY <1>3, <2>1, Lengths DEF Available
  <2>5. k \in Nat /\ k <= r.n /\ (r.n = 0 => k = 0)
    BY <1>4
  <2>6. out' = Bytes(start, Len(out'))
    <3>1. CASE r.n > 0
      <4>1. at = start + Len(out)
        BY <2>2, <3>1
      <4>2. Bytes(start, Len(out)) \o Bytes(start + Len(out), k) = Bytes(start, Len(out) + k)
        BY <1>3, <2>5, BytesAppended
      <4> HIDE DEF at, r
      <4> QED BY <1>6, <2>1, <4>1, <4>2
    <3>2. CASE r.n = 0
      <4>1. Bytes(at, 0) = <<>>
        BY DEF Bytes
      <4>2. out \o <<>> = out
        BY <1>3
      <4>3. k = 0
        BY <2>5, <3>2
      <4> HIDE DEF at, r
      <4>4. out' = out
        BY <1>6, <4>1, <4>2, <4>3
      <4> QED BY <2>1, <4>4
    <3> QED BY <1>4, <3>1, <3>2
  <2> HIDE DEF r, at
  <2>7. start + Len(out') <= offset'
    <3>1. Len(out) <= Offset(cur) /\ at = start + Offset(cur)
      BY <1>3, <2>1 DEF at
    <3> QED BY <1>3, <1>4, <1>6, <2>5, <3>1
  <2>8. rdPc' = "reduce" => Len(out') = IF Offset(cur') <= size - start THEN Offset(cur') ELSE size - start
    <3> SUFFICES ASSUME rdPc' = "reduce"
                 PROVE Len(out') = IF Offset(cur') <= size - start THEN Offset(cur') ELSE size - start
      OBVIOUS
    <3>1. r.err = "none" /\ k = r.n /\ r.n > 0
      BY <1>4, <1>6
    <3>2. Len(out') = Offset(cur) + r.n /\ at = start + Offset(cur)
      BY <1>6, <2>2, <3>1 DEF at
    <3>4. Offset(cur') = Offset(cur) + ChunkLen
      BY <1>1, <1>3
    <3>5. start + Offset(cur) + r.n <= size /\ r.n <= ChunkLen /\ r.n \in Nat /\ ChunkLen \in Nat
      BY <1>4, <2>2, <3>1, <3>2, Lengths
    <3>6. r.n = ChunkLen \/ start + Offset(cur) + r.n = size
      BY <2>3, <3>1, <3>2
    <3> HIDE DEF r, at
    <3>7. CASE r.n = ChunkLen
      BY <1>3, <3>2, <3>4, <3>5, <3>7
    <3>8. CASE start + Offset(cur) + r.n = size
      <4>1. Len(out') = size - start /\ size - start \in Int
        BY <1>3, <3>2, <3>5, <3>8
      <4>2. Offset(cur') <= size - start => Offset(cur') = size - start
        <5>1. Offset(cur) + r.n = size - start /\ Offset(cur) + r.n <= Offset(cur) + ChunkLen
          <6>1. Offset(cur) \in Nat /\ start \in Nat /\ size \in Nat
            BY <1>3 DEF TransferInv, TypesOK
          <6>2. r.n \in Nat /\ ChunkLen \in Nat /\ r.n <= ChunkLen
            BY <3>5
          <6> QED BY <6>1, <6>2, <3>8, LastChunkEnds
        <5>2. Offset(cur') \in Nat
          BY <1>3, <3>4, <3>5
        <5> QED BY <3>4, <4>1, <5>1, <5>2
      <4> QED BY <4>1, <4>2
    <3> QED BY <3>6, <3>7, <3>8
  <2>9. rdPc' = "cancel" /\ err' = "none" => start + Len(out') = size
    <3> SUFFICES ASSUME rdPc' = "cancel", err' = "none" PROVE start + Len(out') = size
      OBVIOUS
    <3>1. r.err = "eof" /\ k = 0
      BY <1>4, <1>6, <2>5
    <3> QED BY <1>3, <1>6, <2>4, <3>1
  <2>10. rdPc' \in {"reduce", "cancel"}
    BY <1>6
  <2> QED BY <1>1, <2>1, <2>6, <2>7, <2>8, <2>9, <2>10 DEF SteadyOK, Available
<1>13. WriteToOK'
  <2>1. cur' <= NumChunks /\ cur' >= 1
    BY <1>1, <1>2, Lengths DEF Chunks
  <2>2. rdPc' = "reduce" => err' = "none"
    BY <1>6
  <2>3. rdPc' \in {"reduce", "cancel"}
    BY <1>6
  <2> HIDE DEF r, at
  <2> QED BY <1>1, <1>6, <1>11, <1>12, <2>1, <2>2, <2>3 DEF TransferInv, WriteToOK
<1> QED BY <1>8, <1>9, <1>10, <1>13 DEF TransferInv

\* The caller closes cancel and waits for the workers.
LEMMA EndInv ==
  ASSUME TransferInv, mode = "writeTo", CancelAll \/ ReturnAfterWait
  PROVE  TransferInv'
<1> USE DEF writeToVars, fileVars, outVars
<1>1. /\ UNCHANGED <<mode, slPc, next, srcEnd, dispatched, answer, wkPc, wkChunk, done, errClosed,
                     firstErr, size, resizes, start, cur, out, offset, err>>
      /\ \/ rdPc = "cancel" /\ rdPc' = "wait" /\ cancelled' = TRUE
         \/ /\ rdPc = "wait" /\ rdPc' = "returned" /\ cancelled' = cancelled
            /\ \A w \in Workers : wkPc[w] = "exited"
  BY DEF CancelAll, ReturnAfterWait, slicerVars, workerVars
<1>2. TypesOK'
  <2>1. cancelled' \in BOOLEAN /\ rdPc' \in {"wait", "returned"}
    BY <1>1 DEF TransferInv, TypesOK, TypeOK
  <2> QED BY <1>1, <2>1 DEF TransferInv, TypesOK, TypeOK
<1>3. WorkOK'
  <2>1. (\A w \in Workers : wkPc[w] = "exited") => slPc = "done"
    BY WorkersAssumption DEF TransferInv, WorkOK
  <2> QED BY <1>1, <2>1 DEF TransferInv, WorkOK, Busy, Handed, GoroutinesEnded
<1>4. ReduceOK'
  BY <1>1 DEF ReduceOK
<1>5. SteadyOK => SteadyOK'
  BY <1>1 DEF SteadyOK, Available
<1>6. WriteToOK'
  BY <1>1, <1>5 DEF TransferInv, WriteToOK
<1> QED BY <1>2, <1>3, <1>4, <1>6 DEF TransferInv

LEMMA ResizeInv ==
  ASSUME TransferInv, Resize
  PROVE  TransferInv'
<1>1. /\ UNCHANGED <<mode, slPc, next, srcEnd, dispatched, answer, wkPc, wkChunk, done, cancelled,
                     errClosed, rdPc, firstErr, start, cur, out, offset, err>>
      /\ mode = "writeTo" /\ resizes' = resizes + 1 /\ size' \in Nat
  BY Lengths DEF Resize, vars, slicerVars, workerVars, reduceVars, outVars
<1>2. resizes' \in Nat /\ resizes' # 0
  BY <1>1 DEF TransferInv, TypesOK
<1>3. TypesOK'
  BY <1>1, <1>2 DEF TransferInv, TypesOK, TypeOK
<1>4. WorkOK'
  BY <1>1 DEF TransferInv, WorkOK, Busy, Handed, GoroutinesEnded
<1>5. ReduceOK'
  BY <1>1 DEF ReduceOK
<1>6. WriteToOK'
  BY <1>1, <1>2 DEF TransferInv, WriteToOK, GoroutinesEnded
<1> QED BY <1>3, <1>4, <1>5, <1>6 DEF TransferInv

-----------------------------------------------------------------------------
LEMMA TransferStep ==
  ASSUME TransferInv, [Next]_allVars
  PROVE  TransferInv'
<1>1. CASE AnySlicer
  <2>1. CASE mode = "writeTo"
    <3>1. UNCHANGED writeToVars /\ EndlessSlicer
      BY <1>1, <2>1 DEF AnySlicer
    <3>2. \/ SliceChunk \/ CancelSlice
          \/ next < NumChunks /\ \E w \in Workers : HandOut(w)
      BY <3>1 DEF EndlessSlicer
    <3> QED BY <3>1, <3>2, SliceChunkInv, CancelSliceInv, HandOutInv
  <2>2. CASE mode # "writeTo"
    <3>1. UNCHANGED writeToVars /\ Slicer
      BY <1>1, <2>2 DEF AnySlicer
    <3>2. SliceChunk \/ SliceEnds \/ CancelSlice \/ \E w \in Workers : HandOut(w)
      BY <3>1 DEF Slicer
    <3> QED BY <2>2, <3>1, <3>2, SliceChunkInv, SliceEndsInv, CancelSliceInv, HandOutInv
  <2> QED BY <2>1, <2>2
<1>2. CASE AnyCaller
  <2>1. CASE mode = "writeTo"
    <3>1. Guess \/ SequentialChunk \/ CancelAll \/ ReturnAfterWait
      BY <1>2, <2>1 DEF AnyCaller
    <3> QED BY <2>1, <3>1, GuessInv, SequentialChunkInv, EndInv
  <2>2. CASE mode # "writeTo"
    <3>1. UNCHANGED writeToVars /\ (ReportSourceError \/ Cancel \/ Return \/ CloseErrCh)
      BY <1>2, <2>2 DEF AnyCaller, Caller
    <3> QED BY <2>2, <3>1, ReportSourceErrorInv, CallerInv
  <2> QED BY <2>1, <2>2
<1>3. CASE Resize
  BY <1>3, ResizeInv
<1>4. ASSUME NEW w \in Workers, AnyWorker(w)
      PROVE  TransferInv'
  <2>1. CASE mode = "writeTo"
    <3>1. \/ (ReceiveAnswer(w) \/ Drop(w) \/ WorkerExit(w)) /\ UNCHANGED writeToVars
          \/ Deliver(w)
      BY <1>4, <2>1 DEF AnyWorker
    <3> QED BY <2>1, <3>1, ReceiveAnswerInv, DropInv, WorkerExitInv, DeliverInv
  <2>2. CASE mode # "writeTo"
    <3>1. (ReceiveAnswer(w) \/ ReportError(w) \/ WorkerExit(w)) /\ UNCHANGED writeToVars
      BY <1>4, <2>2 DEF AnyWorker, Worker
    <3> QED BY <2>2, <3>1, ReceiveAnswerInv, ReportErrorInv, WorkerExitInv
  <2> QED BY <2>1, <2>2
<1>5. ASSUME NEW i \in Chunks, AnyAnswer(i)
      PROVE  TransferInv'
  BY <1>5, AnswerInv, ReadAnswerInv DEF AnyAnswer
<1>6. CASE UNCHANGED allVars
  <2>1. UNCHANGED <<mode, slPc, next, srcEnd, dispatched, answer, wkPc, wkChunk, done, cancelled,
                    errClosed, rdPc, firstErr, writeToVars>>
    BY <1>6 DEF allVars, vars, slicerVars, workerVars, reduceVars
  <2>2. TypesOK'
    BY <2>1 DEF TransferInv, TypesOK, TypeOK, writeToVars, fileVars, outVars
  <2>3. WorkOK'
    BY <2>1 DEF TransferInv, WorkOK, Busy, Handed, GoroutinesEnded
  <2>4. ReduceOK'
    <3>1. \A j : ChunkOK(j) => ChunkOK(j)'
      BY <2>1 DEF ChunkOK
    <3> QED BY <2>1, <3>1 DEF TransferInv, ReduceOK, Handed, LenOf, writeToVars, fileVars, outVars
  <2>5. WriteToOK'
    BY <2>1, WriteToKept DEF TransferInv, WriteToOK, GoroutinesEnded
  <2> QED BY <2>2, <2>3, <2>4, <2>5 DEF TransferInv
<1> QED BY <1>1, <1>2, <1>3, <1>4, <1>5, <1>6 DEF Next

-----------------------------------------------------------------------------
(* Theorems.                                                               *)

\* The inductive invariant of readAt, writeAtConcurrent, readFromWithConcurrency and WriteTo:
\* every chunk that was handed out is accounted for, and the Writer of WriteTo has been given
\* what comes before the chunk the caller waits for.
THEOREM TransferInvariant == Spec => []TransferInv
<1>1. InitTransfers => TransferInv
  BY InitInv
<1>2. TransferInv /\ [Next]_allVars => TransferInv'
  BY TransferStep
<1> QED BY <1>1, <1>2, PTL DEF Spec

\* When a transfer has returned, what its chunks have to say about the earliest error.
LEMMA Returned ==
  ASSUME TransferInv, rdPc = "returned", mode # "writeTo", NEW i \in Handed
  PROVE  /\ i \in Chunks /\ answer[i].err # "pending" /\ done[i] = answer[i].n
         /\ answer[i].err = "none" => done[i] = LenOf(i)
         /\ answer[i].err # "none" => firstErr.err # "none" /\ firstErr.off <= Offset(i) + answer[i].n
<1>1. i \in Chunks /\ ChunkOK(i)
  BY Lengths DEF TransferInv, TypesOK, TypeOK, ReduceOK, Handed, Chunks
<1>2. \A w \in Workers : wkPc[w] = "exited"
  BY DEF TransferInv, WorkOK, GoroutinesEnded
<1> QED BY <1>1, <1>2 DEF ChunkOK, TransferInv, ReduceOK

\* What the caller of a read, a write or a ReadFrom is told was transferred was (the n and the
\* error that the loop over errCh leaves).
THEOREM ReachedIsTransferred == Spec => []ReachedIsDone
<1>1. TransferInv => ReachedIsDone
  <2> SUFFICES ASSUME TransferInv, rdPc = "returned", mode # "writeTo", NEW i \in Chunks,
                      Offset(i) < Reached
               PROVE  done[i] = LenOf(i) \/ Offset(i) + done[i] >= Reached
    BY DEF ReachedIsDone
  <2>1. i \in 1..(NumChunks + 1) /\ next \in 1..(NumChunks + 1) /\ i \in Nat /\ next \in Nat
    BY Lengths DEF Chunks, TransferInv, TypesOK, TypeOK
  <2>2. Offset(i) \in Nat /\ Offset(next) \in Nat /\ firstErr.off \in Nat
    BY <2>1, Offsets, Beyond DEF TransferInv, TypesOK, TypeOK
  <2>3. Reached <= Offset(next) /\ Reached \in Nat
    BY <2>2 DEF Reached, TransferInv, ReduceOK
  <2>4. Offset(i) < Offset(next)
    BY <2>2, <2>3
  <2>5. i \in Handed
    <3>1. ~ (next <= i)
      BY <2>1, <2>2, <2>4, Offsets
    <3> QED BY <2>1, <3>1 DEF Handed
  <2>6. done[i] = answer[i].n /\ done[i] \in Nat
    BY <2>5, Returned DEF TransferInv, TypesOK, TypeOK
  <2>7. CASE answer[i].err = "none"
    BY <2>5, <2>7, Returned
  <2>8. CASE answer[i].err # "none"
    <3>1. firstErr.err # "none" /\ firstErr.off <= Offset(i) + done[i]
      BY <2>5, <2>6, <2>8, Returned
    <3> QED BY <2>2, <2>6, <3>1 DEF Reached
  <2> QED BY <2>7, <2>8
<1> QED BY <1>1, TransferInvariant, PTL

\* The error the caller returns is that of the earliest failure, none is lost, and without one
\* the transfer went to its end.
THEOREM ErrorsAreEarliest == Spec => []EarliestErrorReported
<1>1. TransferInv => EarliestErrorReported
  <2> SUFFICES ASSUME TransferInv, rdPc = "returned", mode # "writeTo"
               PROVE  /\ \A i \in 1..(next - 1) : answer[i].err # "none" =>
                           firstErr.err # "none" /\ Offset(i) + answer[i].n >= firstErr.off
                      /\ srcEnd = "failed" => firstErr.err # "none"
                      /\ firstErr.err = "none" => mode = "readFrom" \/ Reached = Total
    BY DEF EarliestErrorReported
  <2>1. \A i \in 1..(next - 1) : answer[i].err # "none" =>
          firstErr.err # "none" /\ Offset(i) + answer[i].n >= firstErr.off
    <3> SUFFICES ASSUME NEW i \in 1..(next - 1), answer[i].err # "none"
                 PROVE  firstErr.err # "none" /\ Offset(i) + answer[i].n >= firstErr.off
      OBVIOUS
    <3>1. i \in Handed
      BY DEF Handed
    <3>2. firstErr.err # "none" /\ firstErr.off <= Offset(i) + answer[i].n /\ i \in Chunks
      BY <3>1, Returned
    <3>3. i \in 1..(NumChunks + 1)
      BY <3>2, Lengths DEF Chunks
    <3>4. Offset(i) \in Nat /\ answer[i].n \in Nat /\ firstErr.off \in Nat
      BY <3>2, <3>3, Offsets, Beyond DEF TransferInv, TypesOK, TypeOK
    <3> QED BY <3>2, <3>4
  <2>2. slPc = "done"
    BY DEF TransferInv, WorkOK, GoroutinesEnded
  <2>3. srcEnd = "failed" => firstErr.err # "none"
    BY <2>2 DEF TransferInv, ReduceOK
  <2>4. firstErr.err = "none" /\ mode # "readFrom" => Reached = Total
    BY <2>2 DEF TransferInv, ReduceOK, Reached, Total
  <2> QED BY <2>1, <2>3, <2>4
<1> QED BY <1>1, TransferInvariant, PTL

\* No goroutine of a transfer outlives it, and errCh is closed after the last send on it.
THEOREM NobodyOutlives == Spec => []NobodyLeftBehind
<1>1. TransferInv => NobodyLeftBehind
  BY WorkersAssumption DEF TransferInv, WorkOK, NobodyLeftBehind, GoroutinesEnded
<1> QED BY <1>1, TransferInvariant, PTL

\* The Writer of WriteTo is given the bytes of the file in order, and all of them when nobody
\* changes its size and there is no error.
THEOREM WriterGetsThePrefix == Spec => []OutIsPrefix
<1>1. TransferInv => OutIsPrefix
  <2> SUFFICES ASSUME TransferInv PROVE OutIsPrefix
    OBVIOUS
  <2>1. CASE mode = "writeTo"
    BY <2>1 DEF TransferInv, WriteToOK, SteadyOK, Ascending, OutIsPrefix
  <2>2. CASE mode # "writeTo"
    <3>1. out = <<>> /\ Len(out) = 0 /\ start <= offset /\ start \in Nat
      BY <2>2 DEF TransferInv, ReduceOK, TypesOK
    <3>2. out = Bytes(start, Len(out))
      BY <3>1 DEF Bytes
    <3> QED BY <2>2, <3>1, <3>2 DEF TransferInv, OutIsPrefix
  <2> QED BY <2>1, <2>2
<1> QED BY <1>1, TransferInvariant, PTL
=============================================================================
