--------------------------- MODULE ClientFileProofs ---------------------------
(***************************************************************************)
(* Theorems about ClientFile, for any number of goroutines and calls, any  *)
(* lengths and offsets, and files of any size.                             *)
(***************************************************************************)
EXTENDS ClientFile, SequenceTheorems, TLAPS

USE DEF fileVars, callerVars

Kinds == CursorOps \cup AtOps \cup OneOps \cup {"Seek", "Close", "none"}

Bounds == MaxPacket \in Nat \ {0} /\ MaxSize \in Nat /\ Lens \subseteq Nat /\ Offs \subseteq Int

LEMMA HaveBounds == Bounds
BY FileAssumption DEF Bounds

\* TypeOK without the bounds of the model.
FileTypes ==
  /\ size \in Nat /\ open \in BOOLEAN /\ cursor \in Nat
  /\ holders \subseteq Callers /\ calls \in Nat /\ closes \in Nat
  /\ pc \in [Callers -> {"idle", "lock", "next", "await", "unlock"}]
  /\ op \in [Callers -> [kind : Kinds, len : Nat, off : Int]]
  /\ got \in [Callers -> Nat] /\ chunk \in [Callers -> Nat] /\ taken \in [Callers -> Nat]
  /\ end \in [Callers -> {"more", "eof", "failed"}]
  /\ err \in [Callers -> {"none", "eof", "failed", "closed", "invalid"}]
  /\ data \in [Callers -> Seq(Int)]

-----------------------------------------------------------------------------
(* Bytes.                                                                  *)

LEMMA NoBytes == \A from : Bytes(from, 0) = <<>>
BY DEF Bytes

LEMMA SomeBytes ==
  ASSUME NEW from \in Int, NEW n \in Nat
  PROVE  /\ Bytes(from, n) \in Seq(Int) /\ Len(Bytes(from, n)) = n
         /\ \A k \in 1..n : Bytes(from, n)[k] = from + k - 1
BY DEF Bytes

\* What is read or written goes on where it stopped.
LEMMA BytesGoOn ==
  ASSUME NEW from \in Int, NEW m \in Nat, NEW n \in Nat
  PROVE  Bytes(from, m) \o Bytes(from + m, n) = Bytes(from, m + n)
<1> DEFINE a == Bytes(from, m)
<1> DEFINE b == Bytes(from + m, n)
<1> DEFINE t == Bytes(from, m + n)
<1>1. /\ a \in Seq(Int) /\ Len(a) = m /\ \A k \in 1..m : a[k] = from + k - 1
      /\ b \in Seq(Int) /\ Len(b) = n /\ \A k \in 1..n : b[k] = from + m + k - 1
      /\ t \in Seq(Int) /\ Len(t) = m + n /\ \A k \in 1..(m + n) : t[k] = from + k - 1
  BY SomeBytes
<1> HIDE DEF a, b, t
<1>2. /\ a \o b \in Seq(Int) /\ Len(a \o b) = m + n
      /\ \A k \in 1..(m + n) : (a \o b)[k] = IF k <= m THEN a[k] ELSE b[k - m]
  BY <1>1, ConcatProperties
<1>3. ASSUME NEW k \in 1..(m + n)
      PROVE  (a \o b)[k] = t[k]
  <2>1. CASE k <= m
    BY <1>1, <1>2, <2>1
  <2>2. CASE k > m
    <3>1. k - m \in 1..n /\ from + m + (k - m) - 1 = from + k - 1
      BY <2>2
    <3>2. b[k - m] = from + m + (k - m) - 1 /\ (a \o b)[k] = b[k - m] /\ t[k] = from + k - 1
      BY <1>1, <1>2, <2>2, <3>1
    <3> QED BY <3>1, <3>2
  <2>3. k <= m \/ k > m
    OBVIOUS
  <2> QED BY <2>1, <2>2, <2>3, Zenon
<1>4. a \o b = t
  BY <1>1, <1>2, <1>3, SeqEqual
<1> QED BY <1>4 DEF a, b, t

-----------------------------------------------------------------------------
(* Types, and what a step leaves to the other callers.                     *)

LEMMA InitTypes == Init => FileTypes
BY HaveBounds DEF Init, FileTypes, NoOp, Kinds, Bounds

LEMMA CallTypes ==
  ASSUME FileTypes, NEW c \in Callers, NEW r \in Requests, Call(c, r)
  PROVE  FileTypes'
<1>1. r \in [kind : Kinds, len : Nat, off : Int]
  <2>1. CASE r \in [kind : CursorOps, len : Lens, off : {0}]
    <3>1. r.kind \in Kinds /\ r.len \in Nat /\ r.off \in Int
      <4>1. r.kind \in CursorOps /\ r.len \in Lens /\ r.off = 0
        BY <2>1
      <4>2. r.kind \in Kinds
        BY <4>1 DEF Kinds
      <4>3. r.len \in Nat /\ r.off \in Int
        <5>1. Lens \subseteq Nat /\ Offs \subseteq Int /\ 0 \in Nat /\ 0 \in Int
          BY HaveBounds DEF Bounds
        <5> QED BY <4>1, <5>1, Zenon
      <4> QED BY <4>2, <4>3
    <3>2. r = [kind |-> r.kind, len |-> r.len, off |-> r.off]
      BY <2>1
    <3> QED BY <3>1, <3>2
  <2>2. CASE r \in [kind : AtOps, len : Lens, off : Offs \cap Nat]
    BY <2>2, HaveBounds DEF Kinds, Bounds
  <2>3. CASE r \in [kind : {"Seek"}, len : {0}, off : Offs]
    <3>1. r.kind \in Kinds /\ r.len \in Nat /\ r.off \in Int
      <4>1. r.kind = "Seek" /\ r.len = 0 /\ r.off \in Offs
        BY <2>3
      <4>2. r.kind \in Kinds
        BY <4>1 DEF Kinds
      <4>3. r.len \in Nat /\ r.off \in Int
        <5>1. Lens \subseteq Nat /\ Offs \subseteq Int /\ 0 \in Nat /\ 0 \in Int
          BY HaveBounds DEF Bounds
        <5> QED BY <4>1, <5>1, Zenon
      <4> QED BY <4>2, <4>3
    <3>2. r = [kind |-> r.kind, len |-> r.len, off |-> r.off]
      BY <2>3
    <3> QED BY <3>1, <3>2
  <2>4. CASE r \in [kind : OneOps \cup {"Close"}, len : {0}, off : {0}]
    BY <2>4 DEF Kinds
  <2> QED BY <2>1, <2>2, <2>3, <2>4 DEF Requests
<1> QED BY <1>1 DEF Call, FileTypes

\* A chunk that is being written does not end before it starts.
ChunksGoOn ==
  \A c \in Callers : pc[c] = "await" /\ op[c].kind \in {"Write", "WriteAt", "ReadFrom"} => got[c] <= chunk[c]

LEMMA StepTypes ==
  ASSUME FileTypes, ChunksGoOn, NEW c \in Callers, Step(c)
  PROVE  FileTypes'
<1>1. /\ op[c] \in [kind : Kinds, len : Nat, off : Int] /\ op[c].len \in Nat /\ op[c].off \in Int
      /\ got[c] \in Nat /\ chunk[c] \in Nat /\ taken[c] \in Nat /\ data[c] \in Seq(Int)
      /\ MaxPacket \in Nat /\ MaxSize \in Nat
  BY HaveBounds DEF FileTypes, Bounds
<1>2. \A a, b \in Nat : Least(a, b) \in Nat
  BY DEF Least
<1>2a. got[c] + MaxPacket \in Nat /\ Least(MaxPacket, op[c].len - taken[c]) \in Int
  BY <1>1 DEF Least
<1>3. CASE Lock(c)
  <2>1. StartsAt(c) \in Int
    BY DEF StartsAt, FileTypes
  <2>2. op' \in [Callers -> [kind : Kinds, len : Nat, off : Int]]
    BY <1>3, <2>1 DEF Lock, FileTypes
  <2> QED BY <1>3, <2>2 DEF Lock, FileTypes
<1>4. CASE Unlock(c)
  BY <1>4 DEF Unlock, NoOp, Kinds, FileTypes
<1>5. CASE ReadRequest(c)
  <2>1. pc' \in [Callers -> {"idle", "lock", "next", "await", "unlock"}]
    BY <1>5 DEF ReadRequest, GoOn, Send, FileTypes
  <2>2. chunk' \in [Callers -> Nat]
    <3>1. Least(op[c].len, got[c] + MaxPacket) \in Nat
      BY <1>1, <1>2, <1>2a
    <3> QED BY <1>5, <3>1 DEF ReadRequest, FileTypes
  <2> QED BY <1>5, <2>1, <2>2 DEF ReadRequest, FileTypes
<1>6. CASE ReadAnswer(c)
  <2>1. PICK at \in Int : at = op[c].off + got[c]
    BY <1>1
  <2>2. pc' \in [Callers -> {"idle", "lock", "next", "await", "unlock"}]
    BY <1>6 DEF ReadAnswer, GoOn, FileTypes
  <2>3. err' \in [Callers -> {"none", "eof", "failed", "closed", "invalid"}]
    BY <1>6 DEF ReadAnswer, FileTypes
  <2>4. got' \in [Callers -> Nat]
    <3>1. got' = got \/ \E n \in 1..(chunk[c] - got[c]) : got' = [got EXCEPT ![c] = @ + n]
      BY <1>6 DEF ReadAnswer
    <3>2. \A n \in 1..(chunk[c] - got[c]) : got[c] + n \in Nat
      BY <1>1
    <3> QED BY <3>1, <3>2 DEF FileTypes
  <2>5. data' \in [Callers -> Seq(Int)]
    <3>1. data' = data \/ \E n \in 1..(chunk[c] - got[c]) : data' = [data EXCEPT ![c] = @ \o Bytes(at, n)]
      BY <1>6, <2>1 DEF ReadAnswer
    <3>2. \A n \in 1..(chunk[c] - got[c]) : data[c] \o Bytes(at, n) \in Seq(Int)
      BY <1>1, <2>1, SomeBytes
    <3> QED BY <3>1, <3>2 DEF FileTypes
  <2> QED BY <1>6, <2>2, <2>3, <2>4, <2>5 DEF ReadAnswer, FileTypes
<1>7. CASE WriteRequest(c)
  <2>1. pc' \in [Callers -> {"idle", "lock", "next", "await", "unlock"}]
    BY <1>7 DEF WriteRequest, GoOn, Send, FileTypes
  <2>2. chunk' \in [Callers -> Nat]
    <3>1. Least(op[c].len, got[c] + MaxPacket) \in Nat
      BY <1>1, <1>2, <1>2a
    <3> QED BY <1>7, <3>1 DEF WriteRequest, FileTypes
  <2> QED BY <1>7, <2>1, <2>2 DEF WriteRequest, FileTypes
<1>8. CASE SourceYields(c)
  <2>1. PICK n \in Nat, e \in {"more", "eof", "failed"} :
          /\ taken' = [taken EXCEPT ![c] = @ + n] /\ end' = [end EXCEPT ![c] = e]
          /\ \/ chunk' = [chunk EXCEPT ![c] = got[c] + n] /\ Send(c) /\ UNCHANGED err
             \/ /\ UNCHANGED chunk /\ GoOn(c, FALSE)
                /\ err' = [err EXCEPT ![c] = IF e = "failed" THEN e ELSE @]
    <3>1. 0..Least(MaxPacket, op[c].len - taken[c]) \subseteq Nat
      BY <1>2a
    <3> QED BY <1>8, <3>1 DEF SourceYields
  <2>2. taken' \in [Callers -> Nat] /\ end' \in [Callers -> {"more", "eof", "failed"}]
    BY <1>1, <2>1 DEF FileTypes
  <2>3. chunk' \in [Callers -> Nat]
    <3>1. got[c] + n \in Nat
      BY <1>1
    <3> QED BY <2>1, <3>1 DEF FileTypes
  <2>4. err' \in [Callers -> {"none", "eof", "failed", "closed", "invalid"}]
    BY <2>1 DEF FileTypes
  <2>5. pc' \in [Callers -> {"idle", "lock", "next", "await", "unlock"}]
    BY <2>1 DEF GoOn, Send, FileTypes
  <2> QED BY <1>8, <2>2, <2>3, <2>4, <2>5 DEF SourceYields, FileTypes
<1>9. CASE WriteAnswer(c)
  <2>1. PICK at \in Int, n \in Nat : at = op[c].off + got[c] /\ n = chunk[c] - got[c]
    BY <1>1, <1>9 DEF WriteAnswer, ChunksGoOn
  <2>2. \/ /\ got' = [got EXCEPT ![c] = @ + n]
           /\ size' = IF n > 0 /\ at + n > size THEN at + n ELSE size
           /\ data' = [data EXCEPT ![c] = @ \o Bytes(at, n)]
           /\ AfterWrite(c, TRUE)
        \/ AfterWrite(c, FALSE) /\ UNCHANGED <<got, size, data>>
    BY <1>9, <2>1 DEF WriteAnswer
  <2>3. pc' \in [Callers -> {"idle", "lock", "next", "await", "unlock"}]
    BY <2>2 DEF AfterWrite, GoOn, FileTypes
  <2>4. err' \in [Callers -> {"none", "eof", "failed", "closed", "invalid"}]
    BY <2>2 DEF AfterWrite, FileTypes
  <2>5. got' \in [Callers -> Nat] /\ size' \in Nat
    <3>1. got[c] + n \in Nat /\ at + n \in Int
      BY <1>1
    <3>2. got' \in [Callers -> Nat]
      BY <2>2, <3>1 DEF FileTypes
    <3>3. size' = size \/ (size' = at + n /\ at + n > size)
      BY <2>2
    <3>4. size' \in Nat
      BY <3>1, <3>3 DEF FileTypes
    <3> QED BY <3>2, <3>4
  <2>6. data' \in [Callers -> Seq(Int)]
    <3>1. data[c] \o Bytes(at, n) \in Seq(Int)
      BY <1>1, SomeBytes
    <3> QED BY <2>2, <3>1 DEF FileTypes
  <2> QED BY <1>9, <2>3, <2>4, <2>5, <2>6 DEF WriteAnswer, FileTypes
<1>10. CASE Seek(c)
  <2>1. cursor' \in Nat
    BY <1>1, <1>10 DEF Seek, FileTypes
  <2>2. err' \in [Callers -> {"none", "eof", "failed", "closed", "invalid"}]
    BY <1>10 DEF Seek, FileTypes
  <2>3. pc' \in [Callers -> {"idle", "lock", "next", "await", "unlock"}]
    BY <1>10 DEF Seek, GoOn, FileTypes
  <2> QED BY <1>10, <2>1, <2>2, <2>3 DEF Seek, FileTypes
<1>11. CASE OneRequest(c)
  BY <1>11 DEF OneRequest, Send, FileTypes
<1>12. CASE OneAnswer(c)
  BY <1>12 DEF OneAnswer, GoOn, FileTypes
<1> QED BY <1>3, <1>4, <1>5, <1>6, <1>7, <1>8, <1>9, <1>10, <1>11, <1>12 DEF Step

\* A step of one caller leaves the others where they are.
LEMMA OthersStay ==
  ASSUME FileTypes, NEW d \in Callers, Step(d) \/ (\E r \in Requests : Call(d, r)),
         NEW c \in Callers \ {d}
  PROVE  /\ pc'[c] = pc[c] /\ op'[c] = op[c] /\ got'[c] = got[c] /\ chunk'[c] = chunk[c]
         /\ err'[c] = err[c] /\ data'[c] = data[c]
         /\ (c \in holders') <=> (c \in holders)
<1> USE DEF FileTypes, GoOn, Send
<1>1. CASE Lock(d) \/ Unlock(d) \/ (\E r \in Requests : Call(d, r))
  BY <1>1 DEF Lock, Unlock, Call
<1>2. CASE ReadRequest(d) \/ ReadAnswer(d)
  BY <1>2 DEF ReadRequest, ReadAnswer
<1>3. CASE WriteRequest(d) \/ SourceYields(d)
  BY <1>3 DEF WriteRequest, SourceYields
<1>4. CASE WriteAnswer(d)
  BY <1>4 DEF WriteAnswer, AfterWrite
<1>5. CASE Seek(d) \/ OneRequest(d) \/ OneAnswer(d)
  BY <1>5 DEF Seek, OneRequest, OneAnswer
<1> QED BY <1>1, <1>2, <1>3, <1>4, <1>5 DEF Step

\* Where a step takes its caller: the operations that go on keep lock, request and offset.
LEMMA OwnStep ==
  ASSUME FileTypes, NEW c \in Callers, Step(c)
  PROVE  \/ Lock(c) \/ Unlock(c)
         \/ /\ pc[c] \in {"next", "await"} /\ pc'[c] \in {"next", "await", "unlock"}
            /\ UNCHANGED <<holders, op, open>>
            /\ cursor' = cursor \/ op[c].kind = "Seek"
            /\ pc'[c] = "await" => pc[c] = "next" /\ closes' = closes + (IF op[c].kind = "Close" THEN 1 ELSE 0)
            /\ pc'[c] # "await" => closes' = closes
            /\ pc'[c] = "next" => op[c].kind # "Close"
<1> USE DEF FileTypes, GoOn, Send, AtNext
<1>1. CASE Lock(c) \/ Unlock(c)
  BY <1>1
<1>2. CASE ReadRequest(c) \/ WriteRequest(c)
  BY <1>2 DEF ReadRequest, WriteRequest, Reads
<1>3. CASE ReadAnswer(c)
  BY <1>3 DEF ReadAnswer, Reads
<1>4. CASE SourceYields(c)
  BY <1>4 DEF SourceYields
<1>5. CASE WriteAnswer(c)
  BY <1>5 DEF WriteAnswer, AfterWrite
<1>6. CASE Seek(c)
  BY <1>6 DEF Seek
<1>7. CASE OneRequest(c) \/ OneAnswer(c)
  BY <1>7 DEF OneRequest, OneAnswer, OneOps
<1> QED BY <1>1, <1>2, <1>3, <1>4, <1>5, <1>6, <1>7 DEF Step

-----------------------------------------------------------------------------
(* The lock, the offset and the close.                                     *)

Locked(c) == pc[c] \in {"next", "await", "unlock"}

\* The lock is held by those who are past Lock, alone by whoever needs it for himself, and
\* the offset an operation started from is that of the File as long as it holds the lock.
LockInv ==
  /\ \A c \in Callers : c \in holders <=> Locked(c)
  /\ \A c, d \in holders : op[c].kind \in Exclusive => c = d
  /\ \A c \in holders : op[c].kind \in CursorOps => op[c].off = cursor

\* After a Close has taken the handle only that Close has anything left to send.
CloseInv ==
  /\ closes \in {0, 1} /\ (open => closes = 0)
  /\ \A c \in Callers : pc[c] \in {"next", "await"} => (open <=> op[c].kind # "Close")
  /\ closes = 1 => \A c \in Callers : pc[c] # "next"

LEMMA InitLock == Init => LockInv /\ CloseInv
BY DEF Init, LockInv, CloseInv, Locked

LEMMA NextLock ==
  ASSUME FileTypes, LockInv, CloseInv, NEW c \in Callers, Step(c) \/ (\E r \in Requests : Call(c, r))
  PROVE  LockInv' /\ CloseInv'
<1>1. CASE \E r \in Requests : Call(c, r)
  <2>1. /\ UNCHANGED <<holders, cursor, open, closes>> /\ pc[c] = "idle" /\ pc'[c] = "lock"
        /\ \A d \in Callers \ {c} : pc'[d] = pc[d] /\ op'[d] = op[d]
    BY <1>1 DEF Call, FileTypes
  <2>2. c \notin holders /\ holders \subseteq Callers
    BY <2>1 DEF LockInv, Locked, FileTypes
  <2>3. LockInv'
    BY <2>1, <2>2 DEF LockInv, Locked
  <2>4. CloseInv'
    BY <2>1 DEF CloseInv
  <2> QED BY <2>3, <2>4
<1>2. CASE Lock(c)
  <2>1. /\ holders' = holders \cup {c} /\ cursor' = cursor /\ closes' = closes
        /\ pc[c] = "lock" /\ MayLock(c) /\ open' = (open /\ op[c].kind # "Close")
        /\ pc'[c] = (IF open THEN "next" ELSE "unlock")
        /\ op'[c].kind = op[c].kind /\ op'[c].off = StartsAt(c)
        /\ \A d \in Callers \ {c} : pc'[d] = pc[d] /\ op'[d] = op[d]
    BY <1>2 DEF Lock, FileTypes
  <2>2. c \notin holders /\ holders \subseteq Callers
    BY <2>1 DEF LockInv, Locked, FileTypes
  <2>3. \A d \in holders : op[d].kind \notin Exclusive /\ op[c].kind \notin Exclusive
    BY <2>1 DEF MayLock
  <2>4. \A d \in Callers : d \in holders' <=> Locked(d)'
    BY <2>1, <2>2 DEF LockInv, Locked
  <2>5. \A a, b \in holders' : op'[a].kind \in Exclusive => a = b
    BY <2>1, <2>2, <2>3
  <2>6. \A a \in holders' : op'[a].kind \in CursorOps => op'[a].off = cursor'
    BY <2>1, <2>2 DEF LockInv, StartsAt
  <2>7. CloseInv'
    <3>1. \A d \in Callers : pc[d] \in {"next", "await"} => d \in holders
      BY DEF LockInv, Locked
    <3>2. op[c].kind = "Close" => \A d \in Callers : pc[d] \notin {"next", "await"}
      BY <2>3, <3>1 DEF Exclusive
    <3>3. closes' \in {0, 1} /\ (open' => closes' = 0)
      BY <2>1 DEF CloseInv
    <3>4. closes' = 1 => pc'[c] = "unlock" /\ \A d \in Callers \ {c} : pc'[d] # "next"
      BY <2>1 DEF CloseInv
    <3>5. ASSUME NEW d \in Callers, pc'[d] \in {"next", "await"}
          PROVE  open' <=> op'[d].kind # "Close"
      <4>1. CASE d = c
        <5>1. open
          BY <2>1, <3>5, <4>1
        <5> QED BY <2>1, <4>1, <5>1
      <4>2. CASE d # c
        <5>1. /\ pc[d] \in {"next", "await"} /\ op'[d] = op[d] /\ op[c].kind # "Close"
          BY <2>1, <3>2, <3>5, <4>2
        <5> QED BY <2>1, <5>1 DEF CloseInv
      <4> QED BY <4>1, <4>2
    <3>6. closes' = 1 => \A d \in Callers : pc'[d] # "next"
      BY <3>4
    <3> QED BY <3>3, <3>5, <3>6 DEF CloseInv
  <2> QED BY <2>4, <2>5, <2>6, <2>7 DEF LockInv
<1>3. CASE Unlock(c)
  <2>1. /\ holders' = holders \ {c} /\ pc[c] = "unlock" /\ pc'[c] = "idle"
        /\ UNCHANGED <<open, closes>> /\ (cursor' = cursor \/ op[c].kind \in CursorOps)
        /\ \A d \in Callers \ {c} : pc'[d] = pc[d] /\ op'[d] = op[d]
    BY <1>3 DEF Unlock, FileTypes
  <2>2. c \in holders /\ holders \subseteq Callers
    BY <2>1 DEF LockInv, Locked, FileTypes
  <2>3. op[c].kind \in CursorOps => holders' = {}
    BY <2>1, <2>2 DEF LockInv, Exclusive
  <2>4. LockInv'
    BY <2>1, <2>2, <2>3 DEF LockInv, Locked
  <2>5. CloseInv'
    <3>1. \A d \in Callers : pc'[d] \in {"next", "await"} =>
                               pc[d] \in {"next", "await"} /\ pc'[d] = pc[d] /\ op'[d] = op[d]
      BY <2>1
    <3>2. open' = open /\ closes' = closes
      BY <1>3 DEF Unlock
    <3> QED BY <3>1, <3>2 DEF CloseInv
  <2> QED BY <2>4, <2>5
<1>4. CASE Step(c) /\ ~ Lock(c) /\ ~ Unlock(c)
  <2>1. /\ pc[c] \in {"next", "await"} /\ pc'[c] \in {"next", "await", "unlock"}
        /\ UNCHANGED <<holders, op, open>>
        /\ cursor' = cursor \/ op[c].kind = "Seek"
        /\ pc'[c] = "await" => pc[c] = "next" /\ closes' = closes + (IF op[c].kind = "Close" THEN 1 ELSE 0)
        /\ pc'[c] # "await" => closes' = closes
        /\ pc'[c] = "next" => op[c].kind # "Close"
    BY <1>4, OwnStep
  <2>2. \A d \in Callers \ {c} : pc'[d] = pc[d]
    BY <1>4, OthersStay
  <2>3. c \in holders /\ holders \subseteq Callers
    BY <2>1 DEF LockInv, Locked, FileTypes
  <2>4. \A d \in holders : op[d].kind \in CursorOps => cursor' = cursor
    <3>1. op[c].kind = "Seek" => holders = {c} /\ op[c].kind \notin CursorOps
      BY <2>3 DEF LockInv, Exclusive, CursorOps
    <3> QED BY <2>1, <3>1
  <2>5. LockInv'
    BY <2>1, <2>2, <2>3, <2>4 DEF LockInv, Locked
  <2>6. op[c].kind = "Close" => \A d \in Callers \ {c} : pc[d] \notin {"next", "await"}
    BY <2>3 DEF LockInv, Locked, Exclusive
  <2>7. CloseInv'
    <3>1. CASE closes' = closes
      BY <2>1, <2>2, <3>1 DEF CloseInv
    <3>2. CASE pc'[c] = "await" /\ op[c].kind = "Close" /\ closes' = closes + 1
      BY <2>1, <2>2, <2>6, <3>2 DEF CloseInv
    <3>3. closes + 0 = closes
      BY DEF FileTypes
    <3> QED BY <2>1, <3>1, <3>2, <3>3
  <2> QED BY <2>5, <2>7
<1> QED BY <1>1, <1>2, <1>3, <1>4

-----------------------------------------------------------------------------
(* The buffers.                                                            *)

Writes == {"Write", "WriteAt"}

Going(c) == pc[c] \in {"next", "await"}

\* An operation has moved the bytes at its offset and after; a chunk of a read is asked for
\* until it is full, one of a write goes as far as MaxPacket or the buffer allow.
DataOK(c) ==
  /\ ~ Locked(c) => got[c] = 0 /\ chunk[c] = 0 /\ data[c] = <<>>
  /\ Locked(c) => data[c] = Bytes(op[c].off, got[c])
  /\ Going(c) /\ op[c].kind \in Reads => got[c] <= chunk[c] /\ chunk[c] <= op[c].len
  /\ Going(c) /\ op[c].kind \in Writes => got[c] <= op[c].len
  /\ pc[c] = "await" /\ op[c].kind \in Writes => chunk[c] = Least(op[c].len, got[c] + MaxPacket)
  /\ pc[c] = "await" /\ op[c].kind = "ReadFrom" => got[c] <= chunk[c]
  /\ pc[c] = "unlock" /\ op[c].kind \in Reads \cup Writes /\ got[c] < op[c].len => err[c] # "none"

DataInv == \A c \in Callers : DataOK(c)

LEMMA DataChunks ==
  ASSUME FileTypes, DataInv
  PROVE  ChunksGoOn
<1> SUFFICES ASSUME NEW c \in Callers, pc[c] = "await", op[c].kind \in Writes \cup {"ReadFrom"}
             PROVE  got[c] <= chunk[c]
  BY DEF ChunksGoOn, Writes
<1>1. DataOK(c) /\ op[c].len \in Nat /\ got[c] \in Nat /\ MaxPacket \in Nat
  BY HaveBounds DEF DataInv, FileTypes, Bounds
<1>2. Going(c)
  BY DEF Going
<1> QED BY <1>1, <1>2 DEF DataOK, Least

LEMMA InitData == Init => DataInv
BY DEF Init, DataInv, DataOK, Locked, Going

LEMMA NextData ==
  ASSUME FileTypes, DataInv, NEW c \in Callers, Step(c) \/ (\E r \in Requests : Call(c, r))
  PROVE  DataOK(c)'
<1>1. /\ DataOK(c)
      /\ op[c] \in [kind : Kinds, len : Nat, off : Int] /\ op[c].len \in Nat /\ op[c].off \in Int
      /\ got[c] \in Nat /\ chunk[c] \in Nat /\ MaxPacket \in Nat \ {0}
  BY HaveBounds DEF DataInv, FileTypes, Bounds
<1>2. FileTypes' /\ ChunksGoOn
  BY DataChunks, StepTypes, CallTypes
<1>3. \A n \in Nat : Bytes(op[c].off, got[c]) \o Bytes(op[c].off + got[c], n) = Bytes(op[c].off, got[c] + n)
  BY <1>1, BytesGoOn
<1>4. CASE \E r \in Requests : Call(c, r)
  <2>1. /\ pc[c] = "idle" /\ pc'[c] = "lock" /\ UNCHANGED <<got, chunk, data>>
    BY <1>4 DEF Call, FileTypes
  <2> QED BY <1>1, <2>1 DEF DataOK, Locked, Going
<1>5. CASE Lock(c)
  <2>1. /\ pc[c] = "lock" /\ pc'[c] \in {"next", "unlock"} /\ UNCHANGED <<got, chunk, data>>
        /\ op'[c].len = op[c].len
        /\ pc'[c] = "unlock" => err'[c] = "closed"
    BY <1>5 DEF Lock, FileTypes
  <2>2. got'[c] = 0 /\ chunk'[c] = 0 /\ data'[c] = <<>>
    BY <1>1, <2>1 DEF DataOK, Locked
  <2> QED BY <1>1, <2>1, <2>2, NoBytes DEF DataOK, Locked, Going
<1>6. CASE Unlock(c)
  <2>1. pc'[c] = "idle" /\ got'[c] = 0 /\ chunk'[c] = 0 /\ data'[c] = <<>>
    BY <1>6 DEF Unlock, FileTypes
  <2> QED BY <2>1 DEF DataOK, Locked, Going
<1>7. CASE ReadRequest(c)
  <2>1. /\ pc[c] = "next" /\ op[c].kind \in Reads /\ UNCHANGED <<op, got, data, err>>
        /\ \/ got[c] = op[c].len /\ pc'[c] = "unlock"
           \/ /\ got[c] # op[c].len /\ pc'[c] = "await"
              /\ chunk'[c] = IF got[c] = chunk[c] THEN Least(op[c].len, got[c] + MaxPacket) ELSE chunk[c]
    BY <1>7 DEF ReadRequest, GoOn, Send, AtNext, FileTypes
  <2>2. op[c].kind \notin Writes \cup {"ReadFrom"}
    BY <2>1 DEF Reads, Writes
  <2>3. got[c] <= chunk[c] /\ chunk[c] <= op[c].len /\ data[c] = Bytes(op[c].off, got[c])
    BY <1>1, <2>1 DEF DataOK, Locked, Going
  <2>4. pc'[c] = "await" => got[c] <= chunk'[c] /\ chunk'[c] <= op[c].len
    BY <1>1, <2>1, <2>3 DEF Least
  <2> QED BY <1>1, <2>1, <2>2, <2>3, <2>4 DEF DataOK, Locked, Going
<1>8. CASE ReadAnswer(c)
  <2>1. /\ pc[c] = "await" /\ op[c].kind \in Reads /\ UNCHANGED <<op, chunk>>
        /\ \/ \E n \in 1..(chunk[c] - got[c]) :
                /\ got'[c] = got[c] + n /\ data'[c] = data[c] \o Bytes(op[c].off + got[c], n)
                /\ pc'[c] = "next"
           \/ /\ got'[c] = got[c] /\ data'[c] = data[c] /\ pc'[c] = "unlock"
              /\ err'[c] # "none"
    BY <1>8 DEF ReadAnswer, GoOn, FileTypes
  <2>2. op[c].kind \notin Writes \cup {"ReadFrom"}
    BY <2>1 DEF Reads, Writes
  <2>3. got[c] <= chunk[c] /\ chunk[c] <= op[c].len /\ data[c] = Bytes(op[c].off, got[c])
    BY <1>1, <2>1 DEF DataOK, Locked, Going
  <2>4. data'[c] = Bytes(op[c].off, got'[c])
    <3>1. CASE data'[c] = data[c] /\ got'[c] = got[c]
      BY <2>3, <3>1
    <3>2. ASSUME NEW n \in 1..(chunk[c] - got[c]), got'[c] = got[c] + n,
                 data'[c] = data[c] \o Bytes(op[c].off + got[c], n)
          PROVE  data'[c] = Bytes(op[c].off, got'[c])
      <4>1. n \in Nat
        BY <1>1
      <4> QED BY <1>3, <2>3, <3>2, <4>1
    <3> QED BY <2>1, <3>1, <3>2
  <2>5. pc'[c] = "next" => got'[c] <= chunk[c]
    BY <1>1, <2>1, <2>3
  <2> QED BY <1>1, <2>1, <2>2, <2>3, <2>4, <2>5 DEF DataOK, Locked, Going
<1>9. CASE WriteRequest(c)
  <2>1. /\ pc[c] = "next" /\ op[c].kind \in Writes /\ UNCHANGED <<op, got, data, err>>
        /\ \/ got[c] = op[c].len /\ pc'[c] = "unlock"
           \/ pc'[c] = "await" /\ chunk'[c] = Least(op[c].len, got[c] + MaxPacket)
    BY <1>9 DEF WriteRequest, GoOn, Send, AtNext, FileTypes, Writes
  <2>2. op[c].kind \notin Reads \cup {"ReadFrom"}
    BY <2>1 DEF Reads, Writes
  <2>3. got[c] <= op[c].len /\ data[c] = Bytes(op[c].off, got[c])
    BY <1>1, <2>1 DEF DataOK, Locked, Going
  <2> QED BY <1>1, <2>1, <2>2, <2>3 DEF DataOK, Locked, Going
<1>10. CASE SourceYields(c)
  <2>1. /\ pc[c] = "next" /\ op[c].kind = "ReadFrom" /\ UNCHANGED <<op, got, data>>
        /\ \/ pc'[c] = "unlock"
           \/ /\ pc'[c] = "await"
              /\ \E n \in Int : n > 0 /\ chunk'[c] = got[c] + n
    BY <1>10 DEF SourceYields, GoOn, Send, AtNext, FileTypes
  <2>2. op[c].kind \notin Reads \cup Writes
    BY <2>1 DEF Reads, Writes
  <2>3. data[c] = Bytes(op[c].off, got[c])
    BY <1>1, <2>1 DEF DataOK, Locked, Going
  <2> QED BY <1>1, <2>1, <2>2, <2>3 DEF DataOK, Locked, Going
<1>11. CASE WriteAnswer(c)
  <2>1. PICK n \in Nat : n = chunk[c] - got[c]
    BY <1>1, <1>2, <1>11 DEF WriteAnswer, ChunksGoOn
  <2>2. /\ pc[c] = "await" /\ op[c].kind \in Writes \cup {"ReadFrom"} /\ UNCHANGED <<op, chunk>>
        /\ pc'[c] \in {"next", "unlock"}
        /\ \/ /\ got'[c] = got[c] + n /\ data'[c] = data[c] \o Bytes(op[c].off + got[c], n)
              /\ op[c].kind \in Writes => (pc'[c] = "next" <=> op[c].len > MaxPacket)
           \/ /\ got'[c] = got[c] /\ data'[c] = data[c]
              /\ op[c].kind \in Writes => pc'[c] = "unlock" /\ err'[c] # "none"
    <3>1. UNCHANGED <<op, chunk>> /\ pc[c] = "await" /\ op[c].kind \in Writes \cup {"ReadFrom"}
      BY <1>11 DEF WriteAnswer, Writes
    <3>2. CASE /\ got' = [got EXCEPT ![c] = @ + n]
               /\ data' = [data EXCEPT ![c] = @ \o Bytes(op[c].off + got[c], n)]
               /\ AfterWrite(c, TRUE)
      BY <3>1, <3>2 DEF AfterWrite, GoOn, FileTypes, Writes
    <3>3. CASE AfterWrite(c, FALSE) /\ UNCHANGED <<got, size, data>>
      BY <3>1, <3>3 DEF AfterWrite, GoOn, FileTypes, Writes
    <3> QED BY <1>11, <2>1, <3>2, <3>3 DEF WriteAnswer
  <2>3. op[c].kind \notin Reads /\ (op[c].kind = "ReadFrom" => op[c].kind \notin Writes)
    BY <2>2 DEF Reads, Writes
  <2>4. /\ data[c] = Bytes(op[c].off, got[c])
        /\ op[c].kind \in Writes => got[c] <= op[c].len /\ chunk[c] = Least(op[c].len, got[c] + MaxPacket)
    BY <1>1, <2>2 DEF DataOK, Locked, Going
  <2>5. data'[c] = Bytes(op[c].off, got'[c])
    BY <1>1, <1>3, <2>2, <2>4
  <2>6. op[c].kind \in Writes => got'[c] <= op[c].len
    BY <1>1, <2>1, <2>2, <2>4 DEF Least
  <2>7. op[c].kind \in Writes /\ pc'[c] = "unlock" /\ got'[c] < op[c].len => err'[c] # "none"
    BY <1>1, <2>1, <2>2, <2>4 DEF Least
  <2> QED BY <1>1, <2>2, <2>3, <2>5, <2>6, <2>7 DEF DataOK, Locked, Going
<1>12. CASE Seek(c)
  <2>1. pc[c] = "next" /\ pc'[c] = "unlock" /\ op[c].kind = "Seek" /\ UNCHANGED <<op, got, data>>
    BY <1>12 DEF Seek, GoOn, AtNext, FileTypes
  <2> QED BY <1>1, <2>1 DEF DataOK, Locked, Going, Reads, Writes
<1>13. CASE OneRequest(c) \/ OneAnswer(c)
  <2>1. /\ pc[c] \in {"next", "await"} /\ pc'[c] \in {"await", "unlock"}
        /\ op[c].kind \in OneOps \cup {"Close"} /\ UNCHANGED <<op, got, data, chunk>>
    BY <1>13 DEF OneRequest, OneAnswer, GoOn, Send, AtNext, FileTypes
  <2> QED BY <1>1, <2>1 DEF DataOK, Locked, Going, Reads, Writes, OneOps
<1> QED BY <1>4, <1>5, <1>6, <1>7, <1>8, <1>9, <1>10, <1>11, <1>12, <1>13 DEF Step

LEMMA OthersData ==
  ASSUME FileTypes, DataInv, NEW d \in Callers, Step(d) \/ (\E r \in Requests : Call(d, r)),
         NEW c \in Callers \ {d}
  PROVE  DataOK(c)'
<1>1. /\ pc'[c] = pc[c] /\ op'[c] = op[c] /\ got'[c] = got[c] /\ chunk'[c] = chunk[c]
      /\ err'[c] = err[c] /\ data'[c] = data[c]
  BY OthersStay
<1>2. DataOK(c)
  BY DEF DataInv
<1> QED BY <1>1, <1>2 DEF DataOK, Locked, Going

-----------------------------------------------------------------------------
(* The theorems.                                                           *)

FileInv == FileTypes /\ LockInv /\ CloseInv /\ DataInv

LEMMA FileStutter ==
  ASSUME FileInv, UNCHANGED vars
  PROVE  FileInv'
BY DEF FileInv, FileTypes, LockInv, CloseInv, DataInv, DataOK, Locked, Going, vars

LEMMA FileInvariant == Spec => []FileInv
<1>1. Init => FileInv
  BY InitTypes, InitLock, InitData DEF FileInv
<1>2. FileInv /\ [Next]_vars => FileInv'
  <2> SUFFICES ASSUME FileInv, [Next]_vars PROVE FileInv'
    OBVIOUS
  <2>1. ASSUME NEW c \in Callers, Step(c) \/ (\E r \in Requests : Call(c, r))
        PROVE  FileInv'
    <3>1. FileTypes'
      BY <2>1, StepTypes, CallTypes, DataChunks DEF FileInv
    <3>2. LockInv' /\ CloseInv'
      BY <2>1, NextLock DEF FileInv
    <3>3. \A d \in Callers : DataOK(d)'
      BY <2>1, NextData, OthersData DEF FileInv
    <3> QED BY <3>1, <3>2, <3>3 DEF FileInv, DataInv
  <2> QED BY <2>1, FileStutter DEF Next
<1> QED BY <1>1, <1>2, PTL DEF Spec

\* However the server cuts its answers, the bytes an operation says it has moved are those
\* at its offset and after, and fewer than asked for come with an error.
THEOREM BuffersExact == Spec => []BuffersAreExact
<1>1. FileInv => BuffersAreExact
  BY DEF FileInv, DataInv, DataOK, BuffersAreExact, Ended, Locked, Reads, Writes
<1> QED BY <1>1, FileInvariant, PTL

\* The offset stays where it is under an operation that started from it.
THEOREM CursorShared == Spec => []CursorIsShared
<1>1. FileInv => CursorIsShared
  BY DEF FileInv, LockInv, CursorIsShared
<1> QED BY <1>1, FileInvariant, PTL

\* After the close request nothing else is sent, or still awaited, on the handle.
THEOREM NothingAfterClose == Spec => []NoUseAfterClose
<1>1. FileInv => NoUseAfterClose
  BY DEF FileInv, FileTypes, CloseInv, NoUseAfterClose
<1> QED BY <1>1, FileInvariant, PTL
=============================================================================
