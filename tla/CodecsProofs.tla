----------------------------- MODULE CodecsProofs -----------------------------
(***************************************************************************)
(* The invariants of Codecs, for every packet that a sender may build and  *)
(* every value that is converted, whatever happens to the bytes, from what *)
(* EncodingProofs says of the two encodings.                               *)
(***************************************************************************)
EXTENDS EncodingProofs

-----------------------------------------------------------------------------
(* What a reader hands on.                                                 *)

LEMMA KindsFound ==
  /\ \A type, ext : KindNamed(type, ext) \in DOMAIN Read \union {"unknown"}
  /\ \A type, ext : FxKindNamed(type, ext) \in DOMAIN FxLayout \union {"unknown"}
<1>1. ASSUME NEW type, NEW ext PROVE KindNamed(type, ext) \in DOMAIN Read \union {"unknown"}
  BY DEF KindNamed
<1>2. ASSUME NEW type, NEW ext PROVE FxKindNamed(type, ext) \in DOMAIN FxLayout \union {"unknown"}
  BY DEF FxKindNamed
<1> QED BY <1>1, <1>2

LEMMA KindFound ==
  \A type, body : /\ KindOf(type, body) \in DOMAIN Read \union {"unknown"}
                  /\ FxKindOf(type, body) \in DOMAIN FxLayout \union {"unknown"}
BY KindsFound DEF KindOf, FxKindOf

\* A frame that has been read is bytes, and what is left of the stream too.
FrameRead(frame) ==
  frame.status = "ok" => /\ frame.type \in Bytes
                         /\ frame.body \in Seq(Bytes) /\ frame.rest \in Seq(Bytes)

LEMMA PartsOfBytes ==
  ASSUME NEW b \in Seq(Bytes), NEW n \in Nat, n >= 1, n <= Len(b)
  PROVE  b[1] \in Bytes /\ SubSeq(b, 2, n) \in Seq(Bytes) /\ Drop(b, n) \in Seq(Bytes)
<1>1. b[1] \in Bytes
  OBVIOUS
<1>2. SubSeq(b, 2, n) \in Seq(Bytes)
  OBVIOUS
<1>3. Drop(b, n) \in Seq(Bytes)
  BY DEF Drop
<1> QED BY <1>1, <1>2, <1>3

LEMMA BodiesRead ==
  ASSUME NEW n \in Uint32, NEW b \in Seq(Bytes), NEW x
  PROVE  FrameRead(RecvBody(Got(n, b))) /\ FrameRead(FxReadBody(Got(n, b)))
<1>1. n \in Nat /\ Len(b) \in Nat
  BY DEF Uint32
<1>2. Got(n, b).v = n /\ Got(n, b).rest = b
  BY GotFields
<1>3. FrameRead(RecvBody(Got(n, b)))
  <2>1. CASE n > MaxMsgLength \/ n = 0 \/ n > Len(b)
    <3>1. RecvBody(Got(n, b)).status # "ok"
      BY <1>1, <1>2, <2>1, MaxMsgLengthAssumption DEF RecvBody
    <3> QED BY <3>1 DEF FrameRead
  <2>2. CASE ~ (n > MaxMsgLength \/ n = 0 \/ n > Len(b))
    <3>1. n >= 1 /\ n <= Len(b)
      BY <1>1, <2>2
    <3>2. b[1] \in Bytes /\ SubSeq(b, 2, n) \in Seq(Bytes) /\ Drop(b, n) \in Seq(Bytes)
      BY <1>1, <3>1, PartsOfBytes
    <3>3. RecvBody(Got(n, b)) = [status |-> "ok", type |-> b[1], body |-> SubSeq(b, 2, n), rest |-> Drop(b, n)]
      BY <1>2, <2>2 DEF RecvBody
    <3> QED BY <3>2, <3>3 DEF FrameRead
  <2> QED BY <2>1, <2>2
<1>4. FrameRead(FxReadBody(Got(n, b)))
  <2>1. CASE n < 1 + WordLen \/ n > MaxMsgLength \/ b = <<>> \/ Len(b) < n
    <3>1. FxReadBody(Got(n, b)).status # "ok"
      BY <1>1, <1>2, <2>1, MaxMsgLengthAssumption DEF FxReadBody, WordLen
    <3> QED BY <3>1 DEF FrameRead
  <2>2. CASE ~ (n < 1 + WordLen \/ n > MaxMsgLength \/ b = <<>> \/ Len(b) < n)
    <3>1. n >= 1 /\ n <= Len(b)
      BY <1>1, <2>2 DEF WordLen
    <3>2. b[1] \in Bytes /\ SubSeq(b, 2, n) \in Seq(Bytes) /\ Drop(b, n) \in Seq(Bytes)
      BY <1>1, <3>1, PartsOfBytes
    <3>3. FxReadBody(Got(n, b)) = [status |-> "ok", type |-> b[1], body |-> SubSeq(b, 2, n), rest |-> Drop(b, n)]
      BY <1>2, <2>2 DEF FxReadBody
    <3> QED BY <3>2, <3>3 DEF FrameRead
  <2> QED BY <2>1, <2>2
<1> QED BY <1>3, <1>4

\* What either reader returns for a stream of bytes.
LEMMA FramesRead ==
  ASSUME NEW b \in Seq(Bytes)
  PROVE  FrameRead(RecvPacket(b)) /\ FrameRead(FxReadPacket(b))
<1>1. CASE Len(b) < WordLen
  <2>1. RecvPacket(b).status # "ok" /\ FxReadPacket(b).status # "ok"
    BY <1>1 DEF RecvPacket, FxReadPacket
  <2> QED BY <2>1 DEF FrameRead
<1>2. CASE ~ (Len(b) < WordLen)
  <2>1. ConsumeUint32(Buffer(b)) = UnmarshalUint32Safe(b)
        /\ \E n \in Uint32, c \in Seq(Bytes) : UnmarshalUint32Safe(b) = Got(n, c)
    <3>1. Alike(ConsumeUint32(Got(<<>>, b)), UnmarshalUint32Safe(b))
      BY Uint32Alike
    <3>2. Got(<<>>, b) = Buffer(b)
      BY DEF Got, Buffer
    <3>3. Exactly(Unmarshal("uint32", b), b, "uint32") /\ Unmarshal("uint32", b) = UnmarshalUint32Safe(b)
      BY FieldExact DEF FieldTypes, Unmarshal, UnmarshalBasic
    <3>4. UnmarshalUint32Safe(b) = Got(b[1] * Base + b[2], Drop(b, WordLen))
      BY <1>2 DEF UnmarshalUint32Safe
    <3>5. UnmarshalUint32Safe(b).failed = FALSE
      BY <3>4, GotFields
    <3>6. UnmarshalUint32Safe(b) # Short
      BY <3>5, ShortFields
    <3>7. PICK v \in Values("uint32"), rest \in Seq(Bytes) : UnmarshalUint32Safe(b) = Got(v, rest)
      BY <3>3, <3>6 DEF Exactly
    <3>8. v \in Uint32
      BY <3>7 DEF Values, BasicValues
    <3>9. ConsumeUint32(Buffer(b)) = UnmarshalUint32Safe(b)
      BY <3>1, <3>2, <3>6, <3>7 DEF Alike
    <3> QED BY <3>7, <3>8, <3>9
  <2>2. PICK n \in Uint32, c \in Seq(Bytes) :
          UnmarshalUint32Safe(b) = Got(n, c) /\ ConsumeUint32(Buffer(b)) = Got(n, c)
    BY <2>1
  <2>3. RecvPacket(b) = RecvBody(Got(n, c)) /\ FxReadPacket(b) = FxReadBody(Got(n, c))
    BY <1>2, <2>2 DEF RecvPacket, FxReadPacket
  <2> QED BY <2>2, <2>3, BodiesRead
<1> QED BY <1>1, <1>2

-----------------------------------------------------------------------------
(* What has been received.                                                 *)

\* What a receiver may have made of the bytes of a body.
DecodedBy(codec, kind, body) ==
  CASE kind = "unknown" -> Short
    [] kind # "unknown" /\ codec = "sftp" -> UnmarshalPacket(kind, body)
    [] OTHER -> FxUnmarshalPacket(kind, body)

KindsOf(codec) == IF codec = "sftp" THEN DOMAIN Read ELSE DOMAIN FxLayout

ReceivedBy(codec) ==
  {Entry(r[1], r[2], DecodedBy(codec, r[1], r[2])) : r \in (KindsOf(codec) \union {"unknown"}) \X Seq(Bytes)}

\* An entry says no more than the bytes it was decoded from.
Honest(codec, e) ==
  (~ e.failed /\ ~ (e.kind = "version" /\ codec = "sshfx")) =>
    IsPrefix(IF codec = "sftp" THEN MarshalFields(SureFields(e.kind), e.p)
                               ELSE FxMarshalFields(FxLayout[e.kind], e.p), e.body)

LEMMA PrefixOfConcat ==
  ASSUME NEW a \in Seq(Bytes), NEW b \in Seq(Bytes)
  PROVE  IsPrefix(a, a \o b)
<1>1. SubSeq(a \o b, 1, Len(a)) = a /\ Len(a \o b) = Len(a) + Len(b) /\ Len(a) \in Nat /\ Len(b) \in Nat
  BY DropPrefix
<1>2. SubSeq(a, 1, Len(a)) = a
  OBVIOUS
<1> QED BY <1>1, <1>2 DEF IsPrefix

LEMMA EntryFields ==
  \A kind, body, u : LET e == Entry(kind, body, u) IN
    e.kind = kind /\ e.body = body /\ e.p = u.v /\ e.failed = u.failed
BY DEF Entry

LEMMA ReceivedAreHonest ==
  ASSUME NEW codec \in {"sftp", "sshfx"}, NEW e \in ReceivedBy(codec)
  PROVE  Honest(codec, e)
<1>1. PICK kind \in KindsOf(codec) \union {"unknown"}, body \in Seq(Bytes) :
        e = Entry(kind, body, DecodedBy(codec, kind, body))
  BY DEF ReceivedBy
<1> DEFINE u == DecodedBy(codec, kind, body)
<1>2. e.kind = kind /\ e.body = body /\ e.p = u.v /\ e.failed = u.failed
  BY <1>1, EntryFields
<1>3. CASE kind = "unknown"
  <2>1. u.failed = TRUE
    BY <1>3, ShortFields DEF DecodedBy
  <2> QED BY <1>2, <2>1 DEF Honest
<1>4. CASE kind # "unknown" /\ codec = "sftp"
  <2>1. u = UnmarshalPacket(kind, body) /\ kind \in DOMAIN Read
    BY <1>1, <1>4 DEF DecodedBy, KindsOf
  <2>2. CASE UnmarshalPacket(kind, body) = Short
    <3>1. u.failed = TRUE
      BY <2>1, <2>2, ShortFields
    <3> QED BY <1>2, <3>1 DEF Honest
  <2>3. CASE UnmarshalPacket(kind, body) # Short
    <3> DEFINE that == MarshalFields(SureFields(kind), UnmarshalPacket(kind, body).v)
    <3>1. that \in Seq(Bytes) /\ \E left \in Seq(Bytes) : body = that \o left
      BY <2>1, <2>3, PacketExact
    <3>2. IsPrefix(that, body)
      <4> HIDE DEF that
      <4> QED BY <3>1, PrefixOfConcat
    <3>3. MarshalFields(SureFields(e.kind), e.p) = that
      BY <1>2, <2>1
    <3> QED BY <1>2, <1>4, <3>2, <3>3 DEF Honest
  <2> QED BY <2>2, <2>3
<1>5. CASE kind # "unknown" /\ codec = "sshfx"
  <2>1. u = FxUnmarshalPacket(kind, body) /\ kind \in DOMAIN FxLayout
    BY <1>1, <1>5 DEF DecodedBy, KindsOf
  <2>2. CASE u.failed \/ kind = "version"
    BY <1>2, <1>5, <2>2 DEF Honest
  <2>3. CASE ~ (u.failed \/ kind = "version")
    <3> DEFINE that == FxMarshalFields(FxLayout[kind], FxUnmarshalPacket(kind, body).v)
    <3>1. that \in Seq(Bytes) /\ \E left \in Seq(Bytes) : body = that \o left
      BY <2>1, <2>3, FxPacketExact
    <3>2. IsPrefix(that, body)
      <4> HIDE DEF that
      <4> QED BY <3>1, PrefixOfConcat
    <3>3. FxMarshalFields(FxLayout[e.kind], e.p) = that
      BY <1>2, <2>1
    <3>4. codec # "sftp"
      BY <1>5
    <3> QED BY <1>2, <3>2, <3>3, <3>4 DEF Honest
  <2> QED BY <2>2, <2>3
<1> QED BY <1>3, <1>4, <1>5

\* Nothing else is ever added.
LEMMA DecodedIsReceived ==
  ASSUME receiver \in {"sftp", "sshfx"}, NEW type, NEW body \in Seq(Bytes)
  PROVE  Decoded(type, body) \in ReceivedBy(receiver) /\ Decoded(type, body).body = body
<1> DEFINE kind == IF receiver = "sftp" THEN KindOf(type, body) ELSE FxKindOf(type, body)
<1>1. kind \in KindsOf(receiver) \union {"unknown"}
  BY KindFound DEF KindsOf
<1>2. Decoded(type, body) = DecodedAs(kind, body)
  BY DEF Decoded
<1> HIDE DEF kind
<1>3. Decoded(type, body) = Entry(kind, body, DecodedBy(receiver, kind, body))
  BY <1>2 DEF DecodedAs, UnmarshalAs, DecodedBy
<1> DEFINE r == <<kind, body>>
<1>4. r \in (KindsOf(receiver) \union {"unknown"}) \X Seq(Bytes) /\ r[1] = kind /\ r[2] = body
  BY <1>1
<1>5. Decoded(type, body) = Entry(r[1], r[2], DecodedBy(receiver, r[1], r[2]))
  BY <1>3, <1>4
<1> HIDE DEF r
<1>6. Decoded(type, body) \in ReceivedBy(receiver)
  BY <1>4, <1>5 DEF ReceivedBy
<1> QED BY <1>3, <1>6, EntryFields

-----------------------------------------------------------------------------
(* The loops over the bits of a mode and of the open flags.                *)

LEMMA ArrivedLoop ==
  ASSUME NEW base, NEW n \in Nat, NEW seq, DOMAIN seq = 1..n
  PROVE  \E run : /\ Runs("arrived", "any", base, seq, n, run)
                  /\ FoldLeft(LAMBDA n0, e : n0 + WordLen + 1 + Len(e.body), base, seq) = run[n]
<1> DEFINE P(it) == it = [s \in SUBSET (1..n) |->
                            IF s = {} THEN base ELSE it[s \ {Max(s)}] + WordLen + 1 + Len(seq[Max(s)].body)]
<1>1. \A it : P(it) <=> Iterates("arrived", "any", base, seq, n, it)
  BY DEF Iterates, Turn
<1>2. P(CHOOSE it : P(it))
  BY <1>1, IterationExists
<1>3. FoldLeft(LAMBDA n0, e : n0 + WordLen + 1 + Len(e.body), base, seq) = (CHOOSE it : P(it))[1..n]
  BY Zenon DEF FoldLeft, MapThenFoldSet
<1> HIDE DEF P
<1>4. PICK it : /\ P(it)
                /\ FoldLeft(LAMBDA n0, e : n0 + WordLen + 1 + Len(e.body), base, seq) = it[1..n]
  BY <1>2, <1>3, Zenon
<1>5. P(it)
  BY <1>4, Zenon
<1>6. PICK run : Runs("arrived", "any", base, seq, n, run) /\ run[n] = it[1..n]
  BY <1>1, <1>5, RunOfIteration
<1> QED BY <1>4, <1>6, Zenon

\* A bit that counts when its name is in the set.
BitOf(names, b, bit) == IF b \in names THEN bit ELSE 0

LEMMA SpecialSum ==
  ASSUME NEW names
  PROVE  SpecialBits(names)
           = BitOf(names, "setuid", 2048) + BitOf(names, "setgid", 1024) + BitOf(names, "sticky", 512)
<1> DEFINE list == <<"setuid", "setgid", "sticky">>
<1>0. PICK n \in Nat, zero \in Nat : n = 3 /\ zero = 0
  OBVIOUS
<1>1. list[1] = "setuid" /\ list[2] = "setgid" /\ list[3] = "sticky" /\ DOMAIN list = 1..n /\ n \in Nat
  BY <1>0
<1>2. SpecialBits(names)
        = FoldLeft(LAMBDA n0, e : IF e \in names THEN n0 + SpecialBit[e] ELSE n0, zero, list)
  BY <1>0, Zenon DEF SpecialBits
<1> HIDE DEF list
<1> DEFINE P(it) == it = [s \in SUBSET (1..n) |->
                            IF s = {} THEN zero
                            ELSE IF list[Max(s)] \in names THEN it[s \ {Max(s)}] + SpecialBit[list[Max(s)]]
                                 ELSE it[s \ {Max(s)}]]
<1>3a. \A it : P(it) <=> Iterates("special", names, zero, list, n, it)
  BY DEF Iterates, Turn
<1>3b. P(CHOOSE it : P(it))
  BY <1>1, <1>3a, IterationExists
<1>3c. FoldLeft(LAMBDA n0, e : IF e \in names THEN n0 + SpecialBit[e] ELSE n0, zero, list) = (CHOOSE it : P(it))[1..n]
  BY <1>1, Zenon DEF FoldLeft, MapThenFoldSet
<1> HIDE DEF P
<1>3d. PICK it : /\ P(it)
                 /\ FoldLeft(LAMBDA n0, e : IF e \in names THEN n0 + SpecialBit[e] ELSE n0, zero, list) = it[1..n]
  BY <1>3b, <1>3c, Zenon
<1>3e. P(it)
  BY <1>3d, Zenon
<1>3. PICK run : Runs("special", names, zero, list, n, run) /\ run[n] = it[1..n]
  BY <1>1, <1>3a, <1>3e, RunOfIteration
<1>4. Runs("special", names, zero, list, n, run)
  BY <1>3, Zenon
<1>5. SpecialBits(names) = run[3]
  BY <1>0, <1>2, <1>3, <1>3d, Zenon
<1>6. run[0] = 0 /\ \A k \in 0..2 : run[k + 1] = Turn("special", names, run[k], list[k + 1])
  BY <1>0, <1>4 DEF Runs
<1>7. /\ run[0 + 1] = Turn("special", names, run[0], list[0 + 1])
      /\ run[1 + 1] = Turn("special", names, run[1], list[1 + 1])
      /\ run[2 + 1] = Turn("special", names, run[2], list[2 + 1])
  BY <1>6
<1>8. \A r, i : Turn("special", names, r, i) = IF i \in names THEN r + SpecialBit[i] ELSE r
  BY DEF Turn
<1>9. SpecialBit["setuid"] = 2048 /\ SpecialBit["setgid"] = 1024 /\ SpecialBit["sticky"] = 512
  BY DEF SpecialBit
<1>10. /\ run[1] = IF "setuid" \in names THEN 0 + 2048 ELSE 0
       /\ run[2] = IF "setgid" \in names THEN run[1] + 1024 ELSE run[1]
       /\ run[3] = IF "sticky" \in names THEN run[2] + 512 ELSE run[2]
  BY <1>1, <1>6, <1>7, <1>8, <1>9
<1> QED BY <1>5, <1>10 DEF BitOf

LEMMA PflagsSum ==
  ASSUME NEW access, NEW bits
  PROVE  LET names == Accesses[access] \union bits IN
           ToPflags(access, bits)
             = BitOf(names, "read", 1) + BitOf(names, "write", 2) + BitOf(names, "append", 4)
               + BitOf(names, "creat", 8) + BitOf(names, "trunc", 16) + BitOf(names, "excl", 32)
<1> DEFINE names == Accesses[access] \union bits
<1> DEFINE list == <<"read", "write", "append", "creat", "trunc", "excl">>
<1>0. PICK n \in Nat, zero \in Nat : n = 6 /\ zero = 0
  OBVIOUS
<1>1. /\ list[1] = "read" /\ list[2] = "write" /\ list[3] = "append" /\ list[4] = "creat"
      /\ list[5] = "trunc" /\ list[6] = "excl" /\ DOMAIN list = 1..n /\ n \in Nat
  BY <1>0
<1>2. ToPflags(access, bits)
        = FoldLeft(LAMBDA n0, e : IF e \in names THEN n0 + PFlag[e] ELSE n0, zero, list)
  BY <1>0, Zenon DEF ToPflags
<1> HIDE DEF list, names
<1> DEFINE P(it) == it = [s \in SUBSET (1..n) |->
                            IF s = {} THEN zero
                            ELSE IF list[Max(s)] \in names THEN it[s \ {Max(s)}] + PFlag[list[Max(s)]]
                                 ELSE it[s \ {Max(s)}]]
<1>3a. \A it : P(it) <=> Iterates("pflags", names, zero, list, n, it)
  BY DEF Iterates, Turn
<1>3b. P(CHOOSE it : P(it))
  BY <1>1, <1>3a, IterationExists
<1>3c. FoldLeft(LAMBDA n0, e : IF e \in names THEN n0 + PFlag[e] ELSE n0, zero, list) = (CHOOSE it : P(it))[1..n]
  BY <1>1, Zenon DEF FoldLeft, MapThenFoldSet
<1> HIDE DEF P
<1>3d. PICK it : /\ P(it)
                 /\ FoldLeft(LAMBDA n0, e : IF e \in names THEN n0 + PFlag[e] ELSE n0, zero, list) = it[1..n]
  BY <1>3b, <1>3c, Zenon
<1>3e. P(it)
  BY <1>3d, Zenon
<1>3. PICK run : Runs("pflags", names, zero, list, n, run) /\ run[n] = it[1..n]
  BY <1>1, <1>3a, <1>3e, RunOfIteration
<1>4. Runs("pflags", names, zero, list, n, run)
  BY <1>3, Zenon
<1>5. ToPflags(access, bits) = run[6]
  BY <1>0, <1>2, <1>3, <1>3d, Zenon
<1>6. run[0] = 0 /\ \A k \in 0..5 : run[k + 1] = Turn("pflags", names, run[k], list[k + 1])
  BY <1>0, <1>4 DEF Runs
<1>7. /\ run[0 + 1] = Turn("pflags", names, run[0], list[0 + 1])
      /\ run[1 + 1] = Turn("pflags", names, run[1], list[1 + 1])
      /\ run[2 + 1] = Turn("pflags", names, run[2], list[2 + 1])
      /\ run[3 + 1] = Turn("pflags", names, run[3], list[3 + 1])
      /\ run[4 + 1] = Turn("pflags", names, run[4], list[4 + 1])
      /\ run[5 + 1] = Turn("pflags", names, run[5], list[5 + 1])
  BY <1>6
<1>8. \A r, i : Turn("pflags", names, r, i) = IF i \in names THEN r + PFlag[i] ELSE r
  BY DEF Turn
<1>9. /\ PFlag["read"] = 1 /\ PFlag["write"] = 2 /\ PFlag["append"] = 4 /\ PFlag["creat"] = 8
      /\ PFlag["trunc"] = 16 /\ PFlag["excl"] = 32
  BY DEF PFlag
<1>10. /\ run[1] = IF "read" \in names THEN 0 + 1 ELSE 0
       /\ run[2] = IF "write" \in names THEN run[1] + 2 ELSE run[1]
       /\ run[3] = IF "append" \in names THEN run[2] + 4 ELSE run[2]
       /\ run[4] = IF "creat" \in names THEN run[3] + 8 ELSE run[3]
       /\ run[5] = IF "trunc" \in names THEN run[4] + 16 ELSE run[4]
       /\ run[6] = IF "excl" \in names THEN run[5] + 32 ELSE run[5]
  BY <1>1, <1>6, <1>7, <1>8, <1>9
<1>11. /\ run[1] = BitOf(names, "read", 1) /\ run[1] \in Int
       /\ run[2] = run[1] + BitOf(names, "write", 2) /\ run[2] \in Int
       /\ run[3] = run[2] + BitOf(names, "append", 4) /\ run[3] \in Int
       /\ run[4] = run[3] + BitOf(names, "creat", 8) /\ run[4] \in Int
       /\ run[5] = run[4] + BitOf(names, "trunc", 16) /\ run[5] \in Int
       /\ run[6] = run[5] + BitOf(names, "excl", 32)
  BY <1>10 DEF BitOf
<1>12. ToPflags(access, bits)
         = BitOf(names, "read", 1) + BitOf(names, "write", 2) + BitOf(names, "append", 4)
           + BitOf(names, "creat", 8) + BitOf(names, "trunc", 16) + BitOf(names, "excl", 32)
  BY <1>5, <1>11
<1> QED BY <1>12 DEF names

-----------------------------------------------------------------------------
(* What the conversions make is what a field may hold.                     *)

LEMMA WordRange ==
  \A n : n \in Uint32 <=> (n \in Nat /\ n <= 65535)
<1>1. Base * Base - 1 = 65535
  BY DEF Base
<1> QED BY <1>1 DEF Uint32

LEMMA TypeCodes ==
  /\ DOMAIN ModeType = {1, 2, 4, 6, 8, 10, 12}
  /\ \A t : TypeCode(t) \in {0, 1, 2, 4, 6, 8, 10, 12}
<1>1. DOMAIN ModeType = {1, 2, 4, 6, 8, 10, 12}
  BY DEF ModeType
<1>2. ASSUME NEW t PROVE TypeCode(t) \in {0, 1, 2, 4, 6, 8, 10, 12}
  <2>1. TypeCode(t) = 0 \/ TypeCode(t) \in DOMAIN ModeType
    BY DEF TypeCode
  <2> QED BY <1>1, <2>1
<1> QED BY <1>1, <1>2

\* The special bits are three bits above the permissions.
LEMMA SpecialRange ==
  ASSUME NEW names
  PROVE  SpecialBits(names) \in {512 * n : n \in 0..7}
<1> DEFINE a == BitOf(names, "setuid", 2048)
<1> DEFINE b == BitOf(names, "setgid", 1024)
<1> DEFINE c == BitOf(names, "sticky", 512)
<1>1. a \in {0, 2048} /\ b \in {0, 1024} /\ c \in {0, 512}
  BY DEF BitOf
<1>2. SpecialBits(names) = a + b + c
  BY SpecialSum
<1> HIDE DEF a, b, c
<1>3. \E n \in 0..7 : a + b + c = 512 * n
  BY <1>1
<1> QED BY <1>2, <1>3

LEMMA ModeWords ==
  ASSUME NEW m, m.perm \in 0..511
  PROVE  FromFileMode(m) \in Uint32 /\ ToChmodPerm(m) \in Uint32
<1> DEFINE t == TypeCode(m.type)
<1>1. t \in 0..12 /\ m.perm \in 0..511
  BY TypeCodes
<1>2. ASSUME NEW names PROVE SpecialBits(names) \in 0..3584
  BY SpecialRange
<1>3. SpecialBits(m.special) \in 0..3584 /\ SpecialBits(m.special \union m.raw) \in 0..3584
  BY <1>2
<1> HIDE DEF t
<1> DEFINE s1 == SpecialBits(m.special)
<1> DEFINE s2 == SpecialBits(m.special \union m.raw)
<1> DEFINE perm == m.perm
<1>3a. /\ s1 \in Nat /\ s1 <= 3584 /\ s2 \in Nat /\ s2 <= 3584 /\ perm \in Nat /\ perm <= 511
       /\ t \in Nat /\ t <= 12
  <2>1. s1 \in 0..3584 /\ s2 \in 0..3584
    BY <1>2
  <2>2. perm \in 0..511 /\ t \in 0..12
    BY <1>1
  <2> HIDE DEF s1, s2, perm
  <2> QED BY <2>1, <2>2
<1> HIDE DEF s1, s2, perm
<1>4. t * 4096 + s1 + perm \in Uint32
  BY <1>3a, WordRange
<1>5. s2 + perm \in Uint32
  BY <1>3a, WordRange
<1> QED BY <1>4, <1>5 DEF FromFileMode, ToChmodPerm, t, s1, s2, perm

LEMMA CodeWords ==
  ASSUME NEW err \in OsErrors
  PROVE  StatusFromError(err) \in Uint32
<1>1. {FxOk, FxEOF, FxNoSuchFile, FxPermissionDenied, FxFailure} \subseteq Uint32
  BY WordRange DEF FxOk, FxEOF, FxNoSuchFile, FxPermissionDenied, FxFailure
<1>2. \A e : TranslateErrno(e) \in Uint32
  BY <1>1 DEF TranslateErrno
<1>3. err.class = "fxerr" => err.code \in Uint32
  BY DEF OsErrors
<1>4. StatusFromError(err) \in {FxOk, FxEOF, FxNoSuchFile, FxPermissionDenied, FxFailure}
      \/ StatusFromError(err) = TranslateErrno(err.errno)
      \/ (err.class = "fxerr" /\ StatusFromError(err) = err.code)
  BY DEF StatusFromError
<1> QED BY <1>1, <1>2, <1>3, <1>4

LEMMA PflagWords ==
  ASSUME NEW access, NEW bits
  PROVE  ToPflags(access, bits) \in Uint32
<1> DEFINE names == Accesses[access] \union bits
<1> DEFINE a == BitOf(names, "read", 1)
<1> DEFINE b == BitOf(names, "write", 2)
<1> DEFINE c == BitOf(names, "append", 4)
<1> DEFINE d == BitOf(names, "creat", 8)
<1> DEFINE e == BitOf(names, "trunc", 16)
<1> DEFINE f == BitOf(names, "excl", 32)
<1>1. a \in {0, 1} /\ b \in {0, 2} /\ c \in {0, 4} /\ d \in {0, 8} /\ e \in {0, 16} /\ f \in {0, 32}
  BY DEF BitOf
<1>2. ToPflags(access, bits) = a + b + c + d + e + f
  BY PflagsSum
<1> HIDE DEF a, b, c, d, e, f
<1>3. a + b + c + d + e + f \in Uint32
  BY <1>1, WordRange
<1> QED BY <1>2, <1>3

\* Attributes without any field, and with the permissions only.
LEMMA NoAttrsTyped == NoAttrs \in FileStats
<1>1. <<>> \in Counted(Pairs)
  BY WordRange DEF Counted
<1>2. 0 \in Uint32 /\ <<0, 0>> \in Uint32 \X Uint32
  BY WordRange
<1>3. NoAttrs \in [flags : Uint32, size : Uint32 \X Uint32, uid : Uint32, gid : Uint32, mode : Uint32,
                   atime : Uint32, mtime : Uint32, extended : Counted(Pairs)]
  BY <1>1, <1>2 DEF NoAttrs
<1> QED BY <1>3 DEF FileStats

LEMMA ChmodTyped ==
  ASSUME NEW mode \in Uint32
  PROVE  [NoAttrs EXCEPT !.flags = AttrPermissions, !.mode = mode] \in FileStats
<1> DEFINE fs == [NoAttrs EXCEPT !.flags = AttrPermissions, !.mode = mode]
<1>0. AttrPermissions = 4
  BY DEF AttrPermissions
<1>1. fs = [flags |-> 4, size |-> <<0, 0>>, uid |-> 0, gid |-> 0, mode |-> mode, atime |-> 0,
            mtime |-> 0, extended |-> <<>>]
  <2> DEFINE one == [NoAttrs EXCEPT !.flags = 4]
  <2>1. one = [flags |-> 4, size |-> <<0, 0>>, uid |-> 0, gid |-> 0, mode |-> 0, atime |-> 0,
               mtime |-> 0, extended |-> <<>>]
    BY DEF NoAttrs
  <2>2. fs = [one EXCEPT !.mode = mode]
    BY <1>0
  <2> HIDE DEF one, fs
  <2> QED BY <2>1, <2>2
<1> HIDE DEF fs
<1>2. <<>> \in Counted(Pairs)
  BY WordRange DEF Counted
<1>3. 0 \in Uint32 /\ <<0, 0>> \in Uint32 \X Uint32 /\ 4 \in Uint32
  BY WordRange
<1>4. fs \in [flags : Uint32, size : Uint32 \X Uint32, uid : Uint32, gid : Uint32, mode : Uint32,
              atime : Uint32, mtime : Uint32, extended : Counted(Pairs)]
  BY <1>1, <1>2, <1>3
<1>5. "mode" \in Announced(fs.flags)
  <2>1. HasFlag(fs.flags, AttrPermissions)
    BY <1>1 DEF HasFlag, AttrPermissions
  <2> QED BY <2>1, FlagsAnnounce
<1>6. ASSUME NEW f \in AttrNames,
             \A i \in DOMAIN FileStatFields(fs.flags) : FileStatFields(fs.flags)[i] # f
      PROVE  fs[f] = NoAttrs[f]
  <2>1. f # "mode" /\ f \in {"size", "uid", "gid", "mode", "atime", "mtime", "extended"}
    BY <1>5, <1>6 DEF Announced, AttrNames
  <2> QED BY <1>1, <2>1 DEF NoAttrs
<1>7. fs \in FileStats
  BY <1>4, <1>6 DEF FileStats
<1> QED BY <1>7 DEF fs

\* The file information of the os package.
InfoStat(fi, flags, mtime) ==
  [flags |-> flags, size |-> fi.size, uid |-> IF fi.owner # <<>> THEN fi.owner[1] ELSE 0,
   gid |-> IF fi.owner # <<>> THEN fi.owner[2] ELSE 0, mode |-> FromFileMode(fi.mode),
   atime |-> mtime, mtime |-> mtime, extended |-> fi.extended]

LEMMA InfoFields ==
  ASSUME NEW fi \in FileInfos
  PROVE  \E flags \in Uint32 :
           /\ FileStatFromInfo(fi) = InfoStat(fi, flags, fi.mtime)
           /\ HasFlag(flags, AttrSize) /\ HasFlag(flags, AttrPermissions) /\ HasFlag(flags, AttrACmodTime)
           /\ fi.owner # <<>> => HasFlag(flags, AttrUIDGID)
           /\ fi.extended # <<>> => HasFlag(flags, AttrExtended)
<1> DEFINE o == IF fi.owner # <<>> THEN 2 ELSE 0
<1> DEFINE x == IF fi.extended # <<>> THEN 32768 ELSE 0
<1> DEFINE flags == 1 + 4 + 8 + o + x
<1>0. AttrSize = 1 /\ AttrUIDGID = 2 /\ AttrPermissions = 4 /\ AttrACmodTime = 8 /\ AttrExtended = 32768
  BY DEF AttrSize, AttrUIDGID, AttrPermissions, AttrACmodTime, AttrExtended
<1>1. o \in {0, 2} /\ x \in {0, 32768} /\ (fi.owner # <<>> => o = 2) /\ (fi.extended # <<>> => x = 32768)
  OBVIOUS
<1>2. AttrSize + AttrPermissions + AttrACmodTime + (IF fi.owner # <<>> THEN AttrUIDGID ELSE 0)
        + (IF fi.extended # <<>> THEN AttrExtended ELSE 0) = flags
  BY <1>0
<1>3. fi.mtime % Base^WordLen = fi.mtime
  <2>1. fi.mtime \in Nat /\ fi.mtime < 65536
    BY WordRange DEF FileInfos
  <2>2. Base^WordLen = 65536
    BY DEF Base, WordLen
  <2>3. fi.mtime % 65536 = fi.mtime
    BY <2>1
  <2> QED BY <2>2, <2>3
<1>4. FileStatFromInfo(fi)
        = [NoAttrs EXCEPT !.flags = flags, !.size = fi.size, !.mode = FromFileMode(fi.mode),
                    !.mtime = fi.mtime, !.atime = fi.mtime,
                    !.uid = IF fi.owner # <<>> THEN fi.owner[1] ELSE 0,
                    !.gid = IF fi.owner # <<>> THEN fi.owner[2] ELSE 0,
                    !.extended = fi.extended]
  <2> HIDE DEF flags
  <2> QED BY <1>2, <1>3, Zenon DEF FileStatFromInfo
<1> HIDE DEF o, x
<1>5. flags \in Uint32 /\ HasFlag(flags, 1) /\ HasFlag(flags, 4) /\ HasFlag(flags, 8)
      /\ (o = 2 => HasFlag(flags, 2)) /\ (x = 32768 => HasFlag(flags, 32768))
  BY <1>1, WordRange DEF HasFlag
<1> HIDE DEF flags
<1>6. FileStatFromInfo(fi) = InfoStat(fi, flags, fi.mtime)
  BY <1>4 DEF InfoStat, NoAttrs
<1> QED BY <1>0, <1>1, <1>5, <1>6

LEMMA InfoTyped ==
  ASSUME NEW fi \in FileInfos
  PROVE  FileStatFromInfo(fi) \in FileStats
<1>1. PICK flags \in Uint32 :
        /\ FileStatFromInfo(fi) = InfoStat(fi, flags, fi.mtime)
        /\ HasFlag(flags, AttrSize) /\ HasFlag(flags, AttrPermissions) /\ HasFlag(flags, AttrACmodTime)
        /\ fi.owner # <<>> => HasFlag(flags, AttrUIDGID)
        /\ fi.extended # <<>> => HasFlag(flags, AttrExtended)
  BY InfoFields
<1> DEFINE fs == InfoStat(fi, flags, fi.mtime)
<1>2. /\ fi.size \in Uint32 \X Uint32 /\ fi.mtime \in Uint32 /\ fi.extended \in Counted(Pairs)
      /\ fi.owner \in {<<>>} \union (Uint32 \X Uint32) /\ fi.mode \in FileModes
  BY DEF FileInfos
<1>3. FromFileMode(fi.mode) \in Uint32
  <2>1. fi.mode.perm \in 0..511
    BY <1>2 DEF FileModes
  <2> QED BY <2>1, ModeWords
<1>4. 0 \in Uint32
  BY WordRange
<1>5. /\ (IF fi.owner # <<>> THEN fi.owner[1] ELSE 0) \in Uint32
      /\ (IF fi.owner # <<>> THEN fi.owner[2] ELSE 0) \in Uint32
  BY <1>2, <1>4
<1>6. fs \in [flags : Uint32, size : Uint32 \X Uint32, uid : Uint32, gid : Uint32, mode : Uint32,
              atime : Uint32, mtime : Uint32, extended : Counted(Pairs)]
  BY <1>1, <1>2, <1>3, <1>5 DEF InfoStat
<1>7. /\ fs.flags = flags /\ (fi.owner = <<>> => fs["uid"] = 0 /\ fs["gid"] = 0) /\ fs["extended"] = fi.extended
  BY DEF InfoStat
<1> HIDE DEF fs
<1>8. ASSUME NEW f \in AttrNames,
             \A i \in DOMAIN FileStatFields(fs.flags) : FileStatFields(fs.flags)[i] # f
      PROVE  fs[f] = NoAttrs[f]
  <2>1. f \notin Announced(flags) /\ f \in {"size", "uid", "gid", "mode", "atime", "mtime", "extended"}
    BY <1>7, <1>8 DEF Announced, AttrNames
  <2>2. f # "size" /\ f # "mode" /\ f # "atime" /\ f # "mtime"
    BY <1>1, <2>1, FlagsAnnounce
  <2>3. CASE f = "uid" \/ f = "gid"
    <3>1. fi.owner = <<>>
      BY <1>1, <2>1, <2>3, FlagsAnnounce
    <3> QED BY <1>7, <2>3, <3>1 DEF NoAttrs
  <2>4. CASE f = "extended"
    <3>1. fi.extended = <<>>
      BY <1>1, <2>1, <2>4, FlagsAnnounce
    <3> QED BY <1>7, <2>4, <3>1 DEF NoAttrs
  <2> QED BY <2>1, <2>2, <2>3, <2>4
<1>9. fs \in FileStats
  BY <1>6, <1>8 DEF FileStats
<1> QED BY <1>1, <1>9 DEF fs

-----------------------------------------------------------------------------
(* The numbers of the packets.                                             *)

ExtKinds == {"hardlink", "posixrename", "statvfs", "fsync", "fstatvfs"}
Kinds    == CommonKinds \union {"fsync", "fstatvfs"}

LEMMA TypeTables ==
  /\ DOMAIN ExtName = ExtKinds
  /\ DOMAIN StandardType = CommonKinds \ ExtKinds
  /\ \A kind \in ExtKinds : PacketType[kind] = 200
  /\ \A kind \in CommonKinds \ ExtKinds : PacketType[kind] = StandardType[kind]
<1>1. DOMAIN ExtName = ExtKinds
  BY DEF ExtName, ExtKinds
<1>2. DOMAIN StandardType = CommonKinds \ ExtKinds
  BY DEF StandardType, CommonKinds, HandleKinds, PathKinds, OtherKinds, ExtKinds
<1> DEFINE exts == [kind \in DOMAIN ExtName |-> 200]
<1> DEFINE tables == {StandardType, exts}
<1>3. PacketType = Combined(tables) /\ DOMAIN exts = ExtKinds /\ \A kind \in ExtKinds : exts[kind] = 200
  BY <1>1 DEF PacketType
<1>4. exts \in tables /\ StandardType \in tables /\ \A t \in tables : t = exts \/ t = StandardType
  OBVIOUS
<1> HIDE DEF exts, tables
<1>5. ASSUME NEW kind \in ExtKinds PROVE PacketType[kind] = 200
  <2>1. \A u \in tables : kind \in DOMAIN u => u = exts
    BY <1>2, <1>4
  <2>2. kind \in DOMAIN exts
    BY <1>3
  <2>3. Combined(tables)[kind] = exts[kind]
    BY <1>4, <2>1, <2>2, CombinedAt
  <2> QED BY <1>3, <2>3
<1>6. ASSUME NEW kind \in CommonKinds \ ExtKinds PROVE PacketType[kind] = StandardType[kind]
  <2>1. \A u \in tables : kind \in DOMAIN u => u = StandardType
    BY <1>3, <1>4
  <2>2. kind \in DOMAIN StandardType
    BY <1>2
  <2>3. Combined(tables)[kind] = StandardType[kind]
    BY <1>4, <2>1, <2>2, CombinedAt
  <2> QED BY <1>3, <2>3
<1> QED BY <1>1, <1>2, <1>5, <1>6

LEMMA ByteRange == \A n : n \in Bytes <=> (n \in Nat /\ n <= 255)
<1>1. Base - 1 = 255
  BY DEF Base
<1> QED BY <1>1 DEF Bytes

LEMMA TypesAreBytes == \A kind \in Kinds : PacketType[kind] \in Bytes
<1>1. ASSUME NEW kind \in DOMAIN StandardType
      PROVE  StandardType[kind] \in Nat /\ StandardType[kind] <= 255
  BY DEF StandardType
<1>2. 200 \in Nat /\ 200 <= 255
  OBVIOUS
<1>3. ASSUME NEW kind \in Kinds PROVE PacketType[kind] \in Nat /\ PacketType[kind] <= 255
  <2>1. kind \in ExtKinds \/ kind \in CommonKinds \ ExtKinds
    BY DEF Kinds, ExtKinds
  <2> QED BY <1>1, <1>2, <2>1, TypeTables
<1> QED BY <1>3, ByteRange

-----------------------------------------------------------------------------
(* What is sent.                                                           *)

LEMMA FieldsAreBytes ==
  ASSUME NEW layout, GoodLayout(layout), NEW p, \A i \in DOMAIN layout : p[layout[i]] \in Values(TypeOf[layout[i]])
  PROVE  MarshalFields(layout, p) \in Seq(Bytes)
<1>1. layout \in Seq(DOMAIN TypeOf)
  BY DEF GoodLayout, ProperLayout
<1> DEFINE n == Len(layout)
<1>2. n \in Nat /\ DOMAIN layout = 1..n
  BY <1>1
<1> HIDE DEF n
<1>3. \A i \in 1..n : p[layout[i]] \in Values(TypeOf[layout[i]])
  BY <1>2
<1>4. FlattenSeq([i \in 1..n |-> Marshal(TypeOf[layout[i]], p[layout[i]])]) \in Seq(Bytes)
  BY <1>2, <1>3, FirstAreBytes
<1>5. MarshalFields(layout, p) = FlattenSeq([i \in 1..n |-> Marshal(TypeOf[layout[i]], p[layout[i]])])
  BY <1>2, Zenon DEF MarshalFields
<1> QED BY <1>4, <1>5

Codec == {"sftp", "sshfx"}

LEMMA BodyBytes ==
  ASSUME NEW codec \in Codec, NEW packet, Encodes(codec, packet.kind), Sendable(codec, packet)
  PROVE  LET layout == Layout(codec, packet.kind) IN
           /\ packet.kind \in Kinds /\ GoodLayout(layout)
           /\ \A i \in DOMAIN layout : packet.p[layout[i]] \in Values(TypeOf[layout[i]])
           /\ Body(codec, packet) = MarshalFields(layout, packet.p)
           /\ Body(codec, packet) \in Seq(Bytes)
<1> DEFINE layout == Layout(codec, packet.kind)
<1>1. packet.kind \in Kinds /\ GoodLayout(layout)
  <2>1. CASE codec = "sftp"
    <3>1. packet.kind \in DOMAIN Sent /\ layout = Sent[packet.kind].marshal
      BY <2>1 DEF Encodes, Layout
    <3> QED BY <3>1, GoodTables, ReadTables DEF Kinds
  <2>2. CASE codec = "sshfx"
    <3>1. packet.kind \in DOMAIN FxLayout /\ layout = FxLayout[packet.kind]
      BY <2>2 DEF Encodes, Layout
    <3> QED BY <3>1, GoodTables, FxTable DEF Kinds
  <2> QED BY <2>1, <2>2 DEF Codec
<1>2. \A i \in DOMAIN layout : packet.p[layout[i]] \in Values(TypeOf[layout[i]])
  <2>1. \A f \in Range(layout) : packet.p[f] \in Values(TypeOf[f])
    BY DEF Sendable
  <2>2. \A i \in DOMAIN layout : layout[i] \in Range(layout)
    BY DEF Range
  <2> QED BY <2>1, <2>2
<1>3. Body(codec, packet) = MarshalFields(layout, packet.p)
  <2>1. CASE codec = "sftp"
    BY <2>1 DEF Body, Layout, MarshalPacket
  <2>2. CASE codec = "sshfx"
    <3>1. Body(codec, packet) = FxMarshalFields(layout, packet.p)
      BY <2>2 DEF Body, Layout, FxMarshalPacket
    <3> HIDE DEF layout
    <3> QED BY <1>1, <1>2, <3>1, FieldsSame
  <2> QED BY <2>1, <2>2 DEF Codec
<1> HIDE DEF layout
<1>4. MarshalFields(layout, packet.p) \in Seq(Bytes)
  BY <1>1, <1>2, FieldsAreBytes
<1> QED BY <1>1, <1>2, <1>3, <1>4 DEF layout

LEMMA FrameBytes ==
  ASSUME NEW codec \in Codec, NEW packet, Encodes(codec, packet.kind), Sendable(codec, packet)
  PROVE  LET body == Body(codec, packet)
             type == PacketType[packet.kind] IN
           /\ type \in Bytes /\ body \in Seq(Bytes)
           /\ 1 + Len(body) \in Uint32 /\ 1 + Len(body) <= MaxMsgLength
           /\ Frame(codec, packet) = SendPacket(type, body)
           /\ Frame(codec, packet) \in Seq(Bytes)
           /\ Len(Frame(codec, packet)) = WordLen + 1 + Len(body)
<1> DEFINE body == Body(codec, packet)
<1> DEFINE type == PacketType[packet.kind]
<1>1. type \in Bytes /\ body \in Seq(Bytes)
  BY BodyBytes, TypesAreBytes
<1>2. 1 + Len(body) \in Uint32 /\ 1 + Len(body) <= MaxMsgLength
  BY MaxMsgLengthAssumption DEF Sendable, Fits
<1>3. Frame(codec, packet) = SendPacket(type, body)
  BY <1>2, FxFrameSame DEF Frame
<1> HIDE DEF body, type
<1>4. MarshalUint32(1 + Len(body)) \in Seq(Bytes) /\ Len(MarshalUint32(1 + Len(body))) = WordLen
  BY <1>2, Uint32Bytes
<1>5. SendPacket(type, body) \in Seq(Bytes) /\ Len(SendPacket(type, body)) = WordLen + 1 + Len(body)
  <2> DEFINE head == MarshalUint32(1 + Len(body))
  <2>1. <<type>> \in Seq(Bytes) /\ Len(<<type>>) = 1 /\ head \in Seq(Bytes) /\ Len(head) = WordLen
    BY <1>1, <1>4
  <2>2. SendPacket(type, body) = (head \o <<type>>) \o body
    BY DEF SendPacket
  <2> HIDE DEF head
  <2>3. head \o <<type>> \in Seq(Bytes) /\ Len(head \o <<type>>) = WordLen + 1
    BY <2>1, Concat
  <2>4. Len(<<type>>) = 1 /\ (head \o <<type>>) \o body \in Seq(Bytes)
        /\ Len((head \o <<type>>) \o body) = WordLen + 1 + Len(body)
    BY <1>1, <2>1, <2>3, Concat
  <2> QED BY <2>2, <2>4
<1> QED BY <1>1, <1>2, <1>3, <1>5 DEF body, type

LEMMA FieldTypings ==
  /\ Values(TypeOf["id"]) = Uint32 /\ Values(TypeOf["code"]) = Uint32 /\ Values(TypeOf["pflags"]) = Uint32
  /\ Values(TypeOf["handle"]) = Texts /\ Values(TypeOf["msg"]) = Texts /\ Values(TypeOf["lang"]) = Texts
  /\ Values(TypeOf["path"]) = Texts /\ Values(TypeOf["attrs"]) = FileStats
<1>1. /\ TypeOf["id"] = "uint32" /\ TypeOf["code"] = "uint32" /\ TypeOf["pflags"] = "uint32"
      /\ TypeOf["handle"] = "string" /\ TypeOf["msg"] = "string" /\ TypeOf["lang"] = "string"
      /\ TypeOf["path"] = "string" /\ TypeOf["attrs"] = "attrs"
  BY DEF TypeOf
<1> QED BY <1>1 DEF Values, BasicValues

LEMMA SmallValues ==
  3 \in Uint32 /\ 7 \in Uint32 /\ <<1>> \in Texts /\ <<9>> \in Texts /\ <<>> \in Texts
<1>1. 3 \in Uint32 /\ 7 \in Uint32 /\ 0 \in Uint32 /\ 1 \in Uint32
  BY WordRange
<1>2. 1 \in Bytes /\ 9 \in Bytes
  BY ByteRange
<1> QED BY <1>1, <1>2 DEF Texts

\* The close that follows, and what the package makes of a value, can be sent.
LEMMA FollowerSendable ==
  ASSUME NEW codec \in Codec
  PROVE  Encodes(codec, Follower.kind) /\ Sendable(codec, Follower)
<1>1. Follower.kind = "close" /\ Follower.p = [id |-> 7, handle |-> <<9>>]
  BY DEF Follower
<1>2. Encodes(codec, "close") /\ Layout(codec, "close") = <<"id", "handle">>
  <2>1. "close" \in CommonKinds /\ LayoutOf("close") = <<"id", "handle">>
        /\ FxLayoutOf("close") = LayoutOf("close")
    <3>1. "close" \in HandleKinds
      BY DEF HandleKinds
    <3>2. LayoutOf("close") = <<"id", "handle">>
      BY DEF LayoutOf, HandleKinds, PathKinds
    <3>3. FxLayoutOf("close") = LayoutOf("close")
      BY DEF FxLayoutOf
    <3> QED BY <3>1, <3>2, <3>3 DEF CommonKinds
  <2> QED BY <2>1, ReadTables, FxTable, SentLayouts, FxLayouts DEF Encodes, Layout
<1>3. \A f \in Range(<<"id", "handle">>) : Follower.p[f] \in Values(TypeOf[f])
  <2>1. \A f \in Range(<<"id", "handle">>) : f = "id" \/ f = "handle"
    BY DEF Range
  <2>2. Follower.p["id"] = 7 /\ Follower.p["handle"] = <<9>>
    BY <1>1
  <2> QED BY <2>1, <2>2, FieldTypings, SmallValues
<1>4. "close" \notin DOMAIN ExtName
  BY DEF ExtName
<1>5. Fits(codec, Follower)
  BY CodecsAssumption DEF Codec
<1> QED BY <1>1, <1>2, <1>3, <1>4, <1>5 DEF Sendable

LEMMA CarriedParts ==
  ASSUME NEW c \in Carried
  PROVE  /\ Fits("sftp", PacketFor(c))
         /\ \/ c.what = "info" /\ c.v \in FileInfos
            \/ c.what = "error" /\ c.v \in OsErrors
            \/ c.what = "open" /\ c.v \in OpenFlags
            \/ c.what = "chmod" /\ c.v \in FileModes
BY CodecsAssumption DEF OsValues

LEMMA PacketsFor ==
  ASSUME NEW c
  PROVE  /\ c.what = "info" => PacketFor(c) = [kind |-> "attrs", p |-> [id |-> 3, attrs |-> FileStatFromInfo(c.v)]]
         /\ c.what = "error" => PacketFor(c) = [kind |-> "status", p |-> [id |-> 3, code |-> StatusFromError(c.v),
                                                      msg |-> <<1>>, lang |-> <<>>]]
         /\ c.what = "open" => PacketFor(c) = [kind |-> "open", p |-> [id |-> 3, path |-> <<1>>, attrs |-> NoAttrs,
                                                    pflags |-> ToPflags(c.v.access, c.v.bits)]]
         /\ c.what = "chmod" => PacketFor(c) =
              [kind |-> "setstat", p |-> [id |-> 3, path |-> <<1>>,
                 attrs |-> [NoAttrs EXCEPT !.flags = AttrPermissions, !.mode = ToChmodPerm(c.v)]]]
<1>1. c.what = "info" => PacketFor(c) = [kind |-> "attrs", p |-> [id |-> 3, attrs |-> FileStatFromInfo(c.v)]]
  BY DEF PacketFor
<1>2. c.what = "error" => PacketFor(c) = [kind |-> "status", p |-> [id |-> 3, code |-> StatusFromError(c.v),
                                                      msg |-> <<1>>, lang |-> <<>>]]
  BY DEF PacketFor
<1>3. c.what = "open" => PacketFor(c) = [kind |-> "open", p |-> [id |-> 3, path |-> <<1>>, attrs |-> NoAttrs,
                                                    pflags |-> ToPflags(c.v.access, c.v.bits)]]
  BY DEF PacketFor
<1>4. c.what = "chmod" => PacketFor(c) =
              [kind |-> "setstat", p |-> [id |-> 3, path |-> <<1>>,
                 attrs |-> [NoAttrs EXCEPT !.flags = AttrPermissions, !.mode = ToChmodPerm(c.v)]]]
  BY Zenon DEF PacketFor
<1> QED BY <1>1, <1>2, <1>3, <1>4

LEMMA CarriedLayouts ==
  /\ {"attrs", "status", "open", "setstat"} \subseteq DOMAIN Sent \ DOMAIN ExtName
  /\ "mkdir" \notin {"attrs", "status", "open", "setstat"}
  /\ Layout("sftp", "attrs") = <<"id", "attrs">>
  /\ Layout("sftp", "status") = <<"id", "code", "msg", "lang">>
  /\ Layout("sftp", "open") = <<"id", "path", "pflags", "attrs">>
  /\ Layout("sftp", "setstat") = <<"id", "path", "attrs">>
<1>1. {"attrs", "status", "open", "setstat"} \subseteq CommonKinds
  BY DEF CommonKinds, OtherKinds
<1>2. {"attrs", "status", "open", "setstat"} \intersect ExtKinds = {}
  BY DEF ExtKinds
<1>3. /\ LayoutOf("attrs") = <<"id", "attrs">>
      /\ LayoutOf("status") = <<"id", "code", "msg", "lang">>
      /\ LayoutOf("open") = <<"id", "path", "pflags", "attrs">>
      /\ LayoutOf("setstat") = <<"id", "path", "attrs">>
  BY DEF LayoutOf, HandleKinds, PathKinds
<1> QED BY <1>1, <1>2, <1>3, TypeTables, ReadTables, SentLayouts DEF Layout

LEMMA CarriedSendable ==
  ASSUME NEW c \in Carried
  PROVE  Encodes("sftp", PacketFor(c).kind) /\ Sendable("sftp", PacketFor(c))
<1> DEFINE packet == PacketFor(c)
<1>1. Fits("sftp", packet)
  BY CarriedParts
<1>2. ASSUME packet.kind \in {"attrs", "status", "open", "setstat"},
             \A f \in Range(Layout("sftp", packet.kind)) : packet.p[f] \in Values(TypeOf[f])
      PROVE  Encodes("sftp", packet.kind) /\ Sendable("sftp", packet)
  <2>1. packet.kind \in DOMAIN Sent /\ packet.kind \notin DOMAIN ExtName /\ packet.kind # "mkdir"
    BY <1>2, CarriedLayouts
  <2> QED BY <1>1, <1>2, <2>1 DEF Encodes, Sendable
<1> HIDE DEF packet
<1>3. CASE c.what = "info"
  <2>1. packet = [kind |-> "attrs", p |-> [id |-> 3, attrs |-> FileStatFromInfo(c.v)]] /\ c.v \in FileInfos
    BY <1>3, PacketsFor, CarriedParts DEF packet
  <2>2. packet.kind = "attrs" /\ packet.p["id"] = 3 /\ packet.p["attrs"] = FileStatFromInfo(c.v)
    BY <2>1
  <2>3. \A f \in Range(<<"id", "attrs">>) : f = "id" \/ f = "attrs"
    BY DEF Range
  <2>4. FileStatFromInfo(c.v) \in FileStats
    BY <2>1, InfoTyped
  <2>5. \A f \in Range(Layout("sftp", packet.kind)) : packet.p[f] \in Values(TypeOf[f])
    BY <2>2, <2>3, <2>4, CarriedLayouts, FieldTypings, SmallValues
  <2> QED BY <1>2, <2>2, <2>5 DEF packet
<1>4. CASE c.what = "error"
  <2>1. packet = [kind |-> "status", p |-> [id |-> 3, code |-> StatusFromError(c.v), msg |-> <<1>>, lang |-> <<>>]]
        /\ c.v \in OsErrors
    BY <1>4, PacketsFor, CarriedParts DEF packet
  <2>2. /\ packet.kind = "status" /\ packet.p["id"] = 3 /\ packet.p["code"] = StatusFromError(c.v)
        /\ packet.p["msg"] = <<1>> /\ packet.p["lang"] = <<>>
    BY <2>1
  <2>3. \A f \in Range(<<"id", "code", "msg", "lang">>) : f = "id" \/ f = "code" \/ f = "msg" \/ f = "lang"
    BY DEF Range
  <2>4. StatusFromError(c.v) \in Uint32
    BY <2>1, CodeWords
  <2>5. \A f \in Range(Layout("sftp", packet.kind)) : packet.p[f] \in Values(TypeOf[f])
    BY <2>2, <2>3, <2>4, CarriedLayouts, FieldTypings, SmallValues
  <2> QED BY <1>2, <2>2, <2>5 DEF packet
<1>5. CASE c.what = "open"
  <2>1. packet = [kind |-> "open", p |-> [id |-> 3, path |-> <<1>>, attrs |-> NoAttrs,
                                          pflags |-> ToPflags(c.v.access, c.v.bits)]]
    BY <1>5, PacketsFor DEF packet
  <2>2. /\ packet.kind = "open" /\ packet.p["id"] = 3 /\ packet.p["path"] = <<1>>
        /\ packet.p["attrs"] = NoAttrs /\ packet.p["pflags"] = ToPflags(c.v.access, c.v.bits)
    <3> HIDE DEF packet
    <3> DEFINE w == ToPflags(c.v.access, c.v.bits)
    <3> HIDE DEF w
    <3>1. packet = [kind |-> "open", p |-> [id |-> 3, path |-> <<1>>, attrs |-> NoAttrs, pflags |-> w]]
      BY <2>1 DEF w
    <3>2. /\ packet.kind = "open" /\ packet.p["id"] = 3 /\ packet.p["path"] = <<1>>
          /\ packet.p["attrs"] = NoAttrs /\ packet.p["pflags"] = w
      BY <3>1
    <3> QED BY <3>2 DEF w
  <2>3. \A f \in Range(<<"id", "path", "pflags", "attrs">>) : f = "id" \/ f = "path" \/ f = "pflags" \/ f = "attrs"
    BY DEF Range
  <2>4. ToPflags(c.v.access, c.v.bits) \in Uint32
    BY PflagWords
  <2>5. \A f \in Range(Layout("sftp", packet.kind)) : packet.p[f] \in Values(TypeOf[f])
    BY <2>2, <2>3, <2>4, CarriedLayouts, FieldTypings, SmallValues, NoAttrsTyped
  <2> QED BY <1>2, <2>2, <2>5 DEF packet
<1>6. CASE c.what = "chmod"
  <2> DEFINE fs == [NoAttrs EXCEPT !.flags = AttrPermissions, !.mode = ToChmodPerm(c.v)]
  <2>0. c.v \in FileModes
    BY <1>6, CarriedParts
  <2>1. packet = [kind |-> "setstat", p |-> [id |-> 3, path |-> <<1>>, attrs |-> fs]]
    BY <1>6, PacketsFor DEF packet
  <2>2. fs \in FileStats
    <3>1. c.v.perm \in 0..511
      BY <2>0 DEF FileModes
    <3>2. ToChmodPerm(c.v) \in Uint32
      BY <3>1, ModeWords
    <3> QED BY <3>2, ChmodTyped
  <2> HIDE DEF fs
  <2>3. packet.kind = "setstat" /\ packet.p["id"] = 3 /\ packet.p["path"] = <<1>> /\ packet.p["attrs"] = fs
    BY <2>1
  <2>4. \A f \in Range(<<"id", "path", "attrs">>) : f = "id" \/ f = "path" \/ f = "attrs"
    BY DEF Range
  <2>5. \A f \in Range(Layout("sftp", packet.kind)) : packet.p[f] \in Values(TypeOf[f])
    BY <2>2, <2>3, <2>4, CarriedLayouts, FieldTypings, SmallValues
  <2> QED BY <1>2, <2>3, <2>5 DEF packet
<1> QED BY <1>3, <1>4, <1>5, <1>6, CarriedParts

-----------------------------------------------------------------------------
(* The system: what never changes, and what is under way.                  *)

Setting ==
  /\ sender \in Codec /\ receiver \in Codec
  /\ Encodes(sender, sample.kind) /\ Sendable(sender, sample)
  /\ carried # Nothing => /\ carried \in Carried /\ sender = "sftp" /\ receiver = "sftp"
                          /\ sample = PacketFor(carried)

Underway == stream \in Seq(Bytes) /\ received \in Seq(ReceivedBy(receiver))

LEMMA InitSetting == Init => Setting
<1> SUFFICES ASSUME Init PROVE Setting
  OBVIOUS
<1>1. sender \in Codec /\ receiver \in Codec
  BY DEF Init, Codec
<1>2. CASE sample \in {s \in Samples : Encodes(sender, s.kind) /\ Sendable(sender, s)} /\ carried = Nothing
  BY <1>1, <1>2 DEF Setting
<1>3. CASE carried \in Carried /\ sender = "sftp" /\ receiver = "sftp" /\ sample = PacketFor(carried)
  BY <1>1, <1>3, CarriedSendable DEF Setting
<1> QED BY <1>2, <1>3 DEF Init

LEMMA SettingKept == Setting /\ [Next]_vars => Setting'
<1> SUFFICES ASSUME Setting, [Next]_vars PROVE Setting'
  OBVIOUS
<1>1. UNCHANGED <<sender, receiver, sample, carried>>
  BY DEF Next, vars, Cut, Alter, Receive, TakeFrame
<1> QED BY <1>1 DEF Setting

LEMMA InitUnderway == Init => Underway
<1> SUFFICES ASSUME Init PROVE Underway
  OBVIOUS
<1>1. Setting
  BY InitSetting
<1>2. Frame(sender, sample) \in Seq(Bytes)
  BY <1>1, FrameBytes DEF Setting
<1>3. Frame(sender, Follower) \in Seq(Bytes)
  BY <1>1, FrameBytes, FollowerSendable DEF Setting
<1>4. stream = Frame(sender, sample) \o Frame(sender, Follower) /\ received = <<>>
  BY DEF Init
<1>5. stream \in Seq(Bytes)
  BY <1>2, <1>3, <1>4
<1> QED BY <1>4, <1>5 DEF Underway

LEMMA FrameTaken ==
  ASSUME receiver \in Codec, Underway, status = "ok", TakeFrame(ReadFrame)
  PROVE  Underway'
<1> DEFINE frame == ReadFrame
<1>1. receiver' = receiver
  BY DEF TakeFrame
<1>2. FrameRead(frame)
  BY FramesRead DEF ReadFrame, Underway
<1>3. CASE frame.status = "ok"
  <2>1. frame.body \in Seq(Bytes) /\ frame.rest \in Seq(Bytes)
    BY <1>2, <1>3 DEF FrameRead
  <2>2. received' = Append(received, Decoded(frame.type, frame.body)) /\ stream' = frame.rest
    BY <1>3 DEF TakeFrame
  <2> HIDE DEF frame
  <2>3. Decoded(frame.type, frame.body) \in ReceivedBy(receiver)
    BY <2>1, DecodedIsReceived DEF Codec
  <2>4. received' \in Seq(ReceivedBy(receiver))
    BY <2>2, <2>3 DEF Underway
  <2> QED BY <1>1, <2>1, <2>2, <2>4 DEF Underway, ReceivedBy
<1>4. CASE frame.status # "ok"
  <2>1. received' = received /\ stream' = stream
    BY <1>4 DEF TakeFrame
  <2> QED BY <1>1, <2>1 DEF Underway, ReceivedBy
<1> QED BY <1>3, <1>4

LEMMA UnderwayKept == Setting /\ Underway /\ [Next]_vars => Underway'
<1> SUFFICES ASSUME Setting, Underway, [Next]_vars PROVE Underway'
  OBVIOUS
<1>1. ASSUME NEW n \in 0..(Len(stream) - 1), Cut(n) PROVE Underway'
  <2>1. stream' = SubSeq(stream, 1, n) /\ received' = received /\ receiver' = receiver
    BY <1>1 DEF Cut
  <2>2. stream' \in Seq(Bytes)
    BY <1>1, <2>1 DEF Underway
  <2> QED BY <2>1, <2>2 DEF Underway, ReceivedBy
<1>2. ASSUME NEW i \in 1..Len(Frame(sender, sample)), NEW b \in AlterTo, Alter(i, b) PROVE Underway'
  <2>1. stream' = [stream EXCEPT ![i] = b] /\ received' = received /\ receiver' = receiver
    BY <1>2 DEF Alter
  <2>2. b \in Bytes
    BY <1>2, CodecsAssumption
  <2>3. stream' \in Seq(Bytes)
    <3>1. stream \in [1..Len(stream) -> Bytes] /\ Len(stream) \in Nat
      BY DEF Underway
    <3>2. stream' \in [1..Len(stream) -> Bytes]
      BY <2>1, <2>2, <3>1
    <3> QED BY <3>1, <3>2
  <2> QED BY <2>1, <2>3 DEF Underway, ReceivedBy
<1>3. CASE Receive
  BY <1>3, FrameTaken DEF Receive, Setting
<1>4. CASE UNCHANGED vars
  BY <1>4 DEF vars, Underway, ReceivedBy
<1> QED BY <1>1, <1>2, <1>3, <1>4 DEF Next

LEMMA UnderwayIsHonest == Setting /\ Underway => NothingInvented
<1> SUFFICES ASSUME Setting, Underway, NEW k \in DOMAIN received
             PROVE  LET e == received[k] IN
                      (~ e.failed /\ ~ (e.kind = "version" /\ receiver = "sshfx")) =>
                        IsPrefix(IF receiver = "sftp" THEN MarshalFields(SureFields(e.kind), e.p)
                                                      ELSE FxMarshalFields(FxLayout[e.kind], e.p), e.body)
  BY DEF NothingInvented
<1>1. received[k] \in ReceivedBy(receiver) /\ receiver \in {"sftp", "sshfx"}
  BY DEF Underway, Setting, Codec
<1>2. Honest(receiver, received[k])
  BY <1>1, ReceivedAreHonest
<1> QED BY <1>2 DEF Honest

\* NothingInvented holds for all packets, all alterations of a byte and both codecs: whatever
\* a decoder takes from the bytes of a packet, encoding it again gives these bytes.  The
\* decoders of packet.go and of sshfx check each length against what is left of the packet.
THEOREM NothingInventedAlways == Spec => []NothingInvented
<1>1. Init => Setting /\ Underway
  BY InitSetting, InitUnderway
<1>2. (Setting /\ Underway) /\ [Next]_vars => (Setting /\ Underway)'
  BY SettingKept, UnderwayKept
<1>3. Setting /\ Underway => NothingInvented
  BY UnderwayIsHonest
<1> QED BY <1>1, <1>2, <1>3, PTL DEF Spec

-----------------------------------------------------------------------------
(* A packet is recognised by its type, and an extended one by its name.    *)

KindNumbered(n) ==
  CASE n = 1 -> "init" [] n = 2 -> "version" [] n = 3 -> "open" [] n = 4 -> "close" [] n = 5 -> "read"
    [] n = 6 -> "write" [] n = 7 -> "lstat" [] n = 8 -> "fstat" [] n = 9 -> "setstat"
    [] n = 10 -> "fsetstat" [] n = 11 -> "opendir" [] n = 12 -> "readdir" [] n = 13 -> "remove"
    [] n = 14 -> "mkdir" [] n = 15 -> "rmdir" [] n = 16 -> "realpath" [] n = 17 -> "stat"
    [] n = 18 -> "rename" [] n = 19 -> "readlink" [] n = 20 -> "symlink" [] n = 101 -> "status"
    [] n = 102 -> "handle" [] n = 103 -> "data" [] n = 104 -> "name" [] n = 105 -> "attrs"
    [] n = 201 -> "statvfsReply"

LEMMA NumbersTell ==
  \A kind \in DOMAIN StandardType : KindNumbered(StandardType[kind]) = kind /\ StandardType[kind] # 200
<1>1. DOMAIN StandardType =
        {"init", "version", "open", "close", "read", "write", "lstat", "fstat", "setstat", "fsetstat"}
        \union {"opendir", "readdir", "remove", "mkdir", "rmdir", "realpath", "stat", "rename"}
        \union {"readlink", "symlink", "status", "handle", "data", "name", "attrs", "statvfsReply"}
  BY DEF StandardType
<1>2. /\ StandardType["init"] = 1 /\ StandardType["version"] = 2 /\ StandardType["open"] = 3
      /\ StandardType["close"] = 4 /\ StandardType["read"] = 5 /\ StandardType["write"] = 6
      /\ StandardType["lstat"] = 7 /\ StandardType["fstat"] = 8 /\ StandardType["setstat"] = 9
      /\ StandardType["fsetstat"] = 10
  BY DEF StandardType
<1>3. /\ StandardType["opendir"] = 11 /\ StandardType["readdir"] = 12 /\ StandardType["remove"] = 13
      /\ StandardType["mkdir"] = 14 /\ StandardType["rmdir"] = 15 /\ StandardType["realpath"] = 16
      /\ StandardType["stat"] = 17 /\ StandardType["rename"] = 18
  BY DEF StandardType
<1>4. /\ StandardType["readlink"] = 19 /\ StandardType["symlink"] = 20 /\ StandardType["status"] = 101
      /\ StandardType["handle"] = 102 /\ StandardType["data"] = 103 /\ StandardType["name"] = 104
      /\ StandardType["attrs"] = 105 /\ StandardType["statvfsReply"] = 201
  BY DEF StandardType
<1>5. /\ KindNumbered(1) = "init" /\ KindNumbered(2) = "version" /\ KindNumbered(3) = "open"
      /\ KindNumbered(4) = "close" /\ KindNumbered(5) = "read" /\ KindNumbered(6) = "write"
      /\ KindNumbered(7) = "lstat" /\ KindNumbered(8) = "fstat" /\ KindNumbered(9) = "setstat"
      /\ KindNumbered(10) = "fsetstat"
  BY DEF KindNumbered
<1>6. /\ KindNumbered(11) = "opendir" /\ KindNumbered(12) = "readdir" /\ KindNumbered(13) = "remove"
      /\ KindNumbered(14) = "mkdir" /\ KindNumbered(15) = "rmdir" /\ KindNumbered(16) = "realpath"
      /\ KindNumbered(17) = "stat" /\ KindNumbered(18) = "rename"
  BY DEF KindNumbered
<1>7. /\ KindNumbered(19) = "readlink" /\ KindNumbered(20) = "symlink" /\ KindNumbered(101) = "status"
      /\ KindNumbered(102) = "handle" /\ KindNumbered(103) = "data" /\ KindNumbered(104) = "name"
      /\ KindNumbered(105) = "attrs" /\ KindNumbered(201) = "statvfsReply"
  BY DEF KindNumbered
<1>8. ASSUME NEW kind \in {"init", "version", "open", "close", "read", "write", "lstat", "fstat", "setstat", "fsetstat"}
      PROVE KindNumbered(StandardType[kind]) = kind /\ StandardType[kind] # 200
  BY <1>2, <1>5
<1>9. ASSUME NEW kind \in {"opendir", "readdir", "remove", "mkdir", "rmdir", "realpath", "stat", "rename"}
      PROVE KindNumbered(StandardType[kind]) = kind /\ StandardType[kind] # 200
  BY <1>3, <1>6
<1>10. ASSUME NEW kind \in {"readlink", "symlink", "status", "handle", "data", "name", "attrs", "statvfsReply"}
       PROVE KindNumbered(StandardType[kind]) = kind /\ StandardType[kind] # 200
  BY <1>4, <1>7
<1> QED BY <1>1, <1>8, <1>9, <1>10

LEMMA NamesTell ==
  /\ \A a, b \in ExtKinds : ExtName[a] = ExtName[b] => a = b
  /\ \A a \in ExtKinds : ExtName[a] \in Texts
<1>1. /\ ExtName["hardlink"] = <<11>> /\ ExtName["posixrename"] = <<12>> /\ ExtName["statvfs"] = <<13>>
      /\ ExtName["fsync"] = <<14>> /\ ExtName["fstatvfs"] = <<15>>
  BY DEF ExtName
<1>2. /\ <<11>>[1] = 11 /\ <<12>>[1] = 12 /\ <<13>>[1] = 13 /\ <<14>>[1] = 14 /\ <<15>>[1] = 15
  OBVIOUS
<1>3. ASSUME NEW a \in ExtKinds, NEW b \in ExtKinds, ExtName[a] = ExtName[b] PROVE a = b
  BY <1>1, <1>2, <1>3 DEF ExtKinds
<1>4. ASSUME NEW n \in {11, 12, 13, 14, 15} PROVE <<n>> \in Texts
  <2>1. n \in Bytes /\ 1 \in Uint32
    BY <1>4, ByteRange, WordRange
  <2>2. <<n>> \in Seq(Bytes) /\ Len(<<n>>) = 1
    BY <2>1
  <2> QED BY <2>1, <2>2 DEF Texts
<1>5. ASSUME NEW a \in ExtKinds PROVE ExtName[a] \in Texts
  BY <1>1, <1>4 DEF ExtKinds
<1> QED BY <1>3, <1>5

\* Two kinds with one type are extended requests.
LEMMA TypesTell ==
  ASSUME NEW a \in Kinds, NEW b \in Kinds, PacketType[a] = PacketType[b]
  PROVE  a = b \/ (a \in ExtKinds /\ b \in ExtKinds)
<1>1. \A kind \in Kinds : kind \in ExtKinds \/ kind \in CommonKinds \ ExtKinds
  BY DEF Kinds, ExtKinds
<1>2. \A kind \in Kinds : kind \notin ExtKinds => PacketType[kind] = StandardType[kind]
                             /\ kind \in DOMAIN StandardType
  BY <1>1, TypeTables
<1>3. \A kind \in Kinds : kind \notin ExtKinds => PacketType[kind] # 200 /\ KindNumbered(PacketType[kind]) = kind
  BY <1>2, NumbersTell
<1>4. \A kind \in ExtKinds : PacketType[kind] = 200
  BY TypeTables
<1> QED BY <1>3, <1>4

LEMMA OneChosen ==
  ASSUME NEW S, NEW k, S = {k}
  PROVE  (IF S = {} THEN "unknown" ELSE CHOOSE kind \in S : TRUE) = k
OBVIOUS

LEMMA KindNamedIs ==
  ASSUME NEW kind \in DOMAIN Read, NEW ext,
         kind \in ExtKinds => ~ ext.failed /\ ext.v = ExtName[kind]
  PROVE  KindNamed(PacketType[kind], ext) = kind
<1> DEFINE S == {k \in DOMAIN Read : PacketType[k] = PacketType[kind]
                    /\ (PacketType[kind] = 200 => ~ ext.failed /\ ExtName[k] = ext.v)}
<1>1. DOMAIN Read \subseteq Kinds
  BY ReadTables DEF Kinds
<1>2. kind \in ExtKinds <=> PacketType[kind] = 200
  <2>1. kind \in ExtKinds \/ kind \in DOMAIN StandardType
    BY ReadTables, TypeTables
  <2>2. kind \in DOMAIN StandardType => PacketType[kind] # 200 /\ kind \notin ExtKinds
    BY TypeTables, NumbersTell
  <2>3. kind \in ExtKinds => PacketType[kind] = 200
    BY TypeTables
  <2> QED BY <2>1, <2>2, <2>3
<1>3. kind \in S
  BY <1>2
<1>4. ASSUME NEW k \in S PROVE k = kind
  <2>1. k = kind \/ (k \in ExtKinds /\ kind \in ExtKinds)
    BY <1>1, TypesTell
  <2>2. kind \in ExtKinds => ExtName[k] = ExtName[kind]
    BY <1>2
  <2> QED BY <2>1, <2>2, NamesTell
<1>5. S = {kind}
  BY <1>3, <1>4
<1>6. KindNamed(PacketType[kind], ext) = IF S = {} THEN "unknown" ELSE CHOOSE k \in S : TRUE
  BY Zenon DEF KindNamed
<1> HIDE DEF S
<1> QED BY <1>5, <1>6, OneChosen

LEMMA FxKindNamedIs ==
  ASSUME NEW kind \in DOMAIN FxLayout, NEW ext,
         kind \in ExtKinds => ~ ext.failed /\ ext.v = ExtName[kind]
  PROVE  FxKindNamed(PacketType[kind], ext) = kind
<1> DEFINE S == {k \in DOMAIN FxLayout : PacketType[k] = PacketType[kind]
                    /\ (k \in DOMAIN FxExtended => ~ ext.failed /\ ExtName[k] = ext.v)}
<1>1. DOMAIN FxLayout = Kinds
  BY FxTable DEF Kinds
<1>2. DOMAIN FxExtended = ExtKinds
  BY FxExtendedTable DEF ExtKinds
<1>3. kind \in S
  BY <1>2
<1>4. ASSUME NEW k \in S PROVE k = kind
  <2>1. k = kind \/ (k \in ExtKinds /\ kind \in ExtKinds)
    BY <1>1, TypesTell
  <2>2. k \in ExtKinds /\ kind \in ExtKinds => ExtName[k] = ExtName[kind]
    BY <1>2
  <2> QED BY <2>1, <2>2, NamesTell
<1>5. S = {kind}
  BY <1>3, <1>4
<1>6. FxKindNamed(PacketType[kind], ext) = IF S = {} THEN "unknown" ELSE CHOOSE k \in S : TRUE
  BY Zenon DEF FxKindNamed
<1> HIDE DEF S
<1> QED BY <1>5, <1>6, OneChosen

\* The first field of a packet is a word: its id or its version.
LEMMA BodyHead ==
  ASSUME NEW layout, GoodLayout(layout), NEW p, \A i \in DOMAIN layout : p[layout[i]] \in Values(TypeOf[layout[i]])
  PROVE  \E v \in Uint32, rest \in Seq(Bytes) :
           /\ MarshalFields(layout, p) = MarshalUint32(v) \o rest
           /\ Len(MarshalFields(layout, p)) = WordLen + Len(rest)
           /\ (Len(layout) >= 2 /\ TypeOf[layout[2]] = "string") =>
                /\ p[layout[2]] \in Texts
                /\ \E left \in Seq(Bytes) : rest = MarshalString(p[layout[2]]) \o left
<1>1. PICK tails : LayoutTails(layout, p, tails)
  BY TailsOfLayout
<1> DEFINE n == Len(layout)
<1>2. n \in Nat /\ n > 0 /\ DOMAIN layout = 1..n /\ TypeOf[layout[1]] = "uint32"
  BY DEF GoodLayout, ProperLayout
<1>3. /\ tails \in [0..n -> Seq(Bytes)] /\ tails[0] = MarshalFields(layout, p)
      /\ \A k \in 1..n : tails[k - 1] = Marshal(TypeOf[layout[k]], p[layout[k]]) \o tails[k]
  BY <1>1 DEF LayoutTails
<1>4. p[layout[1]] \in Uint32
  BY <1>2 DEF Values, BasicValues
<1>5. Marshal("uint32", p[layout[1]]) = MarshalUint32(p[layout[1]])
  BY DEF Marshal, MarshalBasic
<1> HIDE DEF n
<1>6a. \A k \in 1..n : tails[k - 1] = Marshal(TypeOf[layout[k]], p[layout[k]]) \o tails[k] /\ tails[k] \in Seq(Bytes)
  <2>1. ASSUME NEW k \in 1..n PROVE tails[k] \in Seq(Bytes)
    <3>1. k \in 0..n
      BY <1>2
    <3> QED BY <1>3, <3>1
  <2> QED BY <1>3, <2>1, Zenon
<1>6b. 1 \in 1..n /\ 1 - 1 = 0 /\ 2 - 1 = 1 /\ (n >= 2 => 2 \in 1..n)
  BY <1>2
<1>6. tails[0] = Marshal(TypeOf[layout[1]], p[layout[1]]) \o tails[1] /\ tails[1] \in Seq(Bytes)
  <2>1. tails[1 - 1] = Marshal(TypeOf[layout[1]], p[layout[1]]) \o tails[1] /\ tails[1] \in Seq(Bytes)
    BY <1>6a, <1>6b, Zenon
  <2> QED BY <1>6b, <2>1
<1>7. MarshalFields(layout, p) = MarshalUint32(p[layout[1]]) \o tails[1]
  BY <1>2, <1>3, <1>5, <1>6
<1>8. MarshalUint32(p[layout[1]]) \in Seq(Bytes) /\ Len(MarshalUint32(p[layout[1]])) = WordLen
  BY <1>4, Uint32Bytes
<1>9. Len(MarshalFields(layout, p)) = WordLen + Len(tails[1])
  BY <1>6, <1>7, <1>8, Concat
<1>10. ASSUME n >= 2, TypeOf[layout[2]] = "string"
       PROVE  p[layout[2]] \in Texts /\ \E left \in Seq(Bytes) : tails[1] = MarshalString(p[layout[2]]) \o left
  <2>1. p[layout[2]] \in Texts
    BY <1>2, <1>10 DEF Values, BasicValues
  <2>2. Marshal("string", p[layout[2]]) = MarshalString(p[layout[2]])
    BY DEF Marshal, MarshalBasic
  <2>3. tails[1] = Marshal(TypeOf[layout[2]], p[layout[2]]) \o tails[2] /\ tails[2] \in Seq(Bytes)
    <3>1. tails[2 - 1] = Marshal(TypeOf[layout[2]], p[layout[2]]) \o tails[2] /\ tails[2] \in Seq(Bytes)
      BY <1>6a, <1>6b, <1>10, Zenon
    <3> QED BY <1>6b, <3>1
  <2> QED BY <1>10, <2>1, <2>2, <2>3
<1> QED BY <1>4, <1>6, <1>7, <1>9, <1>10 DEF n

\* The name of an extended request, as either receiver finds it.
LEMMA NameFound ==
  ASSUME NEW v \in Uint32, NEW s \in Texts, NEW left \in Seq(Bytes),
         NEW b, b = MarshalUint32(v) \o (MarshalString(s) \o left)
  PROVE  /\ UnmarshalStringSafe(UnmarshalUint32Safe(b).rest) = Got(s, left)
         /\ ConsumeByteSlice(ConsumeUint32(Buffer(b))) = Got(s, left)
<1> DEFINE rest == MarshalString(s) \o left
<1>1. s \in Seq(Bytes) /\ Len(s) \in Uint32 /\ MarshalString(s) \in Seq(Bytes)
  BY StringBytes DEF Texts
<1>2. rest \in Seq(Bytes)
  BY <1>1, Concat
<1>3. UnmarshalStringSafe(rest) = Got(s, left)
  BY <1>1, StringRoundTrip
<1> HIDE DEF rest
<1>4. UnmarshalUint32Safe(b) = Got(v, rest)
  BY <1>2, Uint32RoundTrip DEF rest
<1>5. UnmarshalUint32Safe(b).rest = rest
  BY <1>4, GotFields
<1>6. b \in Seq(Bytes)
  <2>1. MarshalUint32(v) \in Seq(Bytes)
    BY Uint32Bytes
  <2> QED BY <1>2, <2>1, Concat DEF rest
<1>7. Buffer(b) = Got(<<>>, b)
  BY DEF Got, Buffer
<1>8. Alike(ConsumeUint32(Buffer(b)), UnmarshalUint32Safe(b))
  BY <1>6, <1>7, Uint32Alike
<1>9. Got(v, rest) # Short /\ Got(s, left) # Short
  BY GotFields, ShortFields
<1>10. ConsumeUint32(Buffer(b)) = Got(v, rest)
  BY <1>4, <1>8, <1>9 DEF Alike
<1>11. Alike(ConsumeByteSlice(Got(v, rest)), UnmarshalStringSafe(rest))
  BY <1>2, StringAlike
<1>12. ConsumeByteSlice(Got(v, rest)) = Got(s, left)
  BY <1>3, <1>9, <1>11 DEF Alike
<1> QED BY <1>3, <1>5, <1>10, <1>12

LEMMA ExtLayouts ==
  ASSUME NEW codec \in Codec, NEW kind \in ExtKinds, Encodes(codec, kind)
  PROVE  LET layout == Layout(codec, kind) IN
           Len(layout) >= 2 /\ layout[2] = "ext" /\ 2 \in DOMAIN layout
<1>1. /\ LayoutOf("statvfs") = <<"id", "ext", "path">>
      /\ LayoutOf("posixrename") = <<"id", "ext", "oldpath", "newpath">>
      /\ LayoutOf("hardlink") = <<"id", "ext", "oldpath", "newpath">>
  BY DEF LayoutOf, HandleKinds, PathKinds
<1>2. /\ FxLayoutOf("statvfs") = LayoutOf("statvfs") /\ FxLayoutOf("posixrename") = LayoutOf("posixrename")
      /\ FxLayoutOf("hardlink") = LayoutOf("hardlink")
      /\ FxLayoutOf("fsync") = <<"id", "ext", "handle">> /\ FxLayoutOf("fstatvfs") = <<"id", "ext", "handle">>
  BY DEF FxLayoutOf
<1>3. {"statvfs", "posixrename", "hardlink"} \subseteq CommonKinds
  BY DEF CommonKinds, OtherKinds
<1>4. Layout(codec, kind) \in {<<"id", "ext", "path">>, <<"id", "ext", "oldpath", "newpath">>, <<"id", "ext", "handle">>}
  <2>1. CASE codec = "sftp"
    <3>1. kind \in CommonKinds \/ kind = "fsync"
      BY <2>1, ReadTables DEF Encodes
    <3>2. kind \in {"statvfs", "posixrename", "hardlink", "fsync"}
      BY <3>1 DEF ExtKinds, CommonKinds, HandleKinds, PathKinds, OtherKinds
    <3> QED BY <1>1, <1>3, <2>1, <3>2, SentLayouts DEF Layout
  <2>2. CASE codec = "sshfx"
    <3>1. Layout(codec, kind) = FxLayoutOf(kind)
      BY <2>2, <1>3, FxLayouts DEF Layout, ExtKinds
    <3> QED BY <1>1, <1>2, <3>1 DEF ExtKinds
  <2> QED BY <2>1, <2>2 DEF Codec
<1>5. ASSUME NEW l \in {<<"id", "ext", "path">>, <<"id", "ext", "oldpath", "newpath">>, <<"id", "ext", "handle">>}
      PROVE  Len(l) >= 2 /\ l[2] = "ext" /\ 2 \in DOMAIN l
  BY <1>5
<1> QED BY <1>4, <1>5

LEMMA KindRecognised ==
  ASSUME NEW codec \in Codec, NEW packet, Encodes(codec, packet.kind), Sendable(codec, packet)
  PROVE  LET type == PacketType[packet.kind]
             body == Body(codec, packet) IN
           /\ packet.kind \in DOMAIN Read => KindOf(type, body) = packet.kind
           /\ packet.kind \in DOMAIN FxLayout => FxKindOf(type, body) = packet.kind
<1> DEFINE kind == packet.kind
<1> DEFINE body == Body(codec, packet)
<1> DEFINE layout == Layout(codec, kind)
<1> DEFINE ext == UnmarshalStringSafe(UnmarshalUint32Safe(body).rest)
<1> DEFINE fxext == ConsumeByteSlice(ConsumeUint32(Buffer(body)))
<1>1. /\ kind \in Kinds /\ GoodLayout(layout) /\ body = MarshalFields(layout, packet.p)
      /\ \A i \in DOMAIN layout : packet.p[layout[i]] \in Values(TypeOf[layout[i]])
  BY BodyBytes
<1>2. ASSUME kind \in ExtKinds
      PROVE  /\ ext.failed = FALSE /\ ext.v = ExtName[kind]
             /\ fxext.failed = FALSE /\ fxext.v = ExtName[kind]
  <2>1. Len(layout) >= 2 /\ layout[2] = "ext"
    BY <1>2, ExtLayouts
  <2>2. TypeOf["ext"] = "string"
    BY DEF TypeOf
  <2>3. packet.p["ext"] = ExtName[kind]
    BY <1>2, TypeTables DEF Sendable
  <2> DEFINE name == packet.p["ext"]
  <2> HIDE DEF ext, fxext, layout, body, kind
  <2>4. PICK v \in Uint32, rest \in Seq(Bytes) :
          /\ MarshalFields(layout, packet.p) = MarshalUint32(v) \o rest
          /\ (Len(layout) >= 2 /\ TypeOf[layout[2]] = "string") =>
                /\ packet.p[layout[2]] \in Texts
                /\ \E left \in Seq(Bytes) : rest = MarshalString(packet.p[layout[2]]) \o left
    BY <1>1, BodyHead
  <2>5. name \in Texts /\ \E left \in Seq(Bytes) : rest = MarshalString(name) \o left
    BY <2>1, <2>2, <2>4
  <2>6. PICK left \in Seq(Bytes) : rest = MarshalString(name) \o left
    BY <2>5
  <2>7. body = MarshalUint32(v) \o (MarshalString(name) \o left)
    BY <1>1, <2>4, <2>6
  <2>8. ext = Got(name, left) /\ fxext = Got(name, left)
    <3> HIDE DEF name
    <3>1. v \in Uint32 /\ name \in Texts /\ left \in Seq(Bytes)
      BY <2>4, <2>5, <2>6
    <3>2. /\ UnmarshalStringSafe(UnmarshalUint32Safe(body).rest) = Got(name, left)
          /\ ConsumeByteSlice(ConsumeUint32(Buffer(body))) = Got(name, left)
      BY <2>7, <3>1, NameFound
    <3> QED BY <3>2 DEF ext, fxext
  <2> QED BY <2>3, <2>8, GotFields
<1> HIDE DEF ext, fxext
<1>3. kind \in DOMAIN Read => KindNamed(PacketType[kind], ext) = kind
  BY <1>2, KindNamedIs
<1>4. kind \in DOMAIN FxLayout => FxKindNamed(PacketType[kind], fxext) = kind
  BY <1>2, FxKindNamedIs
<1> QED BY <1>3, <1>4 DEF KindOf, FxKindOf, ext, fxext

-----------------------------------------------------------------------------
(* Any of the codecs reads what any of them has written.                   *)

ReadLayout(codec, kind) == IF codec = "sftp" THEN Read[kind].unmarshal ELSE FxLayout[kind]

Reads(codec, kind) == kind \in KindsOf(codec)

LEMMA PacketDecoded ==
  ASSUME NEW codec \in Codec, NEW kind, Reads(codec, kind), NEW q,
         \A i \in DOMAIN ReadLayout(codec, kind) :
           q[ReadLayout(codec, kind)[i]] \in Values(TypeOf[ReadLayout(codec, kind)[i]])
  PROVE  DecodedBy(codec, kind, MarshalFields(ReadLayout(codec, kind), q))
           = Got([f \in Range(ReadLayout(codec, kind)) |-> q[f]], <<>>)
<1> DEFINE layout == ReadLayout(codec, kind)
<1> DEFINE body == MarshalFields(layout, q)
<1>1. kind # "unknown"
  <2>1. kind \in Kinds
    BY ReadTables, FxTable DEF Reads, KindsOf, Kinds
  <2> QED BY <2>1 DEF Kinds, CommonKinds, HandleKinds, PathKinds, OtherKinds
<1>2. CASE codec = "sftp"
  <2>1. kind \in DOMAIN Read /\ kind \in DOMAIN Sent
    BY <1>2, ReadTables DEF Reads, KindsOf
  <2>2. layout = Sent[kind].marshal
    BY <1>2, <2>1, ReadTables, ReadLayouts, SentLayouts DEF ReadLayout
  <2>3. DecodedBy(codec, kind, body) = UnmarshalPacket(kind, body)
    BY <1>1, <1>2 DEF DecodedBy
  <2>4. MarshalPacket(kind, q) = body
    BY <2>2 DEF MarshalPacket
  <2>5. \A i \in DOMAIN Sent[kind].marshal : q[Sent[kind].marshal[i]] \in Values(TypeOf[Sent[kind].marshal[i]])
    BY <2>2
  <2>6. UnmarshalPacket(kind, MarshalPacket(kind, q)) = Got([f \in Range(Sent[kind].marshal) |-> q[f]], <<>>)
    BY <2>1, <2>5, PacketRoundTrip
  <2> QED BY <2>2, <2>3, <2>4, <2>6
<1>3. CASE codec = "sshfx"
  <2>1. kind \in DOMAIN FxLayout /\ layout = FxLayout[kind]
    BY <1>3 DEF Reads, KindsOf, ReadLayout
  <2>2. DecodedBy(codec, kind, body) = FxUnmarshalPacket(kind, body)
    BY <1>1, <1>3 DEF DecodedBy
  <2>3. \A i \in DOMAIN FxLayout[kind] : q[FxLayout[kind][i]] \in Values(TypeOf[FxLayout[kind][i]])
    BY <2>1
  <2>4. FxUnmarshalPacket(kind, MarshalFields(FxLayout[kind], q)) = Got([f \in Range(FxLayout[kind]) |-> q[f]], <<>>)
    BY <2>1, <2>3, FxPacketRoundTrip
  <2> QED BY <2>1, <2>2, <2>4
<1> QED BY <1>2, <1>3 DEF Codec

\* But for a mkdir, both codecs have one layout.
LEMMA OneLayout ==
  ASSUME NEW s \in Codec, NEW r \in Codec, NEW kind, kind # "mkdir", Encodes(s, kind), Reads(r, kind)
  PROVE  ReadLayout(r, kind) = Layout(s, kind)
<1>1. FxLayoutOf(kind) = IF kind \in {"fsync", "fstatvfs"} THEN <<"id", "ext", "handle">> ELSE LayoutOf(kind)
  BY DEF FxLayoutOf
<1>2. "fsync" \notin CommonKinds /\ "fstatvfs" \notin CommonKinds
  BY DEF CommonKinds, HandleKinds, PathKinds, OtherKinds
<1>3. CASE kind \in CommonKinds
  <2>1. FxLayout[kind] = LayoutOf(kind)
    BY <1>1, <1>2, <1>3, FxLayouts
  <2>2. Read[kind].unmarshal = LayoutOf(kind) /\ Sent[kind].marshal = LayoutOf(kind)
    BY <1>3, ReadLayouts, SentLayouts
  <2> QED BY <2>1, <2>2 DEF ReadLayout, Layout
<1>4. CASE kind \notin CommonKinds
  <2>1. r # "sftp" /\ r = "sshfx"
    BY <1>4, ReadTables DEF Reads, KindsOf, Codec
  <2>2. ReadLayout(r, kind) = FxLayout[kind]
    BY <2>1 DEF ReadLayout
  <2>3. CASE s = "sshfx"
    BY <2>2, <2>3 DEF Layout
  <2>4. CASE s = "sftp"
    <3>1. kind = "fsync"
      BY <1>4, <2>4, ReadTables DEF Encodes
    <3> QED BY <1>1, <2>2, <2>4, <3>1, SentLayouts, FxLayouts DEF Layout
  <2> QED BY <2>3, <2>4 DEF Codec
<1> QED BY <1>3, <1>4

\* No flags and no attributes are the same word.
LEMMA NoAttrsIsZero == MarshalUint32(0) = MarshalFileStat(NoAttrs)
<1>1. /\ ~ HasFlag(0, AttrSize) /\ ~ HasFlag(0, AttrUIDGID) /\ ~ HasFlag(0, AttrPermissions)
      /\ ~ HasFlag(0, AttrACmodTime) /\ ~ HasFlag(0, AttrExtended)
  BY DEF HasFlag, AttrSize, AttrUIDGID, AttrPermissions, AttrACmodTime, AttrExtended
<1>2. FileStatFields(0) = <<>>
  BY <1>1 DEF FileStatFields, When
<1> DEFINE parts(fields) == [i \in DOMAIN fields |-> MarshalBasic(TypeOf[fields[i]], NoAttrs[fields[i]])]
<1>3. MarshalFileStat(NoAttrs) = MarshalUint32(NoAttrs.flags) \o FlattenSeq(parts(FileStatFields(NoAttrs.flags)))
  BY Zenon DEF MarshalFileStat
<1>4. NoAttrs.flags = 0
  BY DEF NoAttrs
<1>5. parts(<<>>) = <<>>
  OBVIOUS
<1> HIDE DEF parts
<1>6. MarshalFileStat(NoAttrs) = MarshalUint32(0) \o <<>>
  BY <1>2, <1>3, <1>4, <1>5, FlattenFew
<1>7. MarshalUint32(0) \in Seq(Bytes)
  <2>1. 0 \in Uint32
    BY WordRange
  <2> QED BY <2>1, Uint32Bytes
<1> QED BY <1>6, <1>7, ConcatEmptySeq

LEMMA ThreeFields ==
  ASSUME NEW a, NEW b, NEW c, NEW p
  PROVE  MarshalFields(<<a, b, c>>, p) =
           FlattenSeq(<<Marshal(TypeOf[a], p[a]), Marshal(TypeOf[b], p[b]), Marshal(TypeOf[c], p[c])>>)
<1> DEFINE l == <<a, b, c>>
<1>1. MarshalFields(l, p) = FlattenSeq([i \in DOMAIN l |-> Marshal(TypeOf[l[i]], p[l[i]])])
  BY Zenon DEF MarshalFields
<1>2. [i \in DOMAIN l |-> Marshal(TypeOf[l[i]], p[l[i]])]
        = <<Marshal(TypeOf[a], p[a]), Marshal(TypeOf[b], p[b]), Marshal(TypeOf[c], p[c])>>
  OBVIOUS
<1> QED BY <1>1, <1>2

\* Its fields as one layout has them, of a mkdir with neither.
Mkdir(p) == [id |-> p["id"], path |-> p["path"], flags |-> 0, attrs |-> NoAttrs]

LEMMA MkdirSame ==
  ASSUME NEW p, NEW s \in Codec, NEW r \in Codec,
         \A i \in DOMAIN Layout(s, "mkdir") : p[Layout(s, "mkdir")[i]] \in Values(TypeOf[Layout(s, "mkdir")[i]]),
         p["flags"] = 0, p["attrs"] = NoAttrs
  PROVE  LET layout == ReadLayout(r, "mkdir") IN
           /\ MarshalFields(Layout(s, "mkdir"), p) = MarshalFields(layout, Mkdir(p))
           /\ \A i \in DOMAIN layout : Mkdir(p)[layout[i]] \in Values(TypeOf[layout[i]])
           /\ \A i \in DOMAIN layout : Mkdir(p)[layout[i]] = p[layout[i]]
<1>1. /\ LayoutOf("mkdir") = <<"id", "path", "flags">> /\ FxLayoutOf("mkdir") = <<"id", "path", "attrs">>
      /\ "mkdir" \in CommonKinds
  BY DEF LayoutOf, FxLayoutOf, CommonKinds, HandleKinds, PathKinds, OtherKinds
<1>2. /\ Layout(s, "mkdir") \in {<<"id", "path", "flags">>, <<"id", "path", "attrs">>}
      /\ ReadLayout(r, "mkdir") \in {<<"id", "path", "flags">>, <<"id", "path", "attrs">>}
  BY <1>1, SentLayouts, ReadLayouts, FxLayouts DEF Layout, ReadLayout
<1>3. /\ TypeOf["id"] = "uint32" /\ TypeOf["path"] = "string" /\ TypeOf["flags"] = "uint32" /\ TypeOf["attrs"] = "attrs"
  BY DEF TypeOf
<1> DEFINE a == Marshal("uint32", p["id"])
<1> DEFINE b == Marshal("string", p["path"])
<1> DEFINE zero == MarshalUint32(0)
<1>4. Marshal("uint32", 0) = zero /\ Marshal("attrs", NoAttrs) = zero
  <2>1. Marshal("uint32", 0) = MarshalUint32(0) /\ Marshal("attrs", NoAttrs) = MarshalFileStat(NoAttrs)
    BY DEF Marshal, MarshalBasic
  <2> QED BY <2>1, NoAttrsIsZero
<1>5. /\ Mkdir(p)["id"] = p["id"] /\ Mkdir(p)["path"] = p["path"] /\ Mkdir(p)["flags"] = 0
      /\ Mkdir(p)["attrs"] = NoAttrs
  BY DEF Mkdir
<1>6. ASSUME NEW l \in {<<"id", "path", "flags">>, <<"id", "path", "attrs">>}
      PROVE  /\ MarshalFields(l, p) = FlattenSeq(<<a, b, zero>>)
             /\ MarshalFields(l, Mkdir(p)) = FlattenSeq(<<a, b, zero>>)
  <2> HIDE DEF a, b, zero
  <2>1. CASE l = <<"id", "path", "flags">>
    <3>1. /\ MarshalFields(l, p) = FlattenSeq(<<Marshal(TypeOf["id"], p["id"]), Marshal(TypeOf["path"], p["path"]),
                                              Marshal(TypeOf["flags"], p["flags"])>>)
          /\ MarshalFields(l, Mkdir(p)) =
                FlattenSeq(<<Marshal(TypeOf["id"], Mkdir(p)["id"]), Marshal(TypeOf["path"], Mkdir(p)["path"]),
                             Marshal(TypeOf["flags"], Mkdir(p)["flags"])>>)
      BY <2>1, ThreeFields
    <3> QED BY <1>3, <1>4, <1>5, <3>1 DEF a, b
  <2>2. CASE l = <<"id", "path", "attrs">>
    <3>1. /\ MarshalFields(l, p) = FlattenSeq(<<Marshal(TypeOf["id"], p["id"]), Marshal(TypeOf["path"], p["path"]),
                                              Marshal(TypeOf["attrs"], p["attrs"])>>)
          /\ MarshalFields(l, Mkdir(p)) =
                FlattenSeq(<<Marshal(TypeOf["id"], Mkdir(p)["id"]), Marshal(TypeOf["path"], Mkdir(p)["path"]),
                             Marshal(TypeOf["attrs"], Mkdir(p)["attrs"])>>)
      BY <2>2, ThreeFields
    <3> QED BY <1>3, <1>4, <1>5, <3>1 DEF a, b
  <2> QED BY <2>1, <2>2
<1>7. p["id"] \in Uint32 /\ p["path"] \in Texts
  <2>1. 1 \in DOMAIN Layout(s, "mkdir") /\ 2 \in DOMAIN Layout(s, "mkdir")
        /\ Layout(s, "mkdir")[1] = "id" /\ Layout(s, "mkdir")[2] = "path"
    BY <1>2
  <2>2. p["id"] \in Values(TypeOf["id"]) /\ p["path"] \in Values(TypeOf["path"])
    BY <2>1
  <2> QED BY <2>2, FieldTypings
<1>8. ASSUME NEW l \in {<<"id", "path", "flags">>, <<"id", "path", "attrs">>}, NEW i \in DOMAIN l
      PROVE  l[i] \in {"id", "path", "flags", "attrs"}
  BY <1>8
<1>9. \A f \in {"id", "path", "flags", "attrs"} : Mkdir(p)[f] \in Values(TypeOf[f]) /\ Mkdir(p)[f] = p[f]
  <2>1. 0 \in Uint32
    BY WordRange
  <2>2. Values(TypeOf["flags"]) = Uint32
    BY <1>3 DEF Values, BasicValues
  <2> QED BY <1>5, <1>7, <2>1, <2>2, FieldTypings, NoAttrsTyped
<1> QED BY <1>2, <1>6, <1>8, <1>9

\* An ATTRS structure begins with its flags.
LEMMA AttrsHead ==
  ASSUME NEW fs \in FileStats
  PROVE  \E tail \in Seq(Bytes) : MarshalFileStat(fs) = MarshalUint32(fs.flags) \o tail
<1> DEFINE fields == FileStatFields(fs.flags)
<1> DEFINE n == Len(fields)
<1> DEFINE seqs == [i \in DOMAIN fields |-> MarshalBasic(TypeOf[fields[i]], fs[fields[i]])]
<1>1. fields \in Seq(AttrNames) /\ n \in Nat /\ DOMAIN fields = 1..n
  BY FieldNames
<1>2. MarshalFileStat(fs) = MarshalUint32(fs.flags) \o FlattenSeq(seqs)
  BY DEF MarshalFileStat
<1>3. \A k \in 1..n : seqs[k] \in Seq(Bytes)
  <2> SUFFICES ASSUME NEW k \in 1..n PROVE seqs[k] \in Seq(Bytes)
    OBVIOUS
  <2>1. fields[k] \in AttrNames /\ seqs[k] = MarshalBasic(TypeOf[fields[k]], fs[fields[k]])
    BY <1>1
  <2> HIDE DEF seqs, fields
  <2>2. MarshalBasic(TypeOf[fields[k]], fs[fields[k]]) \in Seq(Bytes)
    BY <2>1, FieldTyped, BasicRoundTrip
  <2> QED BY <2>1, <2>2
<1>4. seqs = [i \in 1..n |-> seqs[i]]
  BY <1>1
<1> HIDE DEF seqs, fields, n
<1>5. seqs \in Seq(Seq(Bytes)) /\ Len(seqs) = n
  <2>1. seqs \in [1..n -> Seq(Bytes)]
    BY <1>3, <1>4
  <2> QED BY <1>1, <2>1
<1>6. PICK tails : Tails(seqs, n, tails) /\ tails[0] = FlattenSeq(seqs)
  BY <1>1, <1>5, FlattenTails
<1>7. tails[0] \in Seq(Bytes)
  BY <1>1, <1>6 DEF Tails
<1> QED BY <1>2, <1>6, <1>7

\* Of a mkdir with attributes the package reads the flags of the attributes, and leaves them.
LEMMA MkdirAttrs ==
  ASSUME NEW p, p["id"] \in Uint32, p["path"] \in Texts, p["attrs"] \in FileStats, p["flags"] = p["attrs"].flags
  PROVE  \E rest \in Seq(Bytes) :
           UnmarshalPacket("mkdir", MarshalFields(<<"id", "path", "attrs">>, p))
             = Got([f \in Range(<<"id", "path", "flags">>) |-> p[f]], rest)
<1> DEFINE layout == <<"id", "path", "flags">>
<1>1. /\ TypeOf["id"] = "uint32" /\ TypeOf["path"] = "string" /\ TypeOf["flags"] = "uint32" /\ TypeOf["attrs"] = "attrs"
      /\ layout \in Seq(DOMAIN TypeOf) /\ Len(layout) = 3
      /\ layout[1] = "id" /\ layout[2] = "path" /\ layout[3] = "flags"
  BY DEF TypeOf
<1>2. PICK rest \in Seq(Bytes) : MarshalFileStat(p["attrs"]) = MarshalUint32(p["flags"]) \o rest
  BY AttrsHead
<1> DEFINE a == Marshal("uint32", p["id"])
<1> DEFINE b == Marshal("string", p["path"])
<1> DEFINE c == Marshal("uint32", p["flags"])
<1>3. p["flags"] \in Uint32
  BY DEF FileStats
<1>4. a \in Seq(Bytes) /\ b \in Seq(Bytes) /\ c \in Seq(Bytes)
  <2>1. /\ p["id"] \in Values("uint32") /\ p["path"] \in Values("string") /\ p["flags"] \in Values("uint32")
    BY <1>3, <1>1 DEF Values, BasicValues
  <2> QED BY <2>1, <1>1, FieldRoundTrip
<1> DEFINE d == Marshal("attrs", p["attrs"])
<1>5. d = c \o rest
  BY <1>2 DEF Marshal, MarshalBasic
<1>a. MarshalFields(<<"id", "path", "attrs">>, p) = FlattenSeq(<<a, b, d>>)
  BY <1>1, ThreeFields
<1>b. /\ Marshal(TypeOf["id"], p["id"]) = a /\ Marshal(TypeOf["path"], p["path"]) = b
      /\ Marshal(TypeOf["flags"], p["flags"]) = c
  BY <1>1
<1> HIDE DEF a, b, c, d
<1>6. MarshalFields(<<"id", "path", "attrs">>, p) = a \o (b \o (c \o rest))
  <2>1. d \in Seq(Bytes)
    BY <1>4, <1>5, Concat
  <2>2. a \o (b \o d) = (a \o b) \o d
    <3>1. \A x, y, z \in Seq(Bytes) : (x \o y) \o z = x \o (y \o z)
      BY Associative
    <3> QED BY <1>4, <2>1, <3>1, Zenon
  <2>3. FlattenSeq(<<a, b, d>>) = (a \o b) \o d
    <3>1. /\ <<a, b>> \in Seq(Seq(Bytes)) /\ <<a, b, d>> \in Seq(Seq(Bytes)) /\ Len(<<a, b>>) = 2
          /\ Len(<<a, b, d>>) = Len(<<a, b>>) + 1 /\ <<a, b, d>>[Len(<<a, b, d>>)] = d
          /\ \A i \in 1..Len(<<a, b>>) : <<a, b, d>>[i] = <<a, b>>[i]
      BY <1>4, <2>1
    <3>2. FlattenSeq(<<a, b, d>>) = FlattenSeq(<<a, b>>) \o d
      BY <3>1, FlattenMore
    <3> QED BY <1>4, <3>2, FlattenFew
  <2> QED BY <1>5, <1>a, <2>2, <2>3
<1> DEFINE tails == [k \in 0..3 |-> <<a \o (b \o (c \o rest)), b \o (c \o rest), c \o rest, rest>>[k + 1]]
<1>7. /\ tails[0] = a \o (b \o (c \o rest)) /\ tails[1] = b \o (c \o rest) /\ tails[2] = c \o rest
      /\ tails[3] = rest
  <2> DEFINE t0 == a \o (b \o (c \o rest))
  <2> DEFINE t1 == b \o (c \o rest)
  <2> DEFINE t2 == c \o rest
  <2> HIDE DEF t0, t1, t2
  <2>1. \A t \in [0..3 -> {t0, t1, t2, rest}] :
          t = [k \in 0..3 |-> <<t0, t1, t2, rest>>[k + 1]] => t[0] = t0 /\ t[1] = t1 /\ t[2] = t2 /\ t[3] = rest
    OBVIOUS
  <2>2. [k \in 0..3 |-> <<t0, t1, t2, rest>>[k + 1]] \in [0..3 -> {t0, t1, t2, rest}]
    OBVIOUS
  <2>3. tails = [k \in 0..3 |-> <<t0, t1, t2, rest>>[k + 1]]
    BY DEF t0, t1, t2
  <2> HIDE DEF tails
  <2>4. tails[0] = t0 /\ tails[1] = t1 /\ tails[2] = t2 /\ tails[3] = rest
    BY <2>1, <2>2, <2>3
  <2> QED BY <2>4 DEF t0, t1, t2
<1>8. tails \in [0..3 -> Seq(Bytes)]
  <2>1. c \o rest \in Seq(Bytes)
    BY <1>4, Concat
  <2>2. b \o (c \o rest) \in Seq(Bytes)
    BY <1>4, <2>1, Concat
  <2>3. a \o (b \o (c \o rest)) \in Seq(Bytes)
    BY <1>4, <2>2, Concat
  <2>4. tails = [k \in 0..3 |-> tails[k]]
    OBVIOUS
  <2> HIDE DEF tails
  <2>5. \A k \in 0..3 : tails[k] \in Seq(Bytes)
    <3>1. \A k \in 0..3 : k = 0 \/ k = 1 \/ k = 2 \/ k = 3
      OBVIOUS
    <3> QED BY <1>7, <2>1, <2>2, <2>3, <3>1, Zenon
  <2> QED BY <2>4, <2>5
<1> HIDE DEF tails
<1>9. Read["mkdir"].unmarshal = layout
  <2>1. "mkdir" \in CommonKinds /\ LayoutOf("mkdir") = layout
    BY DEF LayoutOf, CommonKinds, HandleKinds, PathKinds, OtherKinds
  <2> QED BY <2>1, ReadLayouts
<1>10. /\ p["id"] \in Values(TypeOf["id"]) /\ p["path"] \in Values(TypeOf["path"])
       /\ p["flags"] \in Values(TypeOf["flags"])
  BY <1>1, <1>3 DEF Values, BasicValues
<1> HIDE DEF layout
<1>11. ASSUME NEW k \in 1..3
       PROVE  /\ p[layout[k]] \in Values(TypeOf[layout[k]])
              /\ tails[k - 1] = Marshal(TypeOf[layout[k]], p[layout[k]]) \o tails[k]
              /\ TypeOf[layout[k]] = "pairs" => tails[k] = <<>>
  <2>1. CASE k = 1
    <3>1. k - 1 = 0 /\ layout[k] = "id"
      BY <1>1, <2>1
    <3> QED BY <1>1, <1>7, <1>10, <1>b, <2>1, <3>1
  <2>2. CASE k = 2
    <3>1. k - 1 = 1 /\ layout[k] = "path"
      BY <1>1, <2>2
    <3> QED BY <1>1, <1>7, <1>10, <1>b, <2>2, <3>1
  <2>3. CASE k = 3
    <3>1. k - 1 = 2 /\ layout[k] = "flags"
      BY <1>1, <2>3
    <3>2. tails[k - 1] = c \o rest /\ tails[k] = rest
      BY <1>7, <2>3, <3>1
    <3>3. TypeOf[layout[k]] # "pairs"
      BY <1>1, <3>1
    <3>4. p[layout[k]] \in Values(TypeOf[layout[k]])
      BY <1>10, <3>1
    <3>5. Marshal(TypeOf[layout[k]], p[layout[k]]) = c
      BY <1>b, <3>1
    <3> QED BY <3>2, <3>3, <3>4, <3>5
  <2>4. k = 1 \/ k = 2 \/ k = 3
    OBVIOUS
  <2> QED BY <2>1, <2>2, <2>3, <2>4, Zenon
<1>12. UnmarshalPacket("mkdir", tails[0]) = Got([f \in Range(layout) |-> p[f]], tails[3])
  <2> DEFINE l == Read["mkdir"].unmarshal
  <2>1. l = layout /\ Len(l) = 3 /\ l \in Seq(DOMAIN TypeOf)
    BY <1>1, <1>9
  <2>2. tails \in [0..Len(l) -> Seq(Bytes)]
    BY <1>8, <2>1
  <2>3. \A k \in 1..Len(l) : /\ p[l[k]] \in Values(TypeOf[l[k]])
                             /\ tails[k - 1] = Marshal(TypeOf[l[k]], p[l[k]]) \o tails[k]
                             /\ TypeOf[l[k]] = "pairs" => tails[k] = <<>>
    BY <1>11, <2>1
  <2>4. UnmarshalPacket("mkdir", tails[0]) = Got([f \in Range(l) |-> p[f]], tails[Len(l)])
    BY <2>1, <2>2, <2>3, LayoutReadBack
  <2> QED BY <2>1, <2>4
<1>13. UnmarshalPacket("mkdir", MarshalFields(<<"id", "path", "attrs">>, p))
         = Got([f \in Range(layout) |-> p[f]], rest)
  BY <1>6, <1>7, <1>12
<1> QED BY <1>13 DEF layout

\* The packet that a receiver makes of another's bytes: its own fields, as they were sent.  Only
\* of a mkdir with attributes something may be left over.
THEOREM CodecsUnderstand ==
  ASSUME NEW s \in Codec, NEW r \in Codec, NEW packet, Encodes(s, packet.kind), Sendable(s, packet),
         Reads(r, packet.kind)
  PROVE  \E rest \in Seq(Bytes) :
           /\ DecodedBy(r, packet.kind, Body(s, packet))
                = Got([f \in Range(ReadLayout(r, packet.kind)) |-> packet.p[f]], rest)
           /\ rest = <<>> \/ (packet.kind = "mkdir" /\ s = "sshfx" /\ r = "sftp")
<1> DEFINE kind == packet.kind
<1> DEFINE p == packet.p
<1> DEFINE sent == Layout(s, kind)
<1> DEFINE layout == ReadLayout(r, kind)
<1>1. /\ Body(s, packet) = MarshalFields(sent, p)
      /\ \A i \in DOMAIN sent : p[sent[i]] \in Values(TypeOf[sent[i]])
  BY BodyBytes
<1>2. /\ LayoutOf("mkdir") = <<"id", "path", "flags">> /\ FxLayoutOf("mkdir") = <<"id", "path", "attrs">>
      /\ "mkdir" \in CommonKinds
  BY DEF LayoutOf, FxLayoutOf, CommonKinds, HandleKinds, PathKinds, OtherKinds
<1>3. kind = "mkdir" => /\ layout = IF r = "sftp" THEN <<"id", "path", "flags">> ELSE <<"id", "path", "attrs">>
                        /\ sent = IF s = "sftp" THEN <<"id", "path", "flags">> ELSE <<"id", "path", "attrs">>
  BY <1>2, SentLayouts, ReadLayouts, FxLayouts DEF Layout, ReadLayout
<1>7. <<>> \in Seq(Bytes)
  OBVIOUS
<1>4. CASE kind # "mkdir" \/ s = r
  <2>1. layout = sent
    BY <1>3, <1>4, OneLayout
  <2>2. DecodedBy(r, kind, Body(s, packet)) = Got([f \in Range(layout) |-> p[f]], <<>>)
    BY <1>1, <2>1, PacketDecoded
  <2> QED BY <1>7, <2>2, Zenon
<1>5. CASE kind = "mkdir" /\ s = "sftp" /\ r = "sshfx"
  <2> DEFINE q == Mkdir(p)
  <2>1. p["flags"] = 0 /\ p["attrs"] = NoAttrs
    BY <1>5 DEF Sendable, NoAttrs
  <2>2. /\ MarshalFields(sent, p) = MarshalFields(layout, q)
        /\ \A i \in DOMAIN layout : q[layout[i]] \in Values(TypeOf[layout[i]])
        /\ \A i \in DOMAIN layout : q[layout[i]] = p[layout[i]]
    BY <1>1, <1>5, <2>1, MkdirSame
  <2> HIDE DEF q
  <2>3. DecodedBy(r, kind, MarshalFields(layout, q)) = Got([f \in Range(layout) |-> q[f]], <<>>)
    BY <2>2, PacketDecoded
  <2>4. [f \in Range(layout) |-> q[f]] = [f \in Range(layout) |-> p[f]]
    BY <2>2 DEF Range
  <2>5. DecodedBy(r, kind, Body(s, packet)) = Got([f \in Range(layout) |-> p[f]], <<>>)
    BY <1>1, <2>2, <2>3, <2>4
  <2> QED BY <1>7, <2>5, Zenon
<1>6. CASE kind = "mkdir" /\ s = "sshfx" /\ r = "sftp"
  <2>1. sent = <<"id", "path", "attrs">> /\ layout = <<"id", "path", "flags">>
    BY <1>3, <1>6
  <2>2. p["id"] \in Values(TypeOf["id"]) /\ p["path"] \in Values(TypeOf["path"]) /\ p["attrs"] \in Values(TypeOf["attrs"])
    <3>1. /\ 1 \in DOMAIN sent /\ sent[1] = "id" /\ 2 \in DOMAIN sent /\ sent[2] = "path"
          /\ 3 \in DOMAIN sent /\ sent[3] = "attrs"
      BY <2>1
    <3> QED BY <1>1, <3>1
  <2>3. p["id"] \in Uint32 /\ p["path"] \in Texts /\ p["attrs"] \in FileStats
    BY <2>2, FieldTypings
  <2>4. p["flags"] = p["attrs"].flags
    BY <1>6 DEF Sendable
  <2>5. DecodedBy(r, kind, Body(s, packet)) = UnmarshalPacket(kind, Body(s, packet))
    <3>1. kind # "unknown"
      BY <1>6
    <3> QED BY <1>6, <3>1 DEF DecodedBy
  <2> QED BY <1>1, <1>6, <2>1, <2>3, <2>4, <2>5, MkdirAttrs
<1> QED BY <1>4, <1>5, <1>6 DEF Codec

-----------------------------------------------------------------------------
(* Reading what was sent.                                                  *)

ReadWith(codec, b) == IF codec = "sftp" THEN RecvPacket(b) ELSE FxReadPacket(b)

\* sshfx takes a body of a word or more, which every packet has.
LEMMA FxFrameRoundTrip ==
  ASSUME NEW type \in Bytes, NEW body \in Seq(Bytes), 1 + Len(body) \in Uint32,
         1 + Len(body) <= MaxMsgLength, Len(body) >= WordLen, NEW rest \in Seq(Bytes)
  PROVE  FxReadPacket(SendPacket(type, body) \o rest)
           = [status |-> "ok", type |-> type, body |-> body, rest |-> rest]
<1> DEFINE n == 1 + Len(body)
<1> DEFINE b == SendPacket(type, body) \o rest
<1>1. PICK after : FrameAfter(type, body, rest, after)
  BY FrameHead
<1>2. n \in Nat /\ n >= 1 + WordLen /\ n <= MaxMsgLength /\ Len(rest) \in Nat
  BY DEF WordLen
<1>3. /\ UnmarshalUint32Safe(b) = Got(n, after) /\ Len(after) = n + Len(rest)
      /\ ~ (Len(b) < WordLen) /\ after \in Seq(Bytes)
      /\ after[1] = type /\ SubSeq(after, 2, n) = body /\ Drop(after, n) = rest
  BY <1>1 DEF FrameAfter
<1>4. b \in Seq(Bytes)
  <2>1. MarshalUint32(1 + Len(body)) \in Seq(Bytes)
    BY Uint32Bytes
  <2>2. <<type>> \in Seq(Bytes)
    OBVIOUS
  <2> QED BY <2>1, <2>2, Concat DEF SendPacket
<1> HIDE DEF n, b
<1>5. ConsumeUint32(Buffer(b)) = Got(n, after)
  <2>1. Buffer(b) = Got(<<>>, b)
    BY DEF Got, Buffer
  <2>2. Alike(ConsumeUint32(Got(<<>>, b)), UnmarshalUint32Safe(b))
    BY <1>4, Uint32Alike
  <2>3. Got(n, after) # Short
    BY GotFields, ShortFields
  <2> QED BY <1>3, <2>1, <2>2, <2>3 DEF Alike
<1>6. FxReadBody(Got(n, after)) = [status |-> "ok", type |-> type, body |-> body, rest |-> rest]
  <2>1. ~ (n < 1 + WordLen) /\ ~ (n > MaxMsgLength) /\ after # <<>> /\ ~ (Len(after) < n)
    BY <1>2, <1>3, MaxMsgLengthAssumption DEF WordLen
  <2>2. Got(n, after).v = n /\ Got(n, after).rest = after
    BY GotFields
  <2> QED BY <1>3, <2>1, <2>2 DEF FxReadBody
<1>7. FxReadPacket(b) = FxReadBody(ConsumeUint32(Buffer(b)))
  BY <1>3 DEF FxReadPacket
<1> QED BY <1>5, <1>6, <1>7 DEF b

LEMMA FxCutFrame ==
  ASSUME NEW type \in Bytes, NEW body \in Seq(Bytes), 1 + Len(body) \in Uint32,
         NEW k \in 1..(Len(SendPacket(type, body)) - 1)
  PROVE  FxReadPacket(SubSeq(SendPacket(type, body), 1, k)).status # "ok"
<1> DEFINE n == 1 + Len(body)
<1> DEFINE cut == SubSeq(SendPacket(type, body), 1, k)
<1>1. n \in Nat /\ n > 0
  OBVIOUS
<1>2. cut \in Seq(Bytes) /\ Len(cut) = k /\ k \in Nat /\ k > 0 /\ cut # <<>>
  BY CutHead
<1>3. CASE k < WordLen
  <2> HIDE DEF cut
  <2>1. FxReadPacket(cut).status # "ok"
    BY <1>2, <1>3 DEF FxReadPacket
  <2> QED BY <2>1 DEF cut
<1>4. CASE k >= WordLen
  <2>1. PICK tail \in Seq(Bytes) :
          UnmarshalUint32Safe(cut) = Got(n, tail) /\ Len(tail) = k - WordLen /\ k - WordLen < n
    BY <1>4, CutHead
  <2> HIDE DEF n, cut
  <2>2. ConsumeUint32(Buffer(cut)) = Got(n, tail)
    <3>1. Buffer(cut) = Got(<<>>, cut)
      BY DEF Got, Buffer
    <3>2. Alike(ConsumeUint32(Got(<<>>, cut)), UnmarshalUint32Safe(cut))
      BY <1>2, Uint32Alike
    <3>3. Got(n, tail) # Short
      BY GotFields, ShortFields
    <3> QED BY <2>1, <3>1, <3>2, <3>3 DEF Alike
  <2>3. FxReadBody(Got(n, tail)).status # "ok"
    <3>1. Got(n, tail).v = n /\ Got(n, tail).rest = tail
      BY GotFields
    <3>2. Len(tail) < n
      BY <1>2, <2>1
    <3> QED BY <1>1, <3>1, <3>2, MaxMsgLengthAssumption DEF FxReadBody, WordLen
  <2>4. FxReadPacket(cut) = FxReadBody(ConsumeUint32(Buffer(cut)))
    BY <1>2, <1>4 DEF FxReadPacket, WordLen
  <2> QED BY <2>2, <2>3, <2>4 DEF cut
<1> QED BY <1>2, <1>3, <1>4 DEF WordLen

LEMMA NoBytesNoFrame ==
  ASSUME NEW codec PROVE ReadWith(codec, <<>>).status # "ok"
<1>1. Len(<<>>) < WordLen
  BY DEF WordLen
<1> QED BY <1>1 DEF ReadWith, RecvPacket, FxReadPacket

\* A sent packet is read whole.
LEMMA FrameReadBack ==
  ASSUME NEW s \in Codec, NEW r \in Codec, NEW packet, Encodes(s, packet.kind), Sendable(s, packet),
         NEW rest \in Seq(Bytes)
  PROVE  ReadWith(r, Frame(s, packet) \o rest)
           = [status |-> "ok", type |-> PacketType[packet.kind], body |-> Body(s, packet), rest |-> rest]
<1> DEFINE body == Body(s, packet)
<1> DEFINE type == PacketType[packet.kind]
<1>1. /\ type \in Bytes /\ body \in Seq(Bytes) /\ 1 + Len(body) \in Uint32 /\ 1 + Len(body) <= MaxMsgLength
      /\ Frame(s, packet) = SendPacket(type, body)
  BY FrameBytes
<1>2. Len(body) >= WordLen
  <2> DEFINE layout == Layout(s, packet.kind)
  <2>1. /\ GoodLayout(layout) /\ body = MarshalFields(layout, packet.p)
        /\ \A i \in DOMAIN layout : packet.p[layout[i]] \in Values(TypeOf[layout[i]])
    BY BodyBytes
  <2> HIDE DEF layout, body
  <2>2. PICK v \in Uint32, left \in Seq(Bytes) : Len(MarshalFields(layout, packet.p)) = WordLen + Len(left)
    BY <2>1, BodyHead
  <2>3. Len(left) \in Nat
    BY <2>2
  <2> QED BY <2>1, <2>2, <2>3 DEF WordLen
<1> HIDE DEF body, type
<1>3. RecvPacket(SendPacket(type, body) \o rest) = [status |-> "ok", type |-> type, body |-> body, rest |-> rest]
  BY <1>1, FrameRoundTrip
<1>4. FxReadPacket(SendPacket(type, body) \o rest) = [status |-> "ok", type |-> type, body |-> body, rest |-> rest]
  BY <1>1, <1>2, FxFrameRoundTrip
<1> QED BY <1>1, <1>3, <1>4 DEF ReadWith, body, type

\* One that is cut is not, and recvPacket does not take it for the end of the connection.
LEMMA CutIsNotRead ==
  ASSUME NEW s \in Codec, NEW r \in Codec, NEW packet, Encodes(s, packet.kind), Sendable(s, packet),
         NEW k \in 0..(Len(Frame(s, packet)) - 1)
  PROVE  LET cut == SubSeq(Frame(s, packet), 1, k) IN
           /\ ReadWith(r, cut).status # "ok"
           /\ r = "sftp" /\ ReadWith(r, cut).status = "eof" => cut = <<>>
<1> DEFINE body == Body(s, packet)
<1> DEFINE type == PacketType[packet.kind]
<1> DEFINE cut == SubSeq(Frame(s, packet), 1, k)
<1>1. /\ type \in Bytes /\ body \in Seq(Bytes) /\ 1 + Len(body) \in Uint32 /\ 1 + Len(body) <= MaxMsgLength
      /\ Frame(s, packet) = SendPacket(type, body) /\ Frame(s, packet) \in Seq(Bytes)
  BY FrameBytes
<1>2. CASE k = 0
  <2>1. cut = <<>>
    BY <1>1, <1>2
  <2> QED BY <2>1, NoBytesNoFrame
<1>3. CASE k # 0
  <2> HIDE DEF body, type
  <2>1. k \in 1..(Len(SendPacket(type, body)) - 1)
    BY <1>1, <1>3
  <2>2. RecvPacket(SubSeq(SendPacket(type, body), 1, k)).status = "unexpectedEOF"
    BY <1>1, <2>1, CutFrameIsNoPacket
  <2>3. FxReadPacket(SubSeq(SendPacket(type, body), 1, k)).status # "ok"
    BY <1>1, <2>1, FxCutFrame
  <2> QED BY <1>1, <2>2, <2>3 DEF ReadWith, Codec
<1> QED BY <1>2, <1>3

-----------------------------------------------------------------------------
(* How far the packets have come.                                          *)

\* b is the first n bytes of a packet that s has sent and of what follows it.
Incoming(s, packet, frame, rest, n, b) ==
  /\ s \in Codec /\ Encodes(s, packet.kind) /\ Sendable(s, packet) /\ frame = Frame(s, packet)
  /\ rest \in Seq(Bytes) /\ n \in Nat /\ n <= Len(frame) + Len(rest)
  /\ b = SubSeq(frame \o rest, 1, n)

\* What a reader finds there: the packet, or no packet.
LEMMA FrameArrives ==
  \A s, packet, frame, rest, n, b : \A r \in Codec :
    (Incoming(s, packet, frame, rest, n, b) /\ n >= Len(frame)) =>
      /\ ReadWith(r, b).status = "ok" /\ ReadWith(r, b).type = PacketType[packet.kind]
      /\ ReadWith(r, b).body = Body(s, packet)
      /\ ReadWith(r, b).rest = SubSeq(rest, 1, n - Len(frame))
<1> SUFFICES ASSUME NEW s, NEW packet, NEW frame, NEW rest, NEW n, NEW b, NEW r \in Codec,
                    Incoming(s, packet, frame, rest, n, b), n >= Len(frame)
             PROVE  /\ ReadWith(r, b).status = "ok" /\ ReadWith(r, b).type = PacketType[packet.kind]
                    /\ ReadWith(r, b).body = Body(s, packet)
                    /\ ReadWith(r, b).rest = SubSeq(rest, 1, n - Len(frame))
  OBVIOUS
<1>1. /\ s \in Codec /\ Encodes(s, packet.kind) /\ Sendable(s, packet) /\ frame = Frame(s, packet)
      /\ rest \in Seq(Bytes) /\ n \in Nat /\ n <= Len(frame) + Len(rest)
      /\ b = SubSeq(frame \o rest, 1, n) /\ frame \in Seq(Bytes)
  BY FrameBytes DEF Incoming
<1> DEFINE left == SubSeq(rest, 1, n - Len(frame))
<1>2. b = frame \o left
  BY <1>1, CutOfConcat
<1>3. left \in Seq(Bytes)
  BY <1>1
<1> HIDE DEF left
<1>4. ReadWith(r, Frame(s, packet) \o left)
        = [status |-> "ok", type |-> PacketType[packet.kind], body |-> Body(s, packet), rest |-> left]
  BY <1>1, <1>3, FrameReadBack
<1>5. b = Frame(s, packet) \o left
  BY <1>1, <1>2
<1>6. /\ ReadWith(r, b).status = "ok" /\ ReadWith(r, b).type = PacketType[packet.kind]
      /\ ReadWith(r, b).body = Body(s, packet) /\ ReadWith(r, b).rest = left
  BY <1>4, <1>5
<1> QED BY <1>6 DEF left

LEMMA FrameDoesNot ==
  \A s, packet, frame, rest, n, b : \A r \in Codec :
    (Incoming(s, packet, frame, rest, n, b) /\ n < Len(frame)) =>
      ReadWith(r, b).status # "ok" /\ ((r = "sftp" /\ ReadWith(r, b).status = "eof") => b = <<>>)
<1> SUFFICES ASSUME NEW s, NEW packet, NEW frame, NEW rest, NEW n, NEW b, NEW r \in Codec,
                    Incoming(s, packet, frame, rest, n, b), n < Len(frame)
             PROVE  ReadWith(r, b).status # "ok" /\ ((r = "sftp" /\ ReadWith(r, b).status = "eof") => b = <<>>)
  OBVIOUS
<1>1. /\ s \in Codec /\ Encodes(s, packet.kind) /\ Sendable(s, packet) /\ frame = Frame(s, packet)
      /\ rest \in Seq(Bytes) /\ n \in Nat /\ n <= Len(frame) + Len(rest)
      /\ b = SubSeq(frame \o rest, 1, n) /\ frame \in Seq(Bytes)
  BY FrameBytes DEF Incoming
<1>2. b = SubSeq(frame, 1, n) /\ n \in 0..(Len(frame) - 1)
  BY <1>1
<1>3. LET cut == SubSeq(Frame(s, packet), 1, n) IN
         /\ ReadWith(r, cut).status # "ok"
         /\ r = "sftp" /\ ReadWith(r, cut).status = "eof" => cut = <<>>
  BY <1>1, <1>2, CutIsNotRead
<1> QED BY <1>1, <1>2, <1>3

DecodedWith(codec, type, body) ==
  LET kind == IF codec = "sftp" THEN KindOf(type, body) ELSE FxKindOf(type, body) IN
    Entry(kind, body, DecodedBy(codec, kind, body))

LEMMA DecodedIsWith ==
  ASSUME NEW type, NEW body
  PROVE  Decoded(type, body) = DecodedWith(receiver, type, body)
BY DEF Decoded, DecodedAs, UnmarshalAs, DecodedWith, DecodedBy

\* What r makes of a packet that s has sent.
Arrival(s, r, packet) == DecodedWith(r, PacketType[packet.kind], Body(s, packet))

\* Of the frames first and second, n bytes arrive.
Stage(first, second, one, two, n, b, got) ==
  \/ got = <<>> /\ b = SubSeq(first \o second, 1, n)
  \/ got = <<one>> /\ n >= Len(first) /\ b = SubSeq(second, 1, n - Len(first))
  \/ got = <<one, two>> /\ n = Len(first) + Len(second) /\ b = <<>>

Frame1 == Frame(sender, sample)
Frame2 == Frame(sender, Follower)

ArrivedAt(n) ==
  /\ n <= Len(Frame1) + Len(Frame2)
  /\ Stage(Frame1, Frame2, Arrival(sender, receiver, sample), Arrival(sender, receiver, Follower),
           n, stream, received)
  /\ status # "ok" => ReadWith(receiver, stream).status = status

Course == /\ ~ altered => \E n \in Nat : ArrivedAt(n)
          /\ carried # Nothing => ~ altered

LEMMA TwoFrames ==
  Setting => /\ sender \in Codec /\ receiver \in Codec
             /\ Encodes(sender, sample.kind) /\ Sendable(sender, sample)
             /\ Encodes(sender, Follower.kind) /\ Sendable(sender, Follower)
             /\ Frame1 \in Seq(Bytes) /\ Frame2 \in Seq(Bytes)
             /\ Len(Frame1) \in Nat /\ Len(Frame2) \in Nat
             /\ Len(Frame1) > 0 /\ Len(Frame2) > 0
             /\ Len(Frame1) = WordLen + 1 + Len(Body(sender, sample))
             /\ Len(Frame2) = WordLen + 1 + Len(Body(sender, Follower))
<1> SUFFICES ASSUME Setting
             PROVE /\ sender \in Codec /\ receiver \in Codec
                   /\ Encodes(sender, sample.kind) /\ Sendable(sender, sample)
                   /\ Encodes(sender, Follower.kind) /\ Sendable(sender, Follower)
                   /\ Frame1 \in Seq(Bytes) /\ Frame2 \in Seq(Bytes)
                   /\ Len(Frame1) \in Nat /\ Len(Frame2) \in Nat
                   /\ Len(Frame1) > 0 /\ Len(Frame2) > 0
                   /\ Len(Frame1) = WordLen + 1 + Len(Body(sender, sample))
                   /\ Len(Frame2) = WordLen + 1 + Len(Body(sender, Follower))
  OBVIOUS
<1>1. sender \in Codec /\ receiver \in Codec /\ Encodes(sender, sample.kind) /\ Sendable(sender, sample)
  BY DEF Setting
<1>2. Encodes(sender, Follower.kind) /\ Sendable(sender, Follower)
  BY <1>1, FollowerSendable
<1>3. /\ Frame1 \in Seq(Bytes) /\ Body(sender, sample) \in Seq(Bytes)
      /\ Len(Frame1) = WordLen + 1 + Len(Body(sender, sample))
  BY <1>1, FrameBytes DEF Frame1
<1>4. /\ Frame2 \in Seq(Bytes) /\ Body(sender, Follower) \in Seq(Bytes)
      /\ Len(Frame2) = WordLen + 1 + Len(Body(sender, Follower))
  BY <1>1, <1>2, FrameBytes DEF Frame2
<1>5. Len(Frame1) \in Nat /\ Len(Frame1) > 0
  BY <1>3 DEF WordLen
<1>6. Len(Frame2) \in Nat /\ Len(Frame2) > 0
  BY <1>4 DEF WordLen
<1> QED BY <1>1, <1>2, <1>3, <1>4, <1>5, <1>6

LEMMA InitCourse == Init => Course
<1> SUFFICES ASSUME Init PROVE Course
  OBVIOUS
<1>1. Setting
  BY InitSetting
<1>2. received = <<>> /\ stream = Frame1 \o Frame2 /\ status = "ok" /\ altered = FALSE
  BY DEF Init, Frame1, Frame2
<1> DEFINE n == Len(Frame1) + Len(Frame2)
<1>3. n \in Nat /\ stream = SubSeq(Frame1 \o Frame2, 1, n)
  BY <1>1, <1>2, TwoFrames
<1>4. ArrivedAt(n)
  BY <1>2, <1>3 DEF ArrivedAt, Stage
<1> QED BY <1>2, <1>3, <1>4 DEF Course

LEMMA CourseCut ==
  ASSUME Setting, Course, NEW k \in 0..(Len(stream) - 1), Cut(k)
  PROVE  Course'
<1>1. /\ received = <<>> /\ status = "ok" /\ ~ altered /\ stream' = SubSeq(stream, 1, k)
      /\ UNCHANGED <<sender, receiver, sample, carried, received, altered, status>>
  BY DEF Cut, Untouched
<1>2. PICK n \in Nat : ArrivedAt(n)
  BY <1>1 DEF Course
<1>3. n <= Len(Frame1) + Len(Frame2)
  BY <1>2 DEF ArrivedAt
<1>4. stream = SubSeq(Frame1 \o Frame2, 1, n)
  <2> DEFINE one == Arrival(sender, receiver, sample)
  <2> DEFINE two == Arrival(sender, receiver, Follower)
  <2>1. Stage(Frame1, Frame2, one, two, n, stream, received)
    BY <1>2 DEF ArrivedAt
  <2> HIDE DEF one, two
  <2>2. received # <<one>> /\ received # <<one, two>>
    BY <1>1
  <2> QED BY <2>1, <2>2 DEF Stage
<1>5. Frame1 \o Frame2 \in Seq(Bytes) /\ Len(Frame1 \o Frame2) = Len(Frame1) + Len(Frame2)
  BY TwoFrames
<1>6. k \in Nat /\ k <= n
  BY <1>3, <1>4, <1>5
<1>7. stream' = SubSeq(Frame1 \o Frame2, 1, k)
  BY <1>1, <1>3, <1>4, <1>5, <1>6
<1>8. Frame1' = Frame1 /\ Frame2' = Frame2
  BY <1>1 DEF Frame1, Frame2
<1>9. k <= Len(Frame1) + Len(Frame2)
  BY <1>3, <1>6, TwoFrames
<1>10. ArrivedAt(k)'
  BY <1>1, <1>7, <1>8, <1>9 DEF ArrivedAt, Stage
<1> QED BY <1>1, <1>6, <1>10 DEF Course, Cut

LEMMA CourseAltered ==
  ASSUME NEW i, NEW b, Alter(i, b)
  PROVE  Course'
BY DEF Alter, Course

\* What the reader returns on the way, and how far it comes by it.
LEMMA CourseRead ==
  ASSUME Setting, NEW n \in Nat, ArrivedAt(n)
  PROVE  LET frame == ReadWith(receiver, stream)
             one   == Arrival(sender, receiver, sample)
             two   == Arrival(sender, receiver, Follower) IN
           /\ (received = <<>> /\ n < Len(Frame1)) =>
                (frame.status # "ok" /\ ((receiver = "sftp" /\ frame.status = "eof") => stream = <<>>))
           /\ (received = <<>> /\ n >= Len(Frame1)) =>
                /\ frame.status = "ok" /\ DecodedWith(receiver, frame.type, frame.body) = one
                /\ frame.rest = SubSeq(Frame2, 1, n - Len(Frame1))
           /\ (received = <<one>> /\ n < Len(Frame1) + Len(Frame2)) =>
                (frame.status # "ok" /\ ((receiver = "sftp" /\ frame.status = "eof") => stream = <<>>))
           /\ (received = <<one>> /\ n = Len(Frame1) + Len(Frame2)) =>
                /\ frame.status = "ok" /\ DecodedWith(receiver, frame.type, frame.body) = two
                /\ frame.rest = <<>>
           /\ received = <<one, two>> => (frame.status # "ok" /\ stream = <<>>)
<1> DEFINE frame == ReadWith(receiver, stream)
<1> DEFINE one == Arrival(sender, receiver, sample)
<1> DEFINE two == Arrival(sender, receiver, Follower)
<1>1. Stage(Frame1, Frame2, one, two, n, stream, received) /\ n <= Len(Frame1) + Len(Frame2)
  BY DEF ArrivedAt
<1>2. ASSUME received = <<>>, n < Len(Frame1)
      PROVE frame.status # "ok" /\ ((receiver = "sftp" /\ frame.status = "eof") => stream = <<>>)
  <2>1. stream = SubSeq(Frame1 \o Frame2, 1, n)
    <3> HIDE DEF one, two
    <3> QED BY <1>1, <1>2 DEF Stage
  <2>2. Incoming(sender, sample, Frame1, Frame2, n, stream)
    BY <1>1, <2>1, TwoFrames DEF Frame1, Incoming
  <2>3. receiver \in Codec
    BY TwoFrames
  <2> QED BY <1>2, <2>2, <2>3, FrameDoesNot
<1>3. ASSUME received = <<>>, n >= Len(Frame1)
      PROVE /\ frame.status = "ok" /\ DecodedWith(receiver, frame.type, frame.body) = one
            /\ frame.rest = SubSeq(Frame2, 1, n - Len(Frame1))
  <2>1. stream = SubSeq(Frame1 \o Frame2, 1, n)
    <3> HIDE DEF one, two
    <3> QED BY <1>1, <1>3 DEF Stage
  <2>2. /\ frame.status = "ok" /\ frame.type = PacketType[sample.kind]
        /\ frame.body = Body(sender, sample) /\ frame.rest = SubSeq(Frame2, 1, n - Len(Frame1))
    <3>1. Incoming(sender, sample, Frame1, Frame2, n, stream)
      BY <1>1, <2>1, TwoFrames DEF Frame1, Incoming
    <3>2. receiver \in Codec
      BY TwoFrames
    <3>3. frame.status = "ok" /\ frame.type = PacketType[sample.kind] /\ frame.body = Body(sender, sample)
      BY <1>3, <3>1, <3>2, FrameArrives
    <3>4. frame.rest = SubSeq(Frame2, 1, n - Len(Frame1))
      BY <1>3, <3>1, <3>2, FrameArrives
    <3> QED BY <3>3, <3>4
  <2> HIDE DEF frame
  <2> QED BY <2>2 DEF Arrival
<1>4. ASSUME received = <<one>>
      PROVE Incoming(sender, Follower, Frame2, <<>>, n - Len(Frame1), stream)
  <2> HIDE DEF one, two
  <2>1. n >= Len(Frame1) /\ stream = SubSeq(Frame2, 1, n - Len(Frame1))
    BY <1>1, <1>4 DEF Stage
  <2>2. Frame2 \o <<>> = Frame2 /\ <<>> \in Seq(Bytes) /\ Len(<<>>) = 0
    BY TwoFrames
  <2>3. n - Len(Frame1) \in Nat /\ n - Len(Frame1) <= Len(Frame2) + 0
    BY <1>1, <2>1, TwoFrames
  <2> QED BY <2>1, <2>2, <2>3, TwoFrames DEF Incoming, Frame2
<1>5. ASSUME received = <<one>>, n < Len(Frame1) + Len(Frame2)
      PROVE frame.status # "ok" /\ ((receiver = "sftp" /\ frame.status = "eof") => stream = <<>>)
  <2>1. n - Len(Frame1) < Len(Frame2)
    BY <1>5, TwoFrames
  <2> QED BY <1>4, <1>5, <2>1, TwoFrames, FrameDoesNot
<1>6. ASSUME received = <<one>>, n = Len(Frame1) + Len(Frame2)
      PROVE /\ frame.status = "ok" /\ DecodedWith(receiver, frame.type, frame.body) = two
            /\ frame.rest = <<>>
  <2>1. n - Len(Frame1) >= Len(Frame2)
    BY <1>6, TwoFrames
  <2>2. /\ frame.status = "ok" /\ frame.type = PacketType[Follower.kind]
        /\ frame.body = Body(sender, Follower)
        /\ frame.rest = SubSeq(<<>>, 1, n - Len(Frame1) - Len(Frame2))
    BY <1>4, <1>6, <2>1, TwoFrames, FrameArrives
  <2>3. SubSeq(<<>>, 1, n - Len(Frame1) - Len(Frame2)) = <<>>
    <3>1. n - Len(Frame1) - Len(Frame2) = 0
      BY <1>6, TwoFrames
    <3> QED BY <3>1
  <2> HIDE DEF frame
  <2> QED BY <2>2, <2>3 DEF Arrival
<1>7. ASSUME received = <<one, two>> PROVE frame.status # "ok" /\ stream = <<>>
  <2>1. stream = <<>>
    <3> HIDE DEF one, two
    <3> QED BY <1>1, <1>7 DEF Stage
  <2> QED BY <2>1, NoBytesNoFrame
<1> QED BY <1>1, <1>2, <1>3, <1>5, <1>6, <1>7

LEMMA TwoMade == \A x, y : Append(<<x>>, y) = <<x, y>>
<1> SUFFICES ASSUME NEW x, NEW y PROVE Append(<<x>>, y) = <<x, y>>
  OBVIOUS
<1> DEFINE f == Append(<<x>>, y)
<1>1. <<x>> \in Seq({x, y}) /\ y \in {x, y} /\ Len(<<x>>) = 1 /\ <<x>>[1] = x
  OBVIOUS
<1>2. f \in Seq({x, y}) /\ Len(f) = 2
  BY <1>1
<1>3. f[1] = x /\ f[2] = y
  BY <1>1
<1> HIDE DEF f
<1>4. f = [i \in 1..2 |-> f[i]]
  BY <1>2
<1>5. f = <<x, y>>
  BY <1>3, <1>4
<1> QED BY <1>5 DEF f

LEMMA CourseReceived ==
  ASSUME Setting, Course, status = "ok", TakeFrame(ReadFrame)
  PROVE  Course'
<1> DEFINE frame == ReadWith(receiver, stream)
<1> DEFINE one == Arrival(sender, receiver, sample)
<1> DEFINE two == Arrival(sender, receiver, Follower)
<1>1. /\ status' = frame.status
      /\ \/ /\ frame.status = "ok" /\ stream' = frame.rest
            /\ received' = Append(received, DecodedWith(receiver, frame.type, frame.body))
         \/ frame.status # "ok" /\ UNCHANGED <<received, stream>>
      /\ UNCHANGED <<sender, receiver, sample, carried, altered>>
  BY DecodedIsWith DEF TakeFrame, ReadFrame, ReadWith
<1>2. SUFFICES ASSUME ~ altered, NEW n \in Nat, ArrivedAt(n) PROVE ArrivedAt(n)'
  BY <1>1 DEF Course
<1>3. Frame1' = Frame1 /\ Frame2' = Frame2 /\ one' = one /\ two' = two
  BY <1>1 DEF Frame1, Frame2
<1>4. Stage(Frame1, Frame2, one, two, n, stream, received) /\ n <= Len(Frame1) + Len(Frame2)
  BY <1>2 DEF ArrivedAt
<1>5. CASE frame.status # "ok"
  <2>1. UNCHANGED <<received, stream, receiver>> /\ status' = frame.status
    BY <1>1, <1>5
  <2> QED BY <1>3, <1>4, <2>1 DEF ArrivedAt
<1>6. CASE frame.status = "ok"
  <2>1. /\ status' = "ok" /\ stream' = frame.rest
        /\ received' = Append(received, DecodedWith(receiver, frame.type, frame.body))
    BY <1>1, <1>6
  <2>2. received # <<one, two>>
    BY <1>2, <1>6, CourseRead
  <2>3. CASE received = <<>>
    <3>1. n >= Len(Frame1)
      BY <1>2, <1>6, <2>3, CourseRead, TwoFrames
    <3>2. DecodedWith(receiver, frame.type, frame.body) = one /\ frame.rest = SubSeq(Frame2, 1, n - Len(Frame1))
      BY <1>2, <2>3, <3>1, CourseRead
    <3> HIDE DEF frame, one, two
    <3>3. received' = <<one>>
      BY <2>1, <2>3, <3>2
    <3>4. Stage(Frame1', Frame2', one', two', n, stream', received')
      BY <1>3, <2>1, <3>1, <3>2, <3>3 DEF Stage
    <3> QED BY <1>3, <1>4, <2>1, <3>4 DEF ArrivedAt, one, two
  <2>4. CASE received = <<one>>
    <3>1. n = Len(Frame1) + Len(Frame2)
      <4>1. ~ (n < Len(Frame1) + Len(Frame2))
        BY <1>2, <1>6, <2>4, CourseRead
      <4> QED BY <1>4, <4>1, TwoFrames
    <3>2. DecodedWith(receiver, frame.type, frame.body) = two /\ frame.rest = <<>>
      BY <1>2, <2>4, <3>1, CourseRead
    <3> HIDE DEF frame, one, two
    <3>3. received' = <<one, two>>
      BY <2>1, <2>4, <3>2, TwoMade
    <3>4. Stage(Frame1', Frame2', one', two', n, stream', received')
      BY <1>3, <2>1, <3>1, <3>2, <3>3 DEF Stage
    <3> QED BY <1>3, <1>4, <2>1, <3>4 DEF ArrivedAt, one, two
  <2>5. received = <<>> \/ received = <<one>>
    <3> HIDE DEF one, two
    <3> QED BY <1>4, <2>2 DEF Stage
  <2> QED BY <2>3, <2>4, <2>5
<1> QED BY <1>5, <1>6

LEMMA CourseKept == Setting /\ Course /\ [Next]_vars => Course'
<1> SUFFICES ASSUME Setting, Course, [Next]_vars PROVE Course'
  OBVIOUS
<1>1. CASE \E n \in 0..(Len(stream) - 1) : Cut(n)
  BY <1>1, CourseCut
<1>2. CASE \E i \in 1..Len(Frame(sender, sample)), b \in AlterTo : Alter(i, b)
  BY <1>2, CourseAltered
<1>3. CASE Receive
  BY <1>3, CourseReceived DEF Receive
<1>4. CASE UNCHANGED vars
  BY <1>4 DEF vars, Course, ArrivedAt, Frame1, Frame2
<1> QED BY <1>1, <1>2, <1>3, <1>4 DEF Next

-----------------------------------------------------------------------------
(* The round trip.                                                         *)

\* The fields of a layout, as p has them.
FieldsOf(layout, p) == [f \in Range(layout) |-> p[f]]

LEMMA FieldsKept ==
  ASSUME NEW layout, NEW p
  PROVE  /\ DOMAIN FieldsOf(layout, p) = Range(layout)
         /\ \A f \in Range(layout) : FieldsOf(layout, p)[f] = p[f]
BY DEF FieldsOf

\* What becomes of a packet that the receiver's codec can decode.
LEMMA PacketArrives ==
  ASSUME NEW s \in Codec, NEW r \in Codec, NEW packet, Encodes(s, packet.kind), Sendable(s, packet),
         Reads(r, packet.kind)
  PROVE  LET e == Arrival(s, r, packet) IN
           /\ e.kind = packet.kind /\ e.failed = FALSE
           /\ e.p = FieldsOf(ReadLayout(r, packet.kind), packet.p)
<1> DEFINE type == PacketType[packet.kind]
<1> DEFINE body == Body(s, packet)
<1>1. (packet.kind \in DOMAIN Read => KindOf(type, body) = packet.kind)
      /\ (packet.kind \in DOMAIN FxLayout => FxKindOf(type, body) = packet.kind)
  BY KindRecognised
<1>2. (IF r = "sftp" THEN KindOf(type, body) ELSE FxKindOf(type, body)) = packet.kind
  BY <1>1 DEF Reads, KindsOf
<1>3. Arrival(s, r, packet) = Entry(packet.kind, body, DecodedBy(r, packet.kind, body))
  BY <1>2 DEF Arrival, DecodedWith
<1>4. PICK rest : DecodedBy(r, packet.kind, body) = Got(FieldsOf(ReadLayout(r, packet.kind), packet.p), rest)
  BY CodecsUnderstand DEF FieldsOf
<1> HIDE DEF type, body
<1> QED BY <1>3, <1>4, EntryFields, GotFields

LEMMA ArrivalBody ==
  ASSUME NEW s, NEW r, NEW packet
  PROVE  Arrival(s, r, packet).body = Body(s, packet)
BY EntryFields DEF Arrival, DecodedWith

LEMMA ArrivalSame ==
  ASSUME receiver \in Codec, NEW s \in Codec, NEW packet, Encodes(s, packet.kind), Sendable(s, packet)
  PROVE  Same(Arrival(s, receiver, packet), packet)
<1> DEFINE e == Arrival(s, receiver, packet)
<1> SUFFICES ASSUME Decodes(receiver, packet.kind)
             PROVE  /\ e.kind = packet.kind /\ ~ e.failed
                    /\ \A f \in DOMAIN e.p : f \in DOMAIN packet.p => e.p[f] = packet.p[f]
  BY DEF Same
<1>1. Reads(receiver, packet.kind)
  BY DEF Decodes, Reads, KindsOf
<1>2. LET a == Arrival(s, receiver, packet) IN
        /\ a.kind = packet.kind /\ a.failed = FALSE
        /\ a.p = FieldsOf(ReadLayout(receiver, packet.kind), packet.p)
  BY <1>1, PacketArrives
<1> QED BY <1>2, FieldsKept

\* What arrives of the two frames is always accounted for.
LEMMA ArrivedIs ==
  ASSUME Setting, NEW n \in Nat, ArrivedAt(n)
  PROVE  Arrived = n
<1> DEFINE one == Arrival(sender, receiver, sample)
<1> DEFINE two == Arrival(sender, receiver, Follower)
<1> DEFINE loop == FoldLeft(LAMBDA n0, e : n0 + WordLen + 1 + Len(e.body), Len(stream), received)
<1>1. Stage(Frame1, Frame2, one, two, n, stream, received) /\ n <= Len(Frame1) + Len(Frame2)
  BY DEF ArrivedAt
<1>2. /\ WordLen + 1 + Len(one.body) = Len(Frame1) /\ WordLen + 1 + Len(two.body) = Len(Frame2)
      /\ Len(one.body) \in Nat /\ Len(two.body) \in Nat /\ WordLen = 2
  <2>1. Body(sender, sample) \in Seq(Bytes) /\ Body(sender, Follower) \in Seq(Bytes)
    BY TwoFrames, BodyBytes
  <2>2. one.body = Body(sender, sample) /\ two.body = Body(sender, Follower)
    BY ArrivalBody
  <2> QED BY <2>1, <2>2, TwoFrames DEF WordLen
<1>3. /\ Frame1 \in Seq(Bytes) /\ Frame2 \in Seq(Bytes) /\ Len(Frame1) \in Nat /\ Len(Frame2) \in Nat
  BY TwoFrames
<1>9. PICK b1 \in Nat, b2 \in Nat, l1 \in Nat, l2 \in Nat :
         /\ b1 = Len(one.body) /\ b2 = Len(two.body) /\ l1 = Len(Frame1) /\ l2 = Len(Frame2)
         /\ 2 + 1 + b1 = l1 /\ 2 + 1 + b2 = l2
  BY <1>2, <1>3
<1>4. Arrived = loop
  BY Zenon DEF Arrived
<1> HIDE DEF loop, one, two
<1>5. ASSUME NEW m \in Nat, DOMAIN received = 1..m
      PROVE  \E run : /\ loop = run[m] /\ run[0] = Len(stream)
                      /\ \A k \in 0..(m - 1) : run[k + 1] = run[k] + WordLen + 1 + Len(received[k + 1].body)
  <2>1. PICK run : Runs("arrived", "any", Len(stream), received, m, run) /\ loop = run[m]
    BY <1>5, ArrivedLoop DEF loop
  <2> QED BY <2>1 DEF Runs, Turn
<1>6. CASE received = <<>>
  <2>1. Len(stream) = n
    <3>1. stream = SubSeq(Frame1 \o Frame2, 1, n)
      BY <1>1, <1>6 DEF Stage
    <3>2. Frame1 \o Frame2 \in Seq(Bytes) /\ Len(Frame1 \o Frame2) = Len(Frame1) + Len(Frame2)
      BY <1>3
    <3> QED BY <1>1, <3>1, <3>2
  <2>2. PICK run : loop = run[0] /\ run[0] = Len(stream)
    BY <1>5, <1>6
  <2> QED BY <1>4, <2>1, <2>2
<1>7. CASE received = <<one>>
  <2>1. Len(stream) = n - Len(Frame1) /\ Len(stream) \in Nat
    <3>1. stream = SubSeq(Frame2, 1, n - Len(Frame1)) /\ n >= Len(Frame1)
      BY <1>1, <1>7 DEF Stage
    <3> QED BY <1>1, <1>3, <3>1
  <2>2. DOMAIN received = 1..1 /\ received[1] = one
    BY <1>7
  <2>3. PICK run : /\ loop = run[1] /\ run[0] = Len(stream)
                   /\ \A k \in 0..(1 - 1) : run[k + 1] = run[k] + WordLen + 1 + Len(received[k + 1].body)
    BY <1>5, <2>2
  <2>4. run[1] = run[0] + WordLen + 1 + Len(received[1].body)
    <3>1. 0 \in 0..(1 - 1) /\ 0 + 1 = 1
      OBVIOUS
    <3> QED BY <2>3, <3>1
  <2>5. PICK l \in Nat : l = Len(stream) /\ l = n - l1
    BY <1>9, <2>1
  <2>6. run[1] = l + 2 + 1 + b1
    BY <1>2, <1>9, <2>2, <2>3, <2>4, <2>5
  <2>7. l + 2 + 1 + b1 = n
    <3>1. 2 + 1 + b1 = l1 /\ l = n - l1 /\ l \in Nat /\ n \in Nat /\ b1 \in Nat /\ l1 \in Nat
      BY <1>9, <2>5
    <3>2. \A a, b, c, all \in Nat : (2 + 1 + b = c /\ a = all - c) => a + 2 + 1 + b = all
      OBVIOUS
    <3> QED BY <3>1, <3>2
  <2> QED BY <1>4, <2>3, <2>6, <2>7, Zenon
<1>8. CASE received = <<one, two>>
  <2>1. Len(stream) = 0 /\ n = Len(Frame1) + Len(Frame2)
    BY <1>1, <1>8 DEF Stage
  <2>2. DOMAIN received = 1..2 /\ received[1] = one /\ received[2] = two
    BY <1>8
  <2>3. PICK run : /\ loop = run[2] /\ run[0] = Len(stream)
                   /\ \A k \in 0..(2 - 1) : run[k + 1] = run[k] + WordLen + 1 + Len(received[k + 1].body)
    BY <1>5, <2>2
  <2>4. run[1] = run[0] + WordLen + 1 + Len(received[1].body)
        /\ run[2] = run[1] + WordLen + 1 + Len(received[2].body)
    <3>1. 0 \in 0..(2 - 1) /\ 1 \in 0..(2 - 1) /\ 0 + 1 = 1 /\ 1 + 1 = 2
      OBVIOUS
    <3> QED BY <2>3, <3>1
  <2>5. run[1] = 0 + 2 + 1 + b1 /\ run[2] = run[1] + 2 + 1 + b2
    BY <1>2, <1>9, <2>1, <2>2, <2>3, <2>4
  <2>6. n = l1 + l2
    BY <1>9, <2>1
  <2>7. 0 + 2 + 1 + b1 = l1 /\ l1 + 2 + 1 + b2 = n
    <3>1. 2 + 1 + b1 = l1 /\ 2 + 1 + b2 = l2 /\ n = l1 + l2
      BY <1>9, <2>6
    <3>2. \A a, b, c, d, all \in Nat : (2 + 1 + a = c /\ 2 + 1 + b = d /\ all = c + d) =>
                                         (0 + 2 + 1 + a = c /\ c + 2 + 1 + b = all)
      OBVIOUS
    <3>3. b1 \in Nat /\ b2 \in Nat /\ l1 \in Nat /\ l2 \in Nat /\ n \in Nat
      BY <1>9
    <3> QED BY <3>1, <3>2, <3>3
  <2> QED BY <1>4, <2>3, <2>5, <2>7, Zenon
<1> QED BY <1>1, <1>6, <1>7, <1>8 DEF Stage

\* How many of the two packets have arrived, of n bytes.
LEMMA ArrivedCounted ==
  ASSUME Setting, NEW n \in Nat
  PROVE  /\ FrameEnd(1) = Len(Frame1) /\ FrameEnd(2) = Len(Frame1) + Len(Frame2)
         /\ Cardinality({k \in 1..2 : FrameEnd(k) <= n}) =
              IF n < Len(Frame1) THEN 0 ELSE IF n < Len(Frame1) + Len(Frame2) THEN 1 ELSE 2
<1>1. PICK a \in Nat, b \in Nat : a = Len(Frame1) /\ b = Len(Frame2) /\ b > 0
  BY TwoFrames
<1>2. FrameEnd(1) = a /\ FrameEnd(2) = a + b
  BY <1>1 DEF FrameEnd, Frame1, Frame2
<1> DEFINE S == {k \in 1..2 : FrameEnd(k) <= n}
<1>3. \A k : k \in S <=> ((k = 1 /\ a <= n) \/ (k = 2 /\ a + b <= n))
  BY <1>2
<1> HIDE DEF S
<1>4. Cardinality(S) = IF n < a THEN 0 ELSE IF n < a + b THEN 1 ELSE 2
  <2>1. CASE n < a
    <3>1. S = {}
      BY <1>1, <1>3, <2>1
    <3> QED BY <2>1, <3>1, FS_EmptySet
  <2>2. CASE ~ (n < a) /\ n < a + b
    <3>1. S = {1}
      BY <1>1, <1>3, <2>2
    <3> QED BY <2>2, <3>1, FS_Singleton
  <2>3. CASE ~ (n < a) /\ ~ (n < a + b)
    <3>1. S = 1..2
      BY <1>1, <1>3, <2>3
    <3>2. 1 \in Int /\ 2 \in Int /\ (IF 1 > 2 THEN 0 ELSE 2 - 1 + 1) = 2
      OBVIOUS
    <3>3. Cardinality(1..2) = 2
      BY <3>2, FS_Interval, Zenon
    <3> QED BY <2>3, <3>1, <3>3
  <2> QED BY <2>1, <2>2, <2>3
<1> QED BY <1>1, <1>2, <1>4 DEF S

LEMMA CourseIsRoundTrip == Setting /\ Course => RoundTrip
<1> SUFFICES ASSUME Setting, Course, ~ altered
             PROVE  /\ Len(received) <= 2
                    /\ \A k \in DOMAIN received : Same(received[k], Packets2[k]) /\ FrameEnd(k) <= Arrived
                    /\ status # "ok" => /\ Len(received) = Cardinality({k \in 1..2 : FrameEnd(k) <= Arrived})
                                        /\ (receiver = "sftp" /\ status = "eof") => stream = <<>>
  BY DEF RoundTrip
<1>1. PICK n \in Nat : ArrivedAt(n)
  BY DEF Course
<1> DEFINE one == Arrival(sender, receiver, sample)
<1> DEFINE two == Arrival(sender, receiver, Follower)
<1> DEFINE read == ReadWith(receiver, stream)
<1> DEFINE count == Cardinality({k \in 1..2 : FrameEnd(k) <= n})
<1>2. Arrived = n
  BY <1>1, ArrivedIs
<1>3. /\ Stage(Frame1, Frame2, one, two, n, stream, received) /\ n <= Len(Frame1) + Len(Frame2)
      /\ status # "ok" => read.status = status
  BY <1>1 DEF ArrivedAt
<1>4. PICK a \in Nat, b \in Nat : a = Len(Frame1) /\ b = Len(Frame2) /\ b > 0
  BY TwoFrames
<1>5. /\ FrameEnd(1) = a /\ FrameEnd(2) = a + b
      /\ count = IF n < a THEN 0 ELSE IF n < a + b THEN 1 ELSE 2
  BY <1>4, ArrivedCounted
<1>6. Same(one, sample) /\ Same(two, Follower)
  BY TwoFrames, ArrivalSame
<1>7. Packets2[1] = sample /\ Packets2[2] = Follower
  BY DEF Packets2
<1>8. /\ (received = <<>> /\ n < a) =>
           (read.status # "ok" /\ ((receiver = "sftp" /\ read.status = "eof") => stream = <<>>))
      /\ (received = <<>> /\ n >= a) => read.status = "ok"
      /\ (received = <<one>> /\ n < a + b) =>
           (read.status # "ok" /\ ((receiver = "sftp" /\ read.status = "eof") => stream = <<>>))
      /\ (received = <<one>> /\ n = a + b) => read.status = "ok"
      /\ received = <<one, two>> => (read.status # "ok" /\ stream = <<>>)
  BY <1>1, <1>4, CourseRead
<1> HIDE DEF one, two, read, count
<1> SUFFICES /\ Len(received) <= 2
             /\ \A k \in DOMAIN received : Same(received[k], Packets2[k]) /\ FrameEnd(k) <= n
             /\ status # "ok" => /\ Len(received) = count
                                 /\ (receiver = "sftp" /\ status = "eof") => stream = <<>>
  BY <1>2 DEF count
<1>9. CASE received = <<>>
  <2>1. Len(received) = 0 /\ DOMAIN received = {}
    BY <1>9
  <2>2. ASSUME status # "ok"
        PROVE count = 0 /\ ((receiver = "sftp" /\ status = "eof") => stream = <<>>)
    <3>1. n < a
      BY <1>3, <1>8, <1>9, <2>2
    <3> QED BY <1>3, <1>5, <1>8, <1>9, <2>2, <3>1
  <2> QED BY <2>1, <2>2
<1>10. CASE received = <<one>>
  <2>1. Len(received) = 1 /\ DOMAIN received = {1} /\ received[1] = one
    BY <1>10
  <2>2. n >= a
    BY <1>3, <1>4, <1>10 DEF Stage
  <2>3. ASSUME status # "ok"
        PROVE count = 1 /\ ((receiver = "sftp" /\ status = "eof") => stream = <<>>)
    <3>1. n < a + b
      BY <1>3, <1>4, <1>8, <1>10, <2>3
    <3> QED BY <1>3, <1>5, <1>8, <1>10, <2>2, <2>3, <3>1
  <2> QED BY <1>5, <1>6, <1>7, <2>1, <2>2, <2>3
<1>11. CASE received = <<one, two>>
  <2>1. Len(received) = 2 /\ DOMAIN received = {1, 2} /\ received[1] = one /\ received[2] = two
    BY <1>11
  <2>2. n = a + b
    BY <1>3, <1>4, <1>11 DEF Stage
  <2>3. count = 2 /\ stream = <<>>
    BY <1>5, <1>8, <1>11, <2>2
  <2> QED BY <1>5, <1>6, <1>7, <2>1, <2>2, <2>3
<1> QED BY <1>3, <1>9, <1>10, <1>11 DEF Stage

\* RoundTrip holds for all packets that the senders build and whatever the connection cuts off:
\* between any two of the codecs (packet.go and sshfx) each complete packet arrives once, in
\* order and with the fields it was sent with, an incomplete one never does, and recvPacket
\* takes only an end between two packets for the end of the connection.
THEOREM RoundTripAlways == Spec => []RoundTrip
<1>1. Init => Setting /\ Course
  BY InitSetting, InitCourse
<1>2. (Setting /\ Course) /\ [Next]_vars => (Setting /\ Course)'
  BY SettingKept, CourseKept
<1>3. Setting /\ Course => RoundTrip
  BY CourseIsRoundTrip
<1> QED BY <1>1, <1>2, <1>3, PTL DEF Spec

-----------------------------------------------------------------------------
(* What the numbers mean.                                                  *)

\* The parts of a mode's number can be told from the sum.
Sums(n, t, u, g, s, p) ==
  /\ t \in 0..15 /\ u \in {0, 2048} /\ g \in {0, 1024} /\ s \in {0, 512} /\ p \in 0..511
  /\ n = t * 4096 + (u + g + s) + p

LEMMA ModeParts ==
  \A n, t, u, g, s, p :
    Sums(n, t, u, g, s, p) =>
      /\ n \div 4096 = t /\ n % 512 = p
      /\ HasFlag(n, 2048) <=> u = 2048
      /\ HasFlag(n, 1024) <=> g = 1024
      /\ HasFlag(n, 512) <=> s = 512
<1> SUFFICES ASSUME NEW n, NEW t, NEW u, NEW g, NEW s, NEW p, Sums(n, t, u, g, s, p)
             PROVE  /\ n \div 4096 = t /\ n % 512 = p
                    /\ HasFlag(n, 2048) <=> u = 2048
                    /\ HasFlag(n, 1024) <=> g = 1024
                    /\ HasFlag(n, 512) <=> s = 512
  OBVIOUS
<1>0. /\ t \in 0..15 /\ u \in {0, 2048} /\ g \in {0, 1024} /\ s \in {0, 512} /\ p \in 0..511
      /\ n = t * 4096 + (u + g + s) + p
  BY DEF Sums
<1>1. PICK x \in {0, 1}, y \in {0, 1}, z \in {0, 1} : u = x * 2048 /\ g = y * 1024 /\ s = z * 512
  BY <1>0
<1>2. n \in Nat /\ t \in Nat /\ p \in Nat
  BY <1>0
<1>3. n \div 4096 = t
  BY <1>0
<1>4. n % 512 = p
  BY <1>0
<1>5. HasFlag(n, 2048) <=> u = 2048
  <2>1. n \div 2048 = 2 * t + x
    BY <1>0, <1>1
  <2>2. (2 * t + x) % 2 = x
    BY <1>0, <1>1
  <2> QED BY <1>1, <2>1, <2>2 DEF HasFlag
<1>6. HasFlag(n, 1024) <=> g = 1024
  <2>1. n \div 1024 = 2 * (2 * t + x) + y
    BY <1>0, <1>1
  <2>2. (2 * (2 * t + x) + y) % 2 = y
    BY <1>0, <1>1
  <2> QED BY <1>1, <2>1, <2>2 DEF HasFlag
<1>7. HasFlag(n, 512) <=> s = 512
  <2>1. n \div 512 = 2 * (4 * t + 2 * x + y) + z
    BY <1>0, <1>1
  <2>2. (2 * (4 * t + 2 * x + y) + z) % 2 = z
    BY <1>0, <1>1
  <2> QED BY <1>1, <2>1, <2>2 DEF HasFlag
<1> QED BY <1>3, <1>4, <1>5, <1>6, <1>7

ModeNumber(t, names, p) == t * 4096 + SpecialBits(names) + p

\* A mode with these parts.
ModeOf(t, names, p) ==
  [type |-> IF t \in DOMAIN ModeType THEN ModeType[t] ELSE {},
   special |-> DOMAIN SpecialBit \intersect names, perm |-> p, raw |-> {}]

LEMMA ModeRead ==
  \A t \in 0..15 : \A p \in 0..511 : \A names :
    ToFileMode(ModeNumber(t, names, p)) = ModeOf(t, names, p)
<1> SUFFICES ASSUME NEW t \in 0..15, NEW p \in 0..511, NEW names
             PROVE  ToFileMode(ModeNumber(t, names, p)) = ModeOf(t, names, p)
  OBVIOUS
<1> DEFINE u == BitOf(names, "setuid", 2048)
<1> DEFINE g == BitOf(names, "setgid", 1024)
<1> DEFINE s == BitOf(names, "sticky", 512)
<1> DEFINE n == ModeNumber(t, names, p)
<1>1. /\ u \in {0, 2048} /\ (u = 2048 <=> "setuid" \in names)
      /\ g \in {0, 1024} /\ (g = 1024 <=> "setgid" \in names)
      /\ s \in {0, 512} /\ (s = 512 <=> "sticky" \in names)
  BY DEF BitOf
<1>2. Sums(n, t, u, g, s, p)
  BY <1>1, SpecialSum DEF Sums, ModeNumber
<1> HIDE DEF u, g, s, n
<1>3. /\ n \div 4096 = t /\ n % 512 = p
      /\ HasFlag(n, 2048) <=> u = 2048
      /\ HasFlag(n, 1024) <=> g = 1024
      /\ HasFlag(n, 512) <=> s = 512
  BY <1>2, ModeParts
<1>4. DOMAIN SpecialBit = {"setuid", "setgid", "sticky"}
      /\ SpecialBit["setuid"] = 2048 /\ SpecialBit["setgid"] = 1024 /\ SpecialBit["sticky"] = 512
  BY DEF SpecialBit
<1>5. {b \in DOMAIN SpecialBit : HasFlag(n, SpecialBit[b])} = DOMAIN SpecialBit \intersect names
  BY <1>1, <1>3, <1>4
<1>6. ToFileMode(n) = [type |-> IF n \div 4096 \in DOMAIN ModeType THEN ModeType[n \div 4096] ELSE {},
                       special |-> {b \in DOMAIN SpecialBit : HasFlag(n, SpecialBit[b])},
                       perm |-> n % 512, raw |-> {}]
  BY Zenon DEF ToFileMode
<1>7. ToFileMode(n) = ModeOf(t, names, p)
  <2>1. (IF n \div 4096 \in DOMAIN ModeType THEN ModeType[n \div 4096] ELSE {})
          = IF t \in DOMAIN ModeType THEN ModeType[t] ELSE {}
    BY <1>3
  <2>2. n % 512 = p
    BY <1>3
  <2> DEFINE a == IF n \div 4096 \in DOMAIN ModeType THEN ModeType[n \div 4096] ELSE {}
  <2> DEFINE b == {c \in DOMAIN SpecialBit : HasFlag(n, SpecialBit[c])}
  <2>3. ToFileMode(n) = [type |-> a, special |-> b, perm |-> n % 512, raw |-> {}]
    BY <1>6
  <2>4. ModeOf(t, names, p) = [type |-> a, special |-> b, perm |-> p, raw |-> {}]
    BY <1>5, <2>1, Zenon DEF ModeOf
  <2> HIDE DEF a, b
  <2> QED BY <2>2, <2>3, <2>4
<1> QED BY <1>7 DEF n

\* The type bits that have a code get theirs.
LEMMA TypeCoded ==
  ASSUME NEW c \in DOMAIN ModeType
  PROVE  TypeCode(ModeType[c]) \in DOMAIN ModeType /\ ModeType[TypeCode(ModeType[c])] = ModeType[c]
BY DEF TypeCode

LEMMA ModeFields ==
  ASSUME NEW m \in FileModes
  PROVE  /\ \E c \in DOMAIN ModeType : m.type = ModeType[c]
         /\ m.special \subseteq DOMAIN SpecialBit /\ m.raw \subseteq DOMAIN SpecialBit
         /\ m.perm \in 0..511
         /\ [m EXCEPT !.raw = {}] = [type |-> m.type, special |-> m.special, perm |-> m.perm, raw |-> {}]
<1>1. /\ m.type \in {ModeType[c] : c \in DOMAIN ModeType} /\ m.special \in SUBSET DOMAIN SpecialBit
      /\ m.perm \in 0..511 /\ m.raw \in SUBSET DOMAIN SpecialBit
      /\ m = [type |-> m.type, special |-> m.special, perm |-> m.perm, raw |-> m.raw]
  BY DEF FileModes
<1>2. [m EXCEPT !.raw = {}] = [type |-> m.type, special |-> m.special, perm |-> m.perm, raw |-> {}]
  BY <1>1
<1> QED BY <1>1, <1>2

LEMMA ModeMeaning ==
  ASSUME NEW m \in FileModes
  PROVE  ToFileMode(FromFileMode(m)) = [m EXCEPT !.raw = {}]
<1> DEFINE t == TypeCode(m.type)
<1>1. t \in DOMAIN ModeType /\ ModeType[t] = m.type
  <2>1. PICK c \in DOMAIN ModeType : m.type = ModeType[c]
    BY ModeFields
  <2>2. TypeCode(ModeType[c]) \in DOMAIN ModeType /\ ModeType[TypeCode(ModeType[c])] = ModeType[c]
    BY TypeCoded
  <2> QED BY <2>1, <2>2
<1>2. t \in 0..15
  <2>1. DOMAIN ModeType = {1, 2, 4, 6, 8, 10, 12}
    BY TypeCodes
  <2> QED BY <1>1, <2>1
<1>3. FromFileMode(m) = ModeNumber(t, m.special, m.perm)
  BY DEF FromFileMode, ModeNumber
<1>4. m.perm \in 0..511 /\ DOMAIN SpecialBit \intersect m.special = m.special
  BY ModeFields
<1> HIDE DEF t
<1>5. ToFileMode(ModeNumber(t, m.special, m.perm)) = ModeOf(t, m.special, m.perm)
  BY <1>2, <1>4, ModeRead
<1>6. ModeOf(t, m.special, m.perm)
        = [type |-> m.type, special |-> m.special, perm |-> m.perm, raw |-> {}]
  BY <1>1, <1>4, Zenon DEF ModeOf
<1>7. [m EXCEPT !.raw = {}] = [type |-> m.type, special |-> m.special, perm |-> m.perm, raw |-> {}]
  BY ModeFields
<1> QED BY <1>3, <1>5, <1>6, <1>7

LEMMA ChmodMeaning ==
  ASSUME NEW m \in FileModes
  PROVE  SameChmod(m, ToFileMode(ToChmodPerm(m)))
<1> DEFINE names == m.special \union m.raw
<1>1. m.perm \in 0..511 /\ DOMAIN SpecialBit \intersect names = names
  BY ModeFields
<1> HIDE DEF names
<1>2. SpecialBits(names) \in Nat
  BY SpecialSum DEF BitOf
<1>3. ToChmodPerm(m) = ModeNumber(0, names, m.perm)
  BY <1>1, <1>2 DEF ToChmodPerm, ModeNumber, names
<1>4. 0 \in 0..15 /\ 0 \notin DOMAIN ModeType
  BY TypeCodes
<1>5. ToFileMode(ModeNumber(0, names, m.perm)) = ModeOf(0, names, m.perm)
  BY <1>1, <1>4, ModeRead
<1>6. ToFileMode(ToChmodPerm(m)) = [type |-> {}, special |-> names, perm |-> m.perm, raw |-> {}]
  <2>1. (IF 0 \in DOMAIN ModeType THEN ModeType[0] ELSE {}) = {}
    BY <1>4
  <2> QED BY <1>1, <1>3, <1>5, <2>1, Zenon DEF ModeOf
<1> QED BY <1>6 DEF SameChmod, names

LEMMA InfoMeaning ==
  ASSUME NEW fi \in FileInfos
  PROVE  SameInfo(fi, FileInfoFromStat(FileStatFromInfo(fi)))
<1>1. PICK flags : FileStatFromInfo(fi) = InfoStat(fi, flags, fi.mtime)
  BY InfoFields
<1> DEFINE fs == InfoStat(fi, flags, fi.mtime)
<1>2. fi.mode \in FileModes /\ fi.owner \in {<<>>} \union (Uint32 \X Uint32)
  BY DEF FileInfos
<1>3. ToFileMode(FromFileMode(fi.mode)) = [fi.mode EXCEPT !.raw = {}]
  BY <1>2, ModeMeaning
<1>4. /\ fs.size = fi.size /\ fs.mode = FromFileMode(fi.mode) /\ fs.mtime = fi.mtime
      /\ fs.extended = fi.extended
      /\ fi.owner # <<>> => <<fs.uid, fs.gid>> = fi.owner
  BY <1>2 DEF InfoStat
<1> HIDE DEF fs
<1>5. LET got == FileInfoFromStat(fs) IN
        /\ got.size = fi.size /\ got.mtime = fi.mtime /\ got.extended = fi.extended
        /\ got.mode = [fi.mode EXCEPT !.raw = {}]
        /\ fi.owner # <<>> => got.owner = fi.owner
  BY <1>3, <1>4 DEF FileInfoFromStat
<1> QED BY <1>1, <1>5 DEF SameInfo, fs

LEMMA ErrorMeaning ==
  ASSUME NEW err \in OsErrors
  PROVE  SameError(err, NormaliseError(StatusFromError(err)))
<1>0. /\ FxOk = 0 /\ FxEOF = 1 /\ FxNoSuchFile = 2 /\ FxPermissionDenied = 3 /\ FxFailure = 4
  BY DEF FxOk, FxEOF, FxNoSuchFile, FxPermissionDenied, FxFailure
<1>1. /\ NormaliseError(0) = "nil" /\ NormaliseError(1) = "EOF" /\ NormaliseError(2) = "ErrNotExist"
      /\ NormaliseError(3) = "ErrPermission"
      /\ \A code : code \notin {0, 1, 2, 3} => NormaliseError(code) = "StatusError"
  BY <1>0 DEF NormaliseError
<1>2. CASE err.class \in {"nil", "EOF", "ErrNotExist", "other"}
  BY <1>0, <1>1, <1>2 DEF StatusFromError, IsNotExist, SameError, Errno
<1>3. CASE err.class \in {"errno", "PathError", "LinkError"} /\ err.errno # "0"
  BY <1>0, <1>1, <1>3 DEF StatusFromError, IsNotExist, TranslateErrno, SameError, Errno
<1>4. CASE err.class = "fxerr"
  BY <1>0, <1>1, <1>4 DEF StatusFromError, IsNotExist, SameError, Errno
<1>5. \/ err.class \in {"nil", "EOF", "ErrNotExist", "other"}
      \/ err.class \in {"errno", "PathError", "LinkError"} /\ err.errno # "0"
      \/ err.class = "fxerr"
  BY DEF OsErrors
<1> QED BY <1>2, <1>3, <1>4, <1>5

\* The same for the six bits of the open flags.
SixBits(n, r, w, a, c, t, e) ==
  /\ r \in {0, 1} /\ w \in {0, 1} /\ a \in {0, 1} /\ c \in {0, 1} /\ t \in {0, 1} /\ e \in {0, 1}
  /\ n = r + 2 * w + 4 * a + 8 * c + 16 * t + 32 * e

LEMMA FlagParts ==
  \A n, r, w, a, c, t, e :
    SixBits(n, r, w, a, c, t, e) =>
      /\ HasFlag(n, 1) <=> r = 1
      /\ HasFlag(n, 2) <=> w = 1
      /\ HasFlag(n, 4) <=> a = 1
      /\ HasFlag(n, 8) <=> c = 1
      /\ HasFlag(n, 16) <=> t = 1
      /\ HasFlag(n, 32) <=> e = 1
<1> SUFFICES ASSUME NEW n, NEW r, NEW w, NEW a, NEW c, NEW t, NEW e, SixBits(n, r, w, a, c, t, e)
             PROVE  /\ HasFlag(n, 1) <=> r = 1
                    /\ HasFlag(n, 2) <=> w = 1
                    /\ HasFlag(n, 4) <=> a = 1
                    /\ HasFlag(n, 8) <=> c = 1
                    /\ HasFlag(n, 16) <=> t = 1
                    /\ HasFlag(n, 32) <=> e = 1
  OBVIOUS
<1>0. /\ r \in {0, 1} /\ w \in {0, 1} /\ a \in {0, 1} /\ c \in {0, 1} /\ t \in {0, 1} /\ e \in {0, 1}
      /\ n = r + 2 * w + 4 * a + 8 * c + 16 * t + 32 * e
  BY DEF SixBits
<1>1. /\ n \div 1 = n /\ n \div 2 = w + 2 * a + 4 * c + 8 * t + 16 * e
      /\ n \div 4 = a + 2 * c + 4 * t + 8 * e /\ n \div 8 = c + 2 * t + 4 * e
      /\ n \div 16 = t + 2 * e /\ n \div 32 = e
  BY <1>0
<1>2. /\ n % 2 = r /\ (w + 2 * a + 4 * c + 8 * t + 16 * e) % 2 = w
      /\ (a + 2 * c + 4 * t + 8 * e) % 2 = a /\ (c + 2 * t + 4 * e) % 2 = c
      /\ (t + 2 * e) % 2 = t /\ e % 2 = e
  BY <1>0
<1> QED BY <1>1, <1>2 DEF HasFlag

\* The names of the open flags come back.
LEMMA PflagsRead ==
  ASSUME NEW access \in DOMAIN Accesses, NEW bits \in SUBSET {"append", "creat", "trunc", "excl"}
  PROVE  NewFileOpenFlags(ToPflags(access, bits)) = Accesses[access] \union bits
<1> DEFINE names == Accesses[access] \union bits
<1> DEFINE n == ToPflags(access, bits)
<1> DEFINE r == BitOf(names, "read", 1)
<1> DEFINE w == BitOf(names, "write", 1)
<1> DEFINE a == BitOf(names, "append", 1)
<1> DEFINE c == BitOf(names, "creat", 1)
<1> DEFINE t == BitOf(names, "trunc", 1)
<1> DEFINE e == BitOf(names, "excl", 1)
<1>1. n = BitOf(names, "read", 1) + BitOf(names, "write", 2) + BitOf(names, "append", 4)
           + BitOf(names, "creat", 8) + BitOf(names, "trunc", 16) + BitOf(names, "excl", 32)
  BY PflagsSum
<1>2. names \subseteq {"read", "write", "append", "creat", "trunc", "excl"}
  <2>1. Accesses[access] \subseteq {"read", "write"}
    BY DEF Accesses
  <2> QED BY <2>1
<1> HIDE DEF names, n
<1>3. \A b : \A k \in Nat : BitOf(names, b, k) = k * BitOf(names, b, 1) /\ BitOf(names, b, 1) \in {0, 1}
                            /\ (BitOf(names, b, 1) = 1 <=> b \in names)
  BY DEF BitOf
<1>4. /\ r \in {0, 1} /\ w \in {0, 1} /\ a \in {0, 1} /\ c \in {0, 1} /\ t \in {0, 1} /\ e \in {0, 1}
      /\ r = 1 <=> "read" \in names
      /\ w = 1 <=> "write" \in names
      /\ a = 1 <=> "append" \in names
      /\ c = 1 <=> "creat" \in names
      /\ t = 1 <=> "trunc" \in names
      /\ e = 1 <=> "excl" \in names
  BY DEF BitOf
<1>5. n = r + 2 * w + 4 * a + 8 * c + 16 * t + 32 * e
  BY <1>1 DEF BitOf
<1> HIDE DEF r, w, a, c, t, e
<1>6. SixBits(n, r, w, a, c, t, e)
  BY <1>4, <1>5 DEF SixBits
<1>7. /\ HasFlag(n, 1) <=> r = 1
      /\ HasFlag(n, 2) <=> w = 1
      /\ HasFlag(n, 4) <=> a = 1
      /\ HasFlag(n, 8) <=> c = 1
      /\ HasFlag(n, 16) <=> t = 1
      /\ HasFlag(n, 32) <=> e = 1
  BY <1>6, FlagParts
<1>8. /\ DOMAIN PFlag = {"read", "write", "append", "creat", "trunc", "excl"}
      /\ PFlag["read"] = 1 /\ PFlag["write"] = 2 /\ PFlag["append"] = 4 /\ PFlag["creat"] = 8
      /\ PFlag["trunc"] = 16 /\ PFlag["excl"] = 32
  BY DEF PFlag
<1>9. {f \in DOMAIN PFlag : HasFlag(n, PFlag[f])} = names
  <2>1. \A f \in DOMAIN PFlag : HasFlag(n, PFlag[f]) <=> f \in names
    BY <1>4, <1>7, <1>8
  <2> HIDE DEF names
  <2>2. names \subseteq DOMAIN PFlag
    BY <1>2, <1>8
  <2> QED BY <2>1, <2>2
<1>10. NewFileOpenFlags(n) = names
  BY <1>9, Zenon DEF NewFileOpenFlags
<1> QED BY <1>10 DEF names, n

LEMMA OpenMeaning ==
  ASSUME NEW flags \in OpenFlags
  PROVE  SameOpen(flags, ToPflags(flags.access, flags.bits))
<1> DEFINE n == ToPflags(flags.access, flags.bits)
<1> DEFINE names == Accesses[flags.access] \union flags.bits
<1> DEFINE access == {a \in DOMAIN Accesses : Accesses[a] = names \intersect {"read", "write"}}
<1>1. /\ flags.access \in DOMAIN Accesses /\ flags.bits \in SUBSET {"append", "creat", "trunc", "excl"}
      /\ DOMAIN Accesses = {"rdonly", "wronly", "rdwr"}
      /\ Accesses["rdonly"] = {"read"} /\ Accesses["wronly"] = {"write"}
      /\ Accesses["rdwr"] = {"read", "write"}
  BY DEF OpenFlags, Accesses
<1>2. NewFileOpenFlags(n) = names
  BY <1>1, PflagsRead
<1>3. access = {flags.access}
  <2>1. names \intersect {"read", "write"} = Accesses[flags.access]
    BY <1>1
  <2> QED BY <1>1, <2>1
<1>4. names \intersect {"creat", "trunc", "excl"} = flags.bits \ {"append"}
  BY <1>1
<1> HIDE DEF n
<1>5. OsFlags(n) = IF access = {} THEN [failed |-> TRUE]
                   ELSE [failed |-> FALSE, access |-> CHOOSE a \in access : TRUE,
                         bits |-> names \intersect {"creat", "trunc", "excl"}]
  BY <1>2, Zenon DEF OsFlags
<1> HIDE DEF access, names
<1>6. access # {} /\ (CHOOSE a \in access : TRUE) = flags.access
  BY <1>3
<1>7. OsFlags(n) = [failed |-> FALSE, access |-> flags.access, bits |-> flags.bits \ {"append"}]
  BY <1>4, <1>5, <1>6
<1> QED BY <1>2, <1>7 DEF SameOpen, n, names

\* The field of a packet that holds the value it carries.
LEMMA CarryingField ==
  ASSUME NEW c
  PROVE  LET packet == PacketFor(c) IN
           /\ c.what = "info" => (packet.kind = "attrs" /\ packet.p["attrs"] = FileStatFromInfo(c.v))
           /\ c.what = "error" => (packet.kind = "status" /\ packet.p["code"] = StatusFromError(c.v))
           /\ c.what = "open" =>
                (packet.kind = "open" /\ packet.p["pflags"] = ToPflags(c.v.access, c.v.bits))
           /\ c.what = "chmod" => (packet.kind = "setstat" /\ packet.p["attrs"].mode = ToChmodPerm(c.v))
<1>1. \A a : LET r == [kind |-> "attrs", p |-> [id |-> 3, attrs |-> a]] IN
        r.kind = "attrs" /\ r.p["attrs"] = a
  OBVIOUS
<1>2. \A a, m, l : LET r == [kind |-> "status", p |-> [id |-> 3, code |-> a, msg |-> m, lang |-> l]] IN
        r.kind = "status" /\ r.p["code"] = a
  OBVIOUS
<1>3. \A a, m, l : LET r == [kind |-> "open", p |-> [id |-> 3, path |-> m, attrs |-> l, pflags |-> a]] IN
        r.kind = "open" /\ r.p["pflags"] = a
  OBVIOUS
<1>4. \A a, m : LET r == [kind |-> "setstat", p |-> [id |-> 3, path |-> m, attrs |-> a]] IN
        r.kind = "setstat" /\ r.p["attrs"] = a
  OBVIOUS
<1>5. \A m : [NoAttrs EXCEPT !.flags = AttrPermissions, !.mode = m].mode = m
  BY DEF NoAttrs
<1>6. ASSUME c.what = "info"
      PROVE PacketFor(c).kind = "attrs" /\ PacketFor(c).p["attrs"] = FileStatFromInfo(c.v)
  <2>1. PacketFor(c) = [kind |-> "attrs", p |-> [id |-> 3, attrs |-> FileStatFromInfo(c.v)]]
    BY <1>6, PacketsFor, Zenon
  <2> QED BY <1>1, <2>1
<1>7. ASSUME c.what = "error"
      PROVE PacketFor(c).kind = "status" /\ PacketFor(c).p["code"] = StatusFromError(c.v)
  <2>1. PacketFor(c) = [kind |-> "status", p |-> [id |-> 3, code |-> StatusFromError(c.v),
                                                  msg |-> <<1>>, lang |-> <<>>]]
    BY <1>7, PacketsFor, Zenon
  <2> QED BY <1>2, <2>1
<1>8. ASSUME c.what = "open"
      PROVE PacketFor(c).kind = "open" /\ PacketFor(c).p["pflags"] = ToPflags(c.v.access, c.v.bits)
  <2>1. PacketFor(c) = [kind |-> "open", p |-> [id |-> 3, path |-> <<1>>, attrs |-> NoAttrs,
                                                pflags |-> ToPflags(c.v.access, c.v.bits)]]
    BY <1>8, PacketsFor, Zenon
  <2> QED BY <1>3, <2>1
<1>9. ASSUME c.what = "chmod"
      PROVE PacketFor(c).kind = "setstat" /\ PacketFor(c).p["attrs"].mode = ToChmodPerm(c.v)
  <2> DEFINE a == [NoAttrs EXCEPT !.flags = AttrPermissions, !.mode = ToChmodPerm(c.v)]
  <2>1. PacketFor(c) = [kind |-> "setstat", p |-> [id |-> 3, path |-> <<1>>, attrs |-> a]]
    BY <1>9, PacketsFor, Zenon
  <2>2. a.mode = ToChmodPerm(c.v)
    BY <1>5
  <2> HIDE DEF a
  <2> QED BY <1>4, <2>1, <2>2
<1> QED BY <1>6, <1>7, <1>8, <1>9

\* What arrives of a packet that carries a value.
LEMMA CarriedArrives ==
  ASSUME Setting, Course, carried # Nothing, received # <<>>
  PROVE  LET kind == PacketFor(carried).kind IN
           /\ carried \in Carried
           /\ received[1].p = FieldsOf(Layout("sftp", kind), PacketFor(carried).p)
<1>1. /\ carried \in Carried /\ sender = "sftp" /\ receiver = "sftp" /\ sample = PacketFor(carried)
      /\ ~ altered
  BY DEF Setting, Course
<1>2. PICK n \in Nat : ArrivedAt(n)
  BY <1>1 DEF Course
<1> DEFINE one == Arrival(sender, receiver, sample)
<1> DEFINE two == Arrival(sender, receiver, Follower)
<1>3. Stage(Frame1, Frame2, one, two, n, stream, received)
  BY <1>2 DEF ArrivedAt
<1>4. received[1] = one
  <2> HIDE DEF one, two
  <2> QED BY <1>3 DEF Stage
<1>5. PacketFor(carried).kind \in {"attrs", "status", "open", "setstat"}
  BY <1>1, CarriedParts, CarryingField
<1>6. Reads("sftp", sample.kind) /\ sample.kind # "mkdir"
  BY <1>1, <1>5, CarriedLayouts, ReadTables DEF Reads, KindsOf
<1>7. one.p = FieldsOf(ReadLayout(receiver, sample.kind), sample.p)
  BY <1>1, <1>6, TwoFrames, PacketArrives
<1>8. ReadLayout("sftp", sample.kind) = Layout("sftp", sample.kind)
  BY <1>1, <1>6, TwoFrames, OneLayout DEF Codec
<1> QED BY <1>1, <1>4, <1>7, <1>8

LEMMA CourseKeepsMeaning == Setting /\ Course => MeaningSurvives
<1> SUFFICES ASSUME Setting, Course, carried # Nothing, received # <<>>
             PROVE  LET p == received[1].p IN
                      CASE carried.what = "info"  -> SameInfo(carried.v, FileInfoFromStat(p.attrs))
                        [] carried.what = "error" -> SameError(carried.v, NormaliseError(p.code))
                        [] carried.what = "open"  -> SameOpen(carried.v, p.pflags)
                        [] carried.what = "chmod" -> SameChmod(carried.v, ToFileMode(p.attrs.mode))
  BY DEF MeaningSurvives
<1> DEFINE packet == PacketFor(carried)
<1> DEFINE layout == Layout("sftp", packet.kind)
<1> DEFINE p == received[1].p
<1>1. carried \in Carried /\ p = FieldsOf(layout, packet.p)
  BY CarriedArrives
<1>2. \/ carried.what = "info" /\ carried.v \in FileInfos
      \/ carried.what = "error" /\ carried.v \in OsErrors
      \/ carried.what = "open" /\ carried.v \in OpenFlags
      \/ carried.what = "chmod" /\ carried.v \in FileModes
  BY <1>1, CarriedParts
<1> HIDE DEF p
<1>3. ASSUME carried.what = "info", carried.v \in FileInfos
      PROVE  SameInfo(carried.v, FileInfoFromStat(p.attrs))
  <2>1. packet.kind = "attrs" /\ packet.p.attrs = FileStatFromInfo(carried.v)
    BY <1>3, CarryingField
  <2>2. "attrs" \in Range(layout)
    BY <2>1, CarriedLayouts DEF Range
  <2>3. p.attrs = FileStatFromInfo(carried.v)
    BY <1>1, <2>1, <2>2, FieldsKept
  <2> QED BY <1>3, <2>3, InfoMeaning
<1>4. ASSUME carried.what = "error", carried.v \in OsErrors
      PROVE  SameError(carried.v, NormaliseError(p.code))
  <2>1. packet.kind = "status" /\ packet.p.code = StatusFromError(carried.v)
    BY <1>4, CarryingField
  <2>2. "code" \in Range(layout)
    BY <2>1, CarriedLayouts DEF Range
  <2>3. p.code = StatusFromError(carried.v)
    BY <1>1, <2>1, <2>2, FieldsKept
  <2> QED BY <1>4, <2>3, ErrorMeaning
<1>5. ASSUME carried.what = "open", carried.v \in OpenFlags
      PROVE  SameOpen(carried.v, p.pflags)
  <2>1. packet.kind = "open" /\ packet.p.pflags = ToPflags(carried.v.access, carried.v.bits)
    BY <1>5, CarryingField
  <2>2. "pflags" \in Range(layout)
    BY <2>1, CarriedLayouts DEF Range
  <2>3. p.pflags = ToPflags(carried.v.access, carried.v.bits)
    BY <1>1, <2>1, <2>2, FieldsKept
  <2> QED BY <1>5, <2>3, OpenMeaning
<1>6. ASSUME carried.what = "chmod", carried.v \in FileModes
      PROVE  SameChmod(carried.v, ToFileMode(p.attrs.mode))
  <2>1. packet.kind = "setstat" /\ packet.p.attrs.mode = ToChmodPerm(carried.v)
    BY <1>6, CarryingField
  <2>2. "attrs" \in Range(layout)
    BY <2>1, CarriedLayouts DEF Range
  <2>3. p.attrs.mode = ToChmodPerm(carried.v)
    BY <1>1, <2>1, <2>2, FieldsKept
  <2> QED BY <1>6, <2>3, ChmodMeaning
<1> QED BY <1>2, <1>3, <1>4, <1>5, <1>6 DEF p

\* MeaningSurvives holds for all values of the os package: size, mode, times and owner of a
\* file, the class of an error, the open flags and the bits of a Chmod are those that were
\* sent after the conversions of attrs.go, stat.go, server.go and client.go and the wire.
THEOREM MeaningSurvivesAlways == Spec => []MeaningSurvives
<1>1. Init => Setting /\ Course
  BY InitSetting, InitCourse
<1>2. (Setting /\ Course) /\ [Next]_vars => (Setting /\ Course)'
  BY SettingKept, CourseKept
<1>3. Setting /\ Course => MeaningSurvives
  BY CourseKeepsMeaning
<1> QED BY <1>1, <1>2, <1>3, PTL DEF Spec
=============================================================================
