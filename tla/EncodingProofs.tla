---------------------------- MODULE EncodingProofs ----------------------------
(***************************************************************************)
(* Both encodings, for all values, lengths and bytes: what is encoded      *)
(* comes back, what is decoded was in the bytes, and the two agree.        *)
(*                                                                         *)
(* Lists and layouts are encoded and decoded by folds.  SetInduction, from *)
(* the minimum of a set of numbers, unrolls a fold into the run of its     *)
(* turns (Runs) and a concatenation into what is left behind each of its   *)
(* parts (Tails); a loop then reads back part after part (ListLoop).       *)
(***************************************************************************)
EXTENDS Codecs, SequenceTheorems, FiniteSetTheorems, WellFoundedInduction, TLAPS

-----------------------------------------------------------------------------
(* Numbers and strings.                                                    *)

\* What follows a prefix of a sequence.
LEMMA DropPrefix ==
  ASSUME NEW a \in Seq(Bytes), NEW b \in Seq(Bytes)
  PROVE  /\ Drop(a \o b, Len(a)) = b /\ SubSeq(a \o b, 1, Len(a)) = a
         /\ a \o b \in Seq(Bytes) /\ Len(a \o b) = Len(a) + Len(b)
<1>1. a \o b \in Seq(Bytes) /\ Len(a \o b) = Len(a) + Len(b) /\ Len(a) \in Nat /\ Len(b) \in Nat
  OBVIOUS
<1>2. Drop(a \o b, Len(a)) \in Seq(Bytes) /\ Len(Drop(a \o b, Len(a))) = Len(b)
  BY <1>1 DEF Drop
<1>3. \A i \in 1..Len(b) : Drop(a \o b, Len(a))[i] = b[i]
  BY <1>1 DEF Drop
<1>4. Drop(a \o b, Len(a)) = b
  BY <1>1, <1>2, <1>3, SeqEqual
<1>5. SubSeq(a \o b, 1, Len(a)) = a
  <2>1. SubSeq(a \o b, 1, Len(a)) \in Seq(Bytes) /\ Len(SubSeq(a \o b, 1, Len(a))) = Len(a)
    BY <1>1
  <2>2. \A i \in 1..Len(a) : SubSeq(a \o b, 1, Len(a))[i] = a[i]
    BY <1>1
  <2> QED BY <2>1, <2>2, SeqEqual
<1> QED BY <1>1, <1>4, <1>5

\* A concatenation cut in its second part.
LEMMA CutOfConcat ==
  ASSUME NEW a \in Seq(Bytes), NEW b \in Seq(Bytes), NEW k \in Nat,
         Len(a) <= k, k <= Len(a) + Len(b)
  PROVE  SubSeq(a \o b, 1, k) = a \o SubSeq(b, 1, k - Len(a))
<1> DEFINE cut == SubSeq(a \o b, 1, k)
<1> DEFINE tail == SubSeq(b, 1, k - Len(a))
<1>1. Len(a) \in Nat /\ Len(b) \in Nat /\ a \o b \in Seq(Bytes) /\ Len(a \o b) = Len(a) + Len(b)
  OBVIOUS
<1>2. cut \in Seq(Bytes) /\ Len(cut) = k /\ \A i \in 1..k : cut[i] = (a \o b)[i]
  BY <1>1
<1>3. tail \in Seq(Bytes) /\ Len(tail) = k - Len(a) /\ \A i \in 1..(k - Len(a)) : tail[i] = b[i]
  BY <1>1
<1> HIDE DEF cut, tail
<1>4. a \o tail \in Seq(Bytes) /\ Len(a \o tail) = k
  BY <1>1, <1>3
<1>5. \A i \in 1..k : (a \o tail)[i] = IF i <= Len(a) THEN a[i] ELSE tail[i - Len(a)]
  BY <1>1, <1>3
<1>6. \A i \in 1..k : cut[i] = (a \o tail)[i]
  BY <1>1, <1>2, <1>3, <1>5
<1>7. cut = a \o tail
  BY <1>2, <1>4, <1>6, SeqEqual
<1> QED BY <1>7 DEF cut, tail

LEMMA Uint32Bytes ==
  ASSUME NEW v \in Uint32
  PROVE  /\ MarshalUint32(v) \in Seq(Bytes) /\ Len(MarshalUint32(v)) = WordLen
         /\ MarshalUint32(v)[1] * Base + MarshalUint32(v)[2] = v
<1>1. v \in Int /\ 0 <= v /\ v < 65536
  BY DEF Uint32, Base
<1>2. v % 256 \in 0..255
  BY <1>1
<1>3. v \div 256 \in 0..255
  BY <1>1
<1>4. PICK q \in 0..255, r \in 0..255 : q = v \div 256 /\ r = v % 256 /\ r = v - 256 * q
  <2>1. v % 256 = v - 256 * (v \div 256)
    BY <1>1
  <2> QED BY <1>2, <1>3, <2>1
<1>5. MarshalUint32(v) = <<q, r>>
  BY <1>4 DEF MarshalUint32, Base
<1>6. q * 256 + r = v
  <2>1. r = v - 256 * q
    BY <1>4
  <2> QED BY <1>1, <2>1
<1> QED BY <1>5, <1>6 DEF Bytes, Base, WordLen

\* A uint32 is read back as it was written, and what follows it is left.
THEOREM Uint32RoundTrip ==
  ASSUME NEW v \in Uint32, NEW rest \in Seq(Bytes)
  PROVE  UnmarshalUint32Safe(MarshalUint32(v) \o rest) = Got(v, rest)
<1> DEFINE b == MarshalUint32(v)
<1>1. b \in Seq(Bytes) /\ Len(b) = WordLen /\ b[1] * Base + b[2] = v
  BY Uint32Bytes
<1> HIDE DEF b
<1>2. /\ Drop(b \o rest, WordLen) = rest /\ ~ (Len(b \o rest) < WordLen)
      /\ (b \o rest)[1] = b[1] /\ (b \o rest)[2] = b[2]
  <2>1. Len(b \o rest) = WordLen + Len(rest) /\ Drop(b \o rest, WordLen) = rest /\ Len(rest) \in Nat
    BY <1>1, DropPrefix
  <2>2. (b \o rest)[1] = b[1] /\ (b \o rest)[2] = b[2]
    BY <1>1, ConcatProperties DEF WordLen
  <2> QED BY <2>1, <2>2 DEF WordLen
<1>3. UnmarshalUint32Safe(b \o rest) = Got((b \o rest)[1] * Base + (b \o rest)[2], Drop(b \o rest, WordLen))
  BY <1>2 DEF UnmarshalUint32Safe
<1> QED BY <1>1, <1>2, <1>3 DEF b

\* A string is read back as it was written, whatever its bytes, when its length has a uint32.
THEOREM StringRoundTrip ==
  ASSUME NEW s \in Seq(Bytes), Len(s) \in Uint32, NEW rest \in Seq(Bytes)
  PROVE  UnmarshalStringSafe(MarshalString(s) \o rest) = Got(s, rest)
<1>1. MarshalUint32(Len(s)) \in Seq(Bytes)
  BY Uint32Bytes
<1>2. MarshalString(s) \o rest = MarshalUint32(Len(s)) \o (s \o rest)
  BY <1>1, ConcatAssociative DEF MarshalString
<1>3. s \o rest \in Seq(Bytes) /\ Len(s \o rest) = Len(s) + Len(rest) /\ Len(s) \in Nat /\ Len(rest) \in Nat
  OBVIOUS
<1>4. UnmarshalUint32Safe(MarshalString(s) \o rest) = Got(Len(s), s \o rest)
  BY <1>2, <1>3, Uint32RoundTrip
<1>5. TakeCounted(Got(Len(s), s \o rest)) = Got(SubSeq(s \o rest, 1, Len(s)), Drop(s \o rest, Len(s)))
  BY <1>3 DEF TakeCounted, Got
<1> QED BY <1>4, <1>5, DropPrefix DEF UnmarshalStringSafe

LEMMA Concat ==
  \A a, b \in Seq(Bytes) : /\ a \o b \in Seq(Bytes) /\ Len(a \o b) = Len(a) + Len(b)
                           /\ Len(a) \in Nat /\ Len(b) \in Nat
                           /\ Drop(a \o b, Len(a)) = b
BY DropPrefix

LEMMA GotFields ==
  \A v, b : Got(v, b).v = v /\ Got(v, b).rest = b /\ Got(v, b).failed = FALSE
BY DEF Got

LEMMA ThenGot ==
  \A vs, b, v, rest : AndThen(Got(vs, b), Got(v, rest)) = Got(Append(vs, v), rest)
BY GotFields DEF AndThen

LEMMA Associative ==
  \A a, b, c \in Seq(Bytes) : (a \o b) \o c = a \o (b \o c)
BY ConcatAssociative

LEMMA StringBytes ==
  ASSUME NEW s \in Texts
  PROVE  MarshalString(s) \in Seq(Bytes) /\ Len(MarshalString(s)) > 0
<1>1. s \in Seq(Bytes) /\ Len(s) \in Uint32
  BY DEF Texts
<1>2. MarshalUint32(Len(s)) \in Seq(Bytes) /\ Len(MarshalUint32(Len(s))) = 2
  BY <1>1, Uint32Bytes DEF WordLen
<1>3. Len(MarshalString(s)) = 2 + Len(s) /\ MarshalString(s) \in Seq(Bytes) /\ Len(s) \in Nat
  BY <1>1, <1>2, Concat DEF MarshalString
<1> QED BY <1>3

\* A uint64 is read back as it was written.
THEOREM Uint64RoundTrip ==
  ASSUME NEW v \in Uint32 \X Uint32, NEW rest \in Seq(Bytes)
  PROVE  UnmarshalUint64Safe(MarshalUint64(v) \o rest) = Got(v, rest)
<1> DEFINE a == MarshalUint32(v[1])
<1> DEFINE b == MarshalUint32(v[2])
<1>1. v[1] \in Uint32 /\ v[2] \in Uint32 /\ v = <<v[1], v[2]>>
  OBVIOUS
<1>2. /\ a \in Seq(Bytes) /\ Len(a) = 2 /\ a[1] * Base + a[2] = v[1]
      /\ b \in Seq(Bytes) /\ Len(b) = 2 /\ b[1] * Base + b[2] = v[2]
  BY <1>1, Uint32Bytes DEF WordLen
<1>3. MarshalUint64(v) = a \o b
  BY DEF MarshalUint64
<1> HIDE DEF a, b
<1> DEFINE ab == a \o b
<1> DEFINE all == ab \o rest
<1>4. ab \in Seq(Bytes) /\ Len(ab) = 4
  <2>1. a \in Seq(Bytes) /\ b \in Seq(Bytes) /\ Len(a) = 2 /\ Len(b) = 2
    BY <1>2
  <2>2. a \o b \in Seq(Bytes) /\ Len(a \o b) = Len(a) + Len(b)
    BY <2>1, Concat
  <2>3. Len(a) + Len(b) = 4
    BY <2>1
  <2> QED BY <2>2, <2>3
<1>5. ab[1] = a[1] /\ ab[2] = a[2] /\ ab[3] = b[1] /\ ab[4] = b[2]
  <2>1. \A i \in 1..(Len(a) + Len(b)) : ab[i] = IF i <= Len(a) THEN a[i] ELSE b[i - Len(a)]
    BY <1>2, ConcatProperties
  <2> HIDE DEF ab
  <2> QED BY <1>2, <2>1
<1> HIDE DEF ab
<1>6. /\ all[1] = ab[1] /\ all[2] = ab[2] /\ all[3] = ab[3] /\ all[4] = ab[4]
  <2>1. \A i \in 1..(Len(ab) + Len(rest)) : all[i] = IF i <= Len(ab) THEN ab[i] ELSE rest[i - Len(ab)]
    BY <1>4, ConcatProperties
  <2> HIDE DEF all
  <2> QED BY <1>4, <2>1, LenProperties
<1>7. Drop(all, 4) = rest /\ Len(all) = 4 + Len(rest) /\ Len(rest) \in Nat
  BY <1>4, Concat
<1> HIDE DEF all
<1>8. UnmarshalUint64Safe(all)
        = Got(<<all[1] * Base + all[2], all[3] * Base + all[4]>>, Drop(all, 4))
  BY <1>7 DEF UnmarshalUint64Safe, WordLen
<1>9. UnmarshalUint64Safe(all) = Got(<<v[1], v[2]>>, rest)
  BY <1>2, <1>5, <1>6, <1>7, <1>8
<1> QED BY <1>1, <1>3, <1>9 DEF all, ab

\* A string behind the values decoded before it.
LEMMA StringAppended ==
  ASSUME NEW vs, NEW s \in Texts, NEW rest \in Seq(Bytes)
  PROVE  AndString(Got(vs, MarshalString(s) \o rest)) = Got(Append(vs, s), rest)
<1>1. UnmarshalStringSafe(MarshalString(s) \o rest) = Got(s, rest)
  BY StringRoundTrip DEF Texts
<1> DEFINE r == Got(vs, MarshalString(s) \o rest)
<1>2. r.rest = MarshalString(s) \o rest
  BY GotFields
<1>3. AndString(r) = AndThen(r, Got(s, rest))
  BY <1>1, <1>2 DEF AndString
<1> QED BY <1>3, ThenGot

MarshalPair(p) == MarshalString(p[1]) \o MarshalString(p[2])

LEMMA PairAppended ==
  ASSUME NEW vs, NEW p \in Pairs, NEW rest \in Seq(Bytes)
  PROVE  /\ MarshalPair(p) \in Seq(Bytes) /\ Len(MarshalPair(p)) > 0
         /\ UnmarshalPair(Got(vs, MarshalPair(p) \o rest)) = Got(Append(vs, p), rest)
<1> DEFINE a == MarshalString(p[1])
<1> DEFINE b == MarshalString(p[2])
<1>1. p[1] \in Texts /\ p[2] \in Texts /\ p = <<p[1], p[2]>>
  BY DEF Pairs
<1>2. a \in Seq(Bytes) /\ Len(a) > 0 /\ b \in Seq(Bytes) /\ Len(b) \in Nat /\ Len(a) \in Nat
  BY <1>1, StringBytes
<1>3. MarshalPair(p) \o rest = a \o (b \o rest) /\ b \o rest \in Seq(Bytes)
  BY <1>2, Associative DEF MarshalPair
<1>4. AndString(Got(<<>>, a \o (b \o rest))) = Got(Append(<<>>, p[1]), b \o rest)
  BY <1>1, <1>3, StringAppended
<1>5. AndString(Got(Append(<<>>, p[1]), b \o rest)) = Got(Append(Append(<<>>, p[1]), p[2]), rest)
  BY <1>1, StringAppended
<1>6. Append(Append(<<>>, p[1]), p[2]) = <<p[1], p[2]>>
  <2>1. Append(<<>>, p[1]) = <<p[1]>>
    BY <1>1
  <2>2. <<p[1]>> \in Seq(Texts) /\ <<p[1], p[2]>> \in Seq(Texts)
    BY <1>1
  <2>3. /\ Append(<<p[1]>>, p[2]) \in Seq(Texts) /\ Len(Append(<<p[1]>>, p[2])) = 2
        /\ Append(<<p[1]>>, p[2])[1] = p[1] /\ Append(<<p[1]>>, p[2])[2] = p[2]
    BY <1>1, <2>2
  <2>4. Append(<<p[1]>>, p[2]) = <<p[1], p[2]>>
    <3>1. \A i \in 1..2 : i = 1 \/ i = 2
      OBVIOUS
    <3>2. Len(<<p[1], p[2]>>) = 2 /\ <<p[1], p[2]>>[1] = p[1] /\ <<p[1], p[2]>>[2] = p[2]
      OBVIOUS
    <3>3. \A i \in 1..2 : Append(<<p[1]>>, p[2])[i] = <<p[1], p[2]>>[i]
      BY <2>3, <3>1, <3>2
    <3> QED BY <2>2, <2>3, <3>2, <3>3, SeqEqual
  <2> QED BY <2>1, <2>4
<1>7. AndString(AndString(Got(<<>>, MarshalPair(p) \o rest))) = Got(p, rest)
  <2> HIDE DEF a, b
  <2> QED BY <1>1, <1>3, <1>4, <1>5, <1>6
<1>8. UnmarshalPair(Got(vs, MarshalPair(p) \o rest)) = AndThen(Got(vs, MarshalPair(p) \o rest), Got(p, rest))
  BY <1>7, GotFields DEF UnmarshalPair
<1>9. AndThen(Got(vs, MarshalPair(p) \o rest), Got(p, rest)) = Got(Append(vs, p), rest)
  BY ThenGot
<1>10. MarshalPair(p) \in Seq(Bytes) /\ Len(MarshalPair(p)) > 0
  BY <1>2, Concat DEF MarshalPair
<1> QED BY <1>8, <1>9, <1>10

-----------------------------------------------------------------------------
(* Folds and concatenations, turn by turn.                                 *)

\* Induction, on the set of the numbers for which something holds.
LEMMA SetInduction ==
  ASSUME NEW S, 0 \in S, \A n \in Nat : n \in S => n + 1 \in S
  PROVE  Nat \subseteq S
<1> DEFINE T == Nat \ S
<1> SUFFICES ASSUME T # {} PROVE FALSE
  OBVIOUS
<1> DEFINE R == OpToRel(<, Nat)
<1>1. IsWellFoundedOn(R, Nat)
  BY NatLessThanWellFounded
<1>2. \A x, y \in Nat : <<x, y>> \in R <=> x < y
  BY DEF OpToRel
<1> HIDE DEF R
<1>3. PICK x \in T : \A y \in T : ~ (<<y, x>> \in R)
  BY <1>1, WFMin
<1>4. x # 0 /\ x - 1 \in Nat /\ x \in Nat /\ x - 1 < x
  OBVIOUS
<1>5. <<x - 1, x>> \in R
  BY <1>2, <1>4
<1>6. x - 1 \in S
  BY <1>3, <1>4, <1>5
<1> QED BY <1>4, <1>6

LEMMA MaxOfInterval ==
  ASSUME NEW n \in Nat, NEW s \in SUBSET (1..(n + 1))
  PROVE  /\ n + 1 \in s => Max(s) = n + 1
         /\ s \ {n + 1} \in SUBSET (1..n)
         /\ n + 1 \notin s => s \in SUBSET (1..n)
<1>1. ASSUME n + 1 \in s PROVE Max(s) = n + 1
  <2>1. \A y \in s : n + 1 >= y
    OBVIOUS
  <2>2. \A x \in s : (\A y \in s : x >= y) => x = n + 1
    BY <1>1, <2>1
  <2> QED BY <1>1, <2>1, <2>2 DEF Max
<1> QED BY <1>1

\* One turn of each of the loops of the decoders.
Turn(loop, kind, r, i) ==
  CASE loop = "counted" -> UnmarshalPair(r)
    [] loop = "pairs"   -> IF r.failed \/ r.rest = <<>> THEN r ELSE UnmarshalPair(r)
    [] loop = "attrs"   -> SetField(r, i, UnmarshalBasic(TypeOf[i], r.rest))
    [] loop = "names"   -> UnmarshalEntry(r)
    [] loop = "fxcounted" -> IF r.failed THEN r ELSE FxConsumePair(r)
    [] loop = "fxpairs" -> IF r.rest = <<>> THEN r ELSE FxConsumePair(r)
    [] loop = "fxattrs" -> FxConsumeField(r, i[1], i[2])
    [] loop = "fxnames" -> IF r.failed THEN r ELSE FxConsumeEntry(r)
    [] loop = "fxfields" -> FieldOf(r, i, FxUnmarshal(TypeOf[i], r.buf))
    [] loop = "arrived" -> r + WordLen + 1 + Len(i.body)
    [] loop = "special" -> IF i \in kind THEN r + SpecialBit[i] ELSE r
    [] loop = "pflags"  -> IF i \in kind THEN r + PFlag[i] ELSE r
    [] OTHER            -> AndField(r, i, Unmarshal(TypeOf[i], r.rest), i \in Forgiven(kind))

\* What FoldLeft iterates, over the sets of places in a sequence.
Iterates(loop, kind, base, seq, n, it) ==
  it = [s \in SUBSET (1..n) |->
          IF s = {} THEN base ELSE Turn(loop, kind, it[s \ {Max(s)}], seq[Max(s)])]

LEMMA IterationExists ==
  ASSUME NEW loop, NEW kind, NEW base, NEW seq, NEW n \in Nat
  PROVE  \E it : Iterates(loop, kind, base, seq, n, it)
<1> DEFINE S == {m \in Nat : \E it : Iterates(loop, kind, base, seq, m, it)}
<1>1. 0 \in S
  <2> DEFINE it == [s \in SUBSET (1..0) |-> base]
  <2>1. \A s \in SUBSET (1..0) : s = {}
    OBVIOUS
  <2>2. it = [s \in SUBSET (1..0) |->
                IF s = {} THEN base ELSE Turn(loop, kind, it[s \ {Max(s)}], seq[Max(s)])]
    BY <2>1
  <2>3. Iterates(loop, kind, base, seq, 0, it)
    BY <2>2 DEF Iterates
  <2> QED BY <2>3
<1>2. ASSUME NEW m \in Nat, m \in S PROVE m + 1 \in S
  <2>1. PICK it : Iterates(loop, kind, base, seq, m, it)
    BY <1>2
  <2> DEFINE next == [s \in SUBSET (1..(m + 1)) |->
                        IF m + 1 \in s THEN Turn(loop, kind, it[s \ {m + 1}], seq[m + 1]) ELSE it[s]]
  <2>2. ASSUME NEW s \in SUBSET (1..(m + 1))
        PROVE  next[s] = IF s = {} THEN base ELSE Turn(loop, kind, next[s \ {Max(s)}], seq[Max(s)])
    <3>1. CASE m + 1 \in s
      <4>1. Max(s) = m + 1 /\ s \ {m + 1} \in SUBSET (1..m) /\ m + 1 \notin s \ {m + 1}
        BY <3>1, MaxOfInterval
      <4>2. s \ {m + 1} \in SUBSET (1..(m + 1)) /\ s # {}
        BY <3>1
      <4>3. next[s \ {m + 1}] = it[s \ {m + 1}]
        BY <4>1, <4>2
      <4> QED BY <3>1, <4>1, <4>2, <4>3
    <3>2. CASE m + 1 \notin s
      <4>1. s \in SUBSET (1..m)
        BY <3>2, MaxOfInterval
      <4>2. next[s] = it[s] /\ it[s] = IF s = {} THEN base ELSE Turn(loop, kind, it[s \ {Max(s)}], seq[Max(s)])
        BY <2>1, <3>2, <4>1 DEF Iterates
      <4>3. s \ {Max(s)} \in SUBSET (1..(m + 1)) /\ m + 1 \notin s \ {Max(s)}
        BY <3>2
      <4>4. next[s \ {Max(s)}] = it[s \ {Max(s)}]
        BY <4>3
      <4> QED BY <4>2, <4>4
    <3> QED BY <3>1, <3>2
  <2> HIDE DEF next
  <2>3. Iterates(loop, kind, base, seq, m + 1, next)
    <3>1. next = [s \in SUBSET (1..(m + 1)) |-> next[s]]
      BY DEF next
    <3> QED BY <2>2, <3>1 DEF Iterates
  <2> QED BY <2>3
<1>3. n \in S
  <2> HIDE DEF S
  <2> QED BY <1>1, <1>2, SetInduction
<1> QED BY <1>3

\* The values a loop goes through, turn by turn.
Runs(loop, kind, base, seq, n, run) ==
  /\ run[0] = base
  /\ \A k \in 0..(n - 1) : run[k + 1] = Turn(loop, kind, run[k], seq[k + 1])

LEMMA RunOfIteration ==
  ASSUME NEW loop, NEW kind, NEW base, NEW seq, NEW n \in Nat, NEW it,
         Iterates(loop, kind, base, seq, n, it)
  PROVE  \E run : Runs(loop, kind, base, seq, n, run) /\ run[n] = it[1..n]
<1> DEFINE run == [k \in 0..n |-> it[1..k]]
<1>1. run[0] = base
  <2>1. {} \in SUBSET (1..n) /\ 1..0 = {}
    OBVIOUS
  <2>2. it[{}] = base
    BY <2>1 DEF Iterates
  <2> QED BY <2>1, <2>2
<1>2. ASSUME NEW k \in 0..(n - 1)
      PROVE  run[k + 1] = Turn(loop, kind, run[k], seq[k + 1])
  <2>1. /\ 1..(k + 1) \in SUBSET (1..n) /\ 1..(k + 1) # {} /\ k \in Nat /\ k + 1 \in 1..(k + 1)
        /\ (1..(k + 1)) \ {k + 1} = 1..k /\ 1..(k + 1) \in SUBSET (1..(k + 1))
        /\ run[k + 1] = it[1..(k + 1)] /\ run[k] = it[1..k]
    OBVIOUS
  <2>2. Max(1..(k + 1)) = k + 1
    BY <2>1, MaxOfInterval
  <2>3. it[1..(k + 1)] = Turn(loop, kind, it[(1..(k + 1)) \ {Max(1..(k + 1))}], seq[Max(1..(k + 1))])
    BY <2>1 DEF Iterates
  <2> QED BY <2>1, <2>2, <2>3
<1>3. run[n] = it[1..n]
  OBVIOUS
<1> QED BY <1>1, <1>2, <1>3 DEF Runs

LEMMA CountedLoop ==
  ASSUME NEW base, NEW n \in Nat, NEW seq, DOMAIN seq = 1..n
  PROVE  \E run : /\ Runs("counted", "any", base, seq, n, run)
                  /\ FoldLeft(LAMBDA r, i : UnmarshalPair(r), base, seq) = run[n]
<1> DEFINE P(it) == it = [s \in SUBSET (1..n) |->
                            IF s = {} THEN base ELSE UnmarshalPair(it[s \ {Max(s)}])]
<1>1. \A it : P(it) <=> Iterates("counted", "any", base, seq, n, it)
  BY DEF Iterates, Turn
<1>2. P(CHOOSE it : P(it))
  BY <1>1, IterationExists
<1>3. FoldLeft(LAMBDA r, i : UnmarshalPair(r), base, seq) = (CHOOSE it : P(it))[1..n]
  BY Zenon DEF FoldLeft, MapThenFoldSet
<1> HIDE DEF P
<1>4. PICK it : /\ P(it)
                /\ FoldLeft(LAMBDA r, i : UnmarshalPair(r), base, seq) = it[1..n]
  BY <1>2, <1>3, Zenon
<1>5. P(it)
  BY <1>4, Zenon
<1>6. PICK run : Runs("counted", "any", base, seq, n, run) /\ run[n] = it[1..n]
  BY <1>1, <1>5, RunOfIteration
<1> QED BY <1>4, <1>6, Zenon

LEMMA PairsLoop ==
  ASSUME NEW base, NEW n \in Nat, NEW seq, DOMAIN seq = 1..n
  PROVE  \E run : /\ Runs("pairs", "any", base, seq, n, run)
                  /\ FoldLeft(LAMBDA r, i : IF r.failed \/ r.rest = <<>> THEN r ELSE UnmarshalPair(r),
                              base, seq) = run[n]
<1> DEFINE P(it) == it = [s \in SUBSET (1..n) |->
                            IF s = {} THEN base
                            ELSE IF it[s \ {Max(s)}].failed \/ it[s \ {Max(s)}].rest = <<>>
                                 THEN it[s \ {Max(s)}] ELSE UnmarshalPair(it[s \ {Max(s)}])]
<1>1. \A it : P(it) <=> Iterates("pairs", "any", base, seq, n, it)
  BY DEF Iterates, Turn
<1>2. P(CHOOSE it : P(it))
  BY <1>1, IterationExists
<1>3. FoldLeft(LAMBDA r, i : IF r.failed \/ r.rest = <<>> THEN r ELSE UnmarshalPair(r), base, seq)
        = (CHOOSE it : P(it))[1..n]
  BY Zenon DEF FoldLeft, MapThenFoldSet
<1> HIDE DEF P
<1>4. PICK it : /\ P(it)
                /\ FoldLeft(LAMBDA r, i : IF r.failed \/ r.rest = <<>> THEN r ELSE UnmarshalPair(r), base, seq) = it[1..n]
  BY <1>2, <1>3, Zenon
<1>5. P(it)
  BY <1>4, Zenon
<1>6. PICK run : Runs("pairs", "any", base, seq, n, run) /\ run[n] = it[1..n]
  BY <1>1, <1>5, RunOfIteration
<1> QED BY <1>4, <1>6, Zenon

LEMMA AttrsLoop ==
  ASSUME NEW base, NEW n \in Nat, NEW seq, DOMAIN seq = 1..n
  PROVE  \E run : /\ Runs("attrs", "any", base, seq, n, run)
                  /\ FoldLeft(LAMBDA r, f : SetField(r, f, UnmarshalBasic(TypeOf[f], r.rest)),
                              base, seq) = run[n]
<1> DEFINE P(it) == it = [s \in SUBSET (1..n) |->
                            IF s = {} THEN base
                            ELSE SetField(it[s \ {Max(s)}], seq[Max(s)],
                                          UnmarshalBasic(TypeOf[seq[Max(s)]], it[s \ {Max(s)}].rest))]
<1>1. \A it : P(it) <=> Iterates("attrs", "any", base, seq, n, it)
  BY DEF Iterates, Turn
<1>2. P(CHOOSE it : P(it))
  BY <1>1, IterationExists
<1>3. FoldLeft(LAMBDA r, f : SetField(r, f, UnmarshalBasic(TypeOf[f], r.rest)), base, seq)
        = (CHOOSE it : P(it))[1..n]
  BY Zenon DEF FoldLeft, MapThenFoldSet
<1> HIDE DEF P
<1>4. PICK it : /\ P(it)
                /\ FoldLeft(LAMBDA r, f : SetField(r, f, UnmarshalBasic(TypeOf[f], r.rest)), base, seq) = it[1..n]
  BY <1>2, <1>3, Zenon
<1>5. P(it)
  BY <1>4, Zenon
<1>6. PICK run : Runs("attrs", "any", base, seq, n, run) /\ run[n] = it[1..n]
  BY <1>1, <1>5, RunOfIteration
<1> QED BY <1>4, <1>6, Zenon

LEMMA NamesLoop ==
  ASSUME NEW base, NEW n \in Nat, NEW seq, DOMAIN seq = 1..n
  PROVE  \E run : /\ Runs("names", "any", base, seq, n, run)
                  /\ FoldLeft(LAMBDA r, i : UnmarshalEntry(r), base, seq) = run[n]
<1> DEFINE P(it) == it = [s \in SUBSET (1..n) |->
                            IF s = {} THEN base ELSE UnmarshalEntry(it[s \ {Max(s)}])]
<1>1. \A it : P(it) <=> Iterates("names", "any", base, seq, n, it)
  BY DEF Iterates, Turn
<1>2. P(CHOOSE it : P(it))
  BY <1>1, IterationExists
<1>3. FoldLeft(LAMBDA r, i : UnmarshalEntry(r), base, seq) = (CHOOSE it : P(it))[1..n]
  BY Zenon DEF FoldLeft, MapThenFoldSet
<1> HIDE DEF P
<1>4. PICK it : /\ P(it)
                /\ FoldLeft(LAMBDA r, i : UnmarshalEntry(r), base, seq) = it[1..n]
  BY <1>2, <1>3, Zenon
<1>5. P(it)
  BY <1>4, Zenon
<1>6. PICK run : Runs("names", "any", base, seq, n, run) /\ run[n] = it[1..n]
  BY <1>1, <1>5, RunOfIteration
<1> QED BY <1>4, <1>6, Zenon

\* What FlattenSeq iterates.
Flattens(seqs, n, f) == f = [i \in 1..n |-> IF i = 1 THEN seqs[i] ELSE f[i-1] \o seqs[i]]

LEMMA FlatteningExists ==
  ASSUME NEW seqs, NEW n \in Nat
  PROVE  \E f : Flattens(seqs, n, f)
<1> DEFINE S == {m \in Nat : \E f : Flattens(seqs, m, f)}
<1>1. 0 \in S
  <2> DEFINE f == [i \in 1..0 |-> <<>>]
  <2>1. f = [i \in 1..0 |-> IF i = 1 THEN seqs[i] ELSE f[i-1] \o seqs[i]]
    OBVIOUS
  <2>2. Flattens(seqs, 0, f)
    BY <2>1 DEF Flattens
  <2> QED BY <2>2
<1>2. ASSUME NEW m \in Nat, m \in S PROVE m + 1 \in S
  <2>1. PICK f : Flattens(seqs, m, f)
    BY <1>2
  <2> DEFINE next == [i \in 1..(m + 1) |->
                        IF i = m + 1 THEN IF i = 1 THEN seqs[i] ELSE f[i-1] \o seqs[i] ELSE f[i]]
  <2>2. ASSUME NEW i \in 1..(m + 1)
        PROVE  next[i] = IF i = 1 THEN seqs[i] ELSE next[i-1] \o seqs[i]
    <3>1. CASE i = m + 1
      <4>1. i # 1 => i - 1 \in 1..(m + 1) /\ i - 1 # m + 1
        BY <3>1
      <4> QED BY <3>1, <4>1
    <3>2. CASE i \in 1..m
      <4>1. next[i] = f[i] /\ f[i] = IF i = 1 THEN seqs[i] ELSE f[i-1] \o seqs[i]
        BY <2>1, <3>2 DEF Flattens
      <4>2. i # 1 => i - 1 \in 1..(m + 1) /\ i - 1 # m + 1
        BY <3>2
      <4> QED BY <4>1, <4>2
    <3> QED BY <3>1, <3>2
  <2> HIDE DEF next
  <2>3. Flattens(seqs, m + 1, next)
    <3>1. next = [i \in 1..(m + 1) |-> next[i]]
      BY DEF next
    <3> QED BY <2>2, <3>1 DEF Flattens
  <2> QED BY <2>3
<1>3. n \in S
  <2> HIDE DEF S
  <2> QED BY <1>1, <1>2, SetInduction
<1> QED BY <1>3

\* What is left of a concatenation of sequences behind each of them.
Tails(seqs, n, tails) ==
  /\ tails \in [0..n -> Seq(Bytes)] /\ tails[n] = <<>>
  /\ \A k \in 1..n : tails[k - 1] = seqs[k] \o tails[k]

LEMMA TailsOneMore ==
  ASSUME NEW m \in Nat, NEW seqs, NEW tails, Tails(seqs, m, tails), seqs[m + 1] \in Seq(Bytes),
         \A k \in 1..m : seqs[k] \in Seq(Bytes)
  PROVE  \E next : Tails(seqs, m + 1, next) /\ next[0] = tails[0] \o seqs[m + 1]
<1> DEFINE next == [k \in 0..(m + 1) |-> IF k = m + 1 THEN <<>> ELSE tails[k] \o seqs[m + 1]]
<1>1. \A k \in 0..m : tails[k] \in Seq(Bytes) /\ tails[k] \o seqs[m + 1] \in Seq(Bytes)
  BY DEF Tails
<1>2. ASSUME NEW k \in 0..m
      PROVE  next[k] = tails[k] \o seqs[m + 1] /\ next[k] \in Seq(Bytes)
  <2>1. k \in 0..(m + 1) /\ k # m + 1
    OBVIOUS
  <2> QED BY <1>1, <2>1
<1>3. next[m + 1] = <<>>
  OBVIOUS
<1>4. next \in [0..(m + 1) -> Seq(Bytes)]
  <2>1. \A k \in 0..(m + 1) : next[k] \in Seq(Bytes)
    BY <1>2, <1>3
  <2>2. next = [k \in 0..(m + 1) |-> next[k]]
    OBVIOUS
  <2> HIDE DEF next
  <2> QED BY <2>1, <2>2
<1> HIDE DEF next
<1>5. next[0] = tails[0] \o seqs[m + 1]
  <2>1. 0 \in 0..m
    OBVIOUS
  <2> QED BY <1>2, <2>1
<1>6. ASSUME NEW k \in 1..(m + 1) PROVE next[k - 1] = seqs[k] \o next[k]
  <2>1. CASE k = m + 1
    <3>1. next[k - 1] = <<>> \o seqs[m + 1] /\ next[k] = <<>>
      <4>1. k - 1 = m /\ m \in 0..m
        BY <2>1
      <4>2. next[m] = tails[m] \o seqs[m + 1] /\ tails[m] = <<>>
        BY <1>2, <4>1 DEF Tails
      <4> QED BY <1>3, <2>1, <4>1, <4>2
    <3> QED BY <2>1, <3>1, ConcatEmptySeq
  <2>2. CASE k \in 1..m
    <3>1. k - 1 \in 0..m /\ k \in 0..m
      BY <2>2
    <3>2. next[k - 1] = tails[k - 1] \o seqs[m + 1] /\ next[k] = tails[k] \o seqs[m + 1]
      BY <1>2, <3>1
    <3>3. tails[k - 1] = seqs[k] \o tails[k] /\ tails[k] \in Seq(Bytes) /\ seqs[k] \in Seq(Bytes)
      BY <2>2, <3>1 DEF Tails
    <3>4. (seqs[k] \o tails[k]) \o seqs[m + 1] = seqs[k] \o (tails[k] \o seqs[m + 1])
      BY <3>3, Associative
    <3> QED BY <3>2, <3>3, <3>4
  <2>3. k = m + 1 \/ k \in 1..m
    OBVIOUS
  <2> QED BY <2>1, <2>2, <2>3
<1> QED BY <1>3, <1>4, <1>5, <1>6 DEF Tails

LEMMA TailsOfFlattening ==
  ASSUME NEW n \in Nat \ {0}, NEW seqs, \A k \in 1..n : seqs[k] \in Seq(Bytes),
         NEW f, Flattens(seqs, n, f)
  PROVE  \E tails : Tails(seqs, n, tails) /\ tails[0] = f[n]
<1> DEFINE S == {k \in Nat : k \in 1..n => \E tails : Tails(seqs, k, tails) /\ tails[0] = f[k]}
<1>1. 0 \in S
  OBVIOUS
<1>2. ASSUME NEW k \in Nat, k \in S PROVE k + 1 \in S
  <2> SUFFICES ASSUME k + 1 \in 1..n
               PROVE  \E tails : Tails(seqs, k + 1, tails) /\ tails[0] = f[k + 1]
    OBVIOUS
  <2>1. seqs[k + 1] \in Seq(Bytes) /\ \A i \in 1..k : seqs[i] \in Seq(Bytes)
    OBVIOUS
  <2>2. \E tails : /\ Tails(seqs, k, tails)
                   /\ tails[0] \o seqs[k + 1] = f[k + 1]
    <3>1. CASE k = 0
      <4> DEFINE none == [i \in 0..0 |-> <<>>]
      <4>1. Tails(seqs, 0, none)
        <5>1. none \in [0..0 -> Seq(Bytes)] /\ none[0] = <<>>
          OBVIOUS
        <5> QED BY <5>1 DEF Tails
      <4>2. f[k + 1] = seqs[k + 1]
        BY <3>1 DEF Flattens
      <4>3. none[0] \o seqs[k + 1] = f[k + 1]
        BY <2>1, <4>2, ConcatEmptySeq
      <4> HIDE DEF none
      <4> QED BY <3>1, <4>1, <4>3
    <3>2. CASE k # 0
      <4>1. PICK tails : Tails(seqs, k, tails) /\ tails[0] = f[k]
        BY <1>2, <3>2
      <4>2. f[k + 1] = f[k] \o seqs[k + 1]
        <5>1. k + 1 # 1 /\ (k + 1) - 1 = k /\ k + 1 \in 1..n
          BY <3>2
        <5>2. f[k + 1] = f[(k + 1) - 1] \o seqs[k + 1]
          BY <5>1 DEF Flattens
        <5> QED BY <5>1, <5>2
      <4> QED BY <4>1, <4>2
    <3> QED BY <3>1, <3>2
  <2> QED BY <2>1, <2>2, TailsOneMore
<1>3. n \in S
  <2> HIDE DEF S
  <2> QED BY <1>1, <1>2, SetInduction
<1> QED BY <1>3

LEMMA FlattenTails ==
  ASSUME NEW seqs \in Seq(Seq(Bytes))
  PROVE  \E tails : Tails(seqs, Len(seqs), tails) /\ tails[0] = FlattenSeq(seqs)
<1> DEFINE n == Len(seqs)
<1>1. n \in Nat /\ \A k \in 1..n : seqs[k] \in Seq(Bytes)
  OBVIOUS
<1>2. CASE n = 0
  <2> DEFINE none == [i \in 0..0 |-> <<>>]
  <2>1. none \in [0..0 -> Seq(Bytes)] /\ none[0] = <<>> /\ seqs = <<>>
    BY <1>2
  <2>2. FlattenSeq(seqs) = <<>>
    BY <1>2, <2>1 DEF FlattenSeq
  <2>3. Tails(seqs, 0, none) /\ none[0] = FlattenSeq(seqs)
    BY <2>1, <2>2 DEF Tails
  <2> HIDE DEF none
  <2> QED BY <1>2, <2>3
<1>3. CASE n # 0
  <2> HIDE DEF n
  <2>1. Flattens(seqs, n, CHOOSE f : Flattens(seqs, n, f))
    BY <1>1, FlatteningExists
  <2>2. FlattenSeq(seqs) = (CHOOSE f : Flattens(seqs, n, f))[n]
    BY <1>3, Zenon DEF FlattenSeq, Flattens, n
  <2>3. PICK f : Flattens(seqs, n, f) /\ FlattenSeq(seqs) = f[n]
    BY <2>1, <2>2, Zenon
  <2>4. n \in Nat \ {0}
    BY <1>1, <1>3
  <2>5. \E tails : Tails(seqs, n, tails) /\ tails[0] = f[n]
    BY <1>1, <2>3, <2>4, TailsOfFlattening
  <2> QED BY <2>3, <2>5 DEF n
<1> QED BY <1>2, <1>3

\* The k-th turn of a loop reads what the k-th element of a list was written as.
ReadsBack(loop, V, v, seqs, is) ==
  v \in Seq(V) /\ \A k \in 1..Len(v) :
    /\ seqs[k] \in Seq(Bytes)
    /\ \A vs \in Seq(V), b \in Seq(Bytes) :
         Turn(loop, "any", Got(vs, seqs[k] \o b), is[k]) = Got(Append(vs, v[k]), b)

\* Such a loop over the bytes of the whole list, and what follows it.
ReadsList(loop, V, v, n, seqs, tails, rest, is, m, run) ==
  /\ n = Len(v) /\ m \in Nat /\ n <= m /\ rest \in Seq(Bytes)
  /\ ReadsBack(loop, V, v, seqs, is) /\ Tails(seqs, n, tails)
  /\ Runs(loop, "any", Got(<<>>, tails[0] \o rest), is, m, run)

LEMMA ListLoop ==
  ASSUME NEW loop, NEW V, NEW v, NEW n, NEW seqs, NEW tails, NEW rest, NEW is, NEW m, NEW run,
         ReadsList(loop, V, v, n, seqs, tails, rest, is, m, run)
  PROVE  run[n] = Got(v, rest)
<1> /\ n = Len(v) /\ m \in Nat /\ n <= m /\ rest \in Seq(Bytes)
    /\ ReadsBack(loop, V, v, seqs, is) /\ Tails(seqs, n, tails)
    /\ Runs(loop, "any", Got(<<>>, tails[0] \o rest), is, m, run)
  BY DEF ReadsList
<1>0. v \in Seq(V)
  BY DEF ReadsBack
<1> DEFINE S == {k \in Nat : k <= n => run[k] = Got(SubSeq(v, 1, k), tails[k] \o rest)}
<1>1. n \in Nat /\ n <= m
  BY <1>0
<1>a. \A j \in 1..n : /\ tails[j - 1] = seqs[j] \o tails[j] /\ tails[j] \in Seq(Bytes)
                      /\ seqs[j] \in Seq(Bytes) /\ v[j] \in V
  <2>1. \A j \in 1..n : j \in 0..n /\ v[j] \in V
    BY <1>0
  <2> QED BY <2>1 DEF Tails, ReadsBack
<1>2. 0 \in S
  <2>1. run[0] = Got(<<>>, tails[0] \o rest) /\ SubSeq(v, 1, 0) = <<>>
    BY <1>0 DEF Runs
  <2> QED BY <2>1
<1>3. ASSUME NEW k \in Nat, k \in S PROVE k + 1 \in S
  <2> SUFFICES ASSUME k + 1 <= n PROVE run[k + 1] = Got(SubSeq(v, 1, k + 1), tails[k + 1] \o rest)
    OBVIOUS
  <2>1. k + 1 \in 1..n /\ k \in 0..(m - 1) /\ (k + 1) - 1 = k /\ k <= n
    BY <1>1
  <2>2. run[k] = Got(SubSeq(v, 1, k), tails[k] \o rest)
    BY <1>3, <2>1
  <2>3. run[k + 1] = Turn(loop, "any", run[k], is[k + 1])
    BY <2>1 DEF Runs
  <2>4. tails[k] = seqs[k + 1] \o tails[k + 1] /\ tails[k + 1] \in Seq(Bytes) /\ seqs[k + 1] \in Seq(Bytes)
    BY <1>a, <2>1
  <2>5. tails[k] \o rest = seqs[k + 1] \o (tails[k + 1] \o rest) /\ tails[k + 1] \o rest \in Seq(Bytes)
    <3>1. (seqs[k + 1] \o tails[k + 1]) \o rest = seqs[k + 1] \o (tails[k + 1] \o rest)
      BY <2>4, Associative
    <3> QED BY <2>4, <3>1, Concat
  <2>6. SubSeq(v, 1, k) \in Seq(V) /\ Append(SubSeq(v, 1, k), v[k + 1]) = SubSeq(v, 1, k + 1)
    BY <1>0, <1>1, <2>1
  <2>7. Turn(loop, "any", run[k], is[k + 1]) = Got(Append(SubSeq(v, 1, k), v[k + 1]), tails[k + 1] \o rest)
    <3> DEFINE b == tails[k + 1] \o rest
    <3> DEFINE vs == SubSeq(v, 1, k)
    <3>1. b \in Seq(Bytes) /\ vs \in Seq(V) /\ run[k] = Got(vs, seqs[k + 1] \o b)
      BY <2>2, <2>5, <2>6
    <3> HIDE DEF b, vs
    <3>2. Turn(loop, "any", Got(vs, seqs[k + 1] \o b), is[k + 1]) = Got(Append(vs, v[k + 1]), b)
      BY <2>1, <3>1 DEF ReadsBack
    <3> QED BY <3>1, <3>2 DEF b, vs
  <2> QED BY <2>3, <2>6, <2>7
<1>4. n \in S
  <2> HIDE DEF S
  <2> QED BY <1>1, <1>2, <1>3, SetInduction
<1>5. run[n] = Got(SubSeq(v, 1, n), tails[n] \o rest)
  BY <1>1, <1>4
<1>6. SubSeq(v, 1, n) = v /\ tails[n] \o rest = rest
  <2>1. tails[n] = <<>>
    BY DEF Tails
  <2>2. SubSeq(v, 1, n) = v
    BY <1>0, SubSeqFull
  <2> QED BY <2>1, <2>2, ConcatEmptySeq
<1> QED BY <1>5, <1>6

\* Elements of at least a byte make a list of at least as many bytes.
LEMMA ListIsLong ==
  ASSUME NEW n \in Nat, NEW seqs, NEW tails, Tails(seqs, n, tails),
         \A k \in 1..n : seqs[k] \in Seq(Bytes) /\ Len(seqs[k]) > 0
  PROVE  tails[0] \in Seq(Bytes) /\ Len(tails[0]) >= n
<1> DEFINE S == {k \in Nat : k <= n => Len(tails[n - k]) >= k}
<1>1. 0 \in S
  <2>1. n - 0 = n /\ tails[n] = <<>> /\ Len(<<>>) = 0
    BY DEF Tails
  <2> QED BY <2>1
<1>2. ASSUME NEW k \in Nat, k \in S PROVE k + 1 \in S
  <2> SUFFICES ASSUME k + 1 <= n PROVE Len(tails[n - (k + 1)]) >= k + 1
    OBVIOUS
  <2>1. n - k \in 1..n /\ n - (k + 1) = (n - k) - 1 /\ n - k \in 0..n
    OBVIOUS
  <2>2. tails[n - (k + 1)] = seqs[n - k] \o tails[n - k] /\ tails[n - k] \in Seq(Bytes)
    BY <2>1 DEF Tails
  <2>3. Len(tails[n - (k + 1)]) = Len(seqs[n - k]) + Len(tails[n - k])
    BY <2>1, <2>2, Concat
  <2>4. Len(seqs[n - k]) \in Nat /\ Len(seqs[n - k]) > 0 /\ Len(tails[n - k]) \in Nat
    BY <2>1, <2>2
  <2>5. Len(tails[n - k]) >= k
    BY <1>2
  <2>6. \A c, d \in Nat : c > 0 /\ d >= k => c + d >= k + 1
    OBVIOUS
  <2> QED BY <2>3, <2>4, <2>5, <2>6
<1>3. n \in S
  <2> HIDE DEF S
  <2> QED BY <1>1, <1>2, SetInduction
<1>4. n - n = 0 /\ tails[0] \in Seq(Bytes)
  BY DEF Tails
<1> QED BY <1>3, <1>4

-----------------------------------------------------------------------------
(* Lists.                                                                  *)

LEMMA CountedRuns ==
  ASSUME NEW n \in Nat, NEW b, Len(b) \in Nat, n <= Len(b)
  PROVE  \E run : /\ Runs("counted", "any", Got(<<>>, b), [i \in 1..n |-> i], n, run)
                  /\ UnmarshalCounted(Got(n, b)) = run[n]
<1> DEFINE turns == IF Got(n, b).v > Len(Got(n, b).rest) THEN Len(Got(n, b).rest) + 1 ELSE Got(n, b).v
<1>1. turns = n /\ Got(n, b).rest = b /\ Got(n, b).failed = FALSE
  BY GotFields
<1>2. UnmarshalCounted(Got(n, b)) = FoldLeft(LAMBDA r, i : UnmarshalPair(r), Got(<<>>, Got(n, b).rest),
                                             [i \in 1..turns |-> i])
  BY <1>1, Zenon DEF UnmarshalCounted
<1> HIDE DEF turns
<1>3. UnmarshalCounted(Got(n, b)) = FoldLeft(LAMBDA r, i : UnmarshalPair(r), Got(<<>>, b),
                                             [i \in 1..n |-> i])
  BY <1>1, <1>2, Zenon
<1>4. DOMAIN [i \in 1..n |-> i] = 1..n
  OBVIOUS
<1>5. PICK run : /\ Runs("counted", "any", Got(<<>>, b), [i \in 1..n |-> i], n, run)
                 /\ FoldLeft(LAMBDA r, i : UnmarshalPair(r), Got(<<>>, b), [i \in 1..n |-> i]) = run[n]
  BY <1>4, CountedLoop, Zenon
<1> QED BY <1>3, <1>5, Zenon

LEMMA NamesRuns ==
  ASSUME NEW n \in Nat, NEW b, Len(b) \in Nat, n <= Len(b)
  PROVE  \E run : /\ Runs("names", "any", Got(<<>>, b), [i \in 1..n |-> i], n, run)
                  /\ UnmarshalEntries(Got(n, b)) = run[n]
<1> DEFINE turns == IF Got(n, b).v > Len(Got(n, b).rest) THEN Len(Got(n, b).rest) + 1 ELSE Got(n, b).v
<1>1. turns = n /\ Got(n, b).rest = b /\ Got(n, b).failed = FALSE
  BY GotFields
<1>2. UnmarshalEntries(Got(n, b)) = FoldLeft(LAMBDA r, i : UnmarshalEntry(r), Got(<<>>, Got(n, b).rest),
                                             [i \in 1..turns |-> i])
  BY <1>1, Zenon DEF UnmarshalEntries
<1> HIDE DEF turns
<1>3. UnmarshalEntries(Got(n, b)) = FoldLeft(LAMBDA r, i : UnmarshalEntry(r), Got(<<>>, b),
                                             [i \in 1..n |-> i])
  BY <1>1, <1>2, Zenon
<1>4. DOMAIN [i \in 1..n |-> i] = 1..n
  OBVIOUS
<1>5. PICK run : /\ Runs("names", "any", Got(<<>>, b), [i \in 1..n |-> i], n, run)
                 /\ FoldLeft(LAMBDA r, i : UnmarshalEntry(r), Got(<<>>, b), [i \in 1..n |-> i]) = run[n]
  BY <1>4, NamesLoop, Zenon
<1> QED BY <1>3, <1>5, Zenon

LEMMA PairsRuns ==
  ASSUME NEW b, Len(b) \in Nat
  PROVE  \E run : /\ Runs("pairs", "any", Got(<<>>, b), [i \in 1..Len(b) |-> i], Len(b), run)
                  /\ UnmarshalPairs(b) = run[Len(b)]
<1>1. UnmarshalPairs(b) =
        FoldLeft(LAMBDA r, i : IF r.failed \/ r.rest = <<>> THEN r ELSE UnmarshalPair(r),
                 Got(<<>>, b), [i \in 1..Len(b) |-> i])
  BY Zenon DEF UnmarshalPairs
<1>2. DOMAIN [i \in 1..Len(b) |-> i] = 1..Len(b)
  OBVIOUS
<1>3. PICK run : /\ Runs("pairs", "any", Got(<<>>, b), [i \in 1..Len(b) |-> i], Len(b), run)
                 /\ FoldLeft(LAMBDA r, i : IF r.failed \/ r.rest = <<>> THEN r ELSE UnmarshalPair(r),
                             Got(<<>>, b), [i \in 1..Len(b) |-> i]) = run[Len(b)]
  BY <1>2, PairsLoop, Zenon
<1> QED BY <1>1, <1>3, Zenon

\* The bytes of a list of pairs.
LEMMA PairsBytes ==
  ASSUME NEW v \in Seq(Pairs)
  PROVE  \E seqs, tails : /\ Tails(seqs, Len(v), tails) /\ tails[0] = MarshalPairs(v)
                          /\ \A k \in 1..Len(v) : seqs[k] = MarshalPair(v[k]) /\ v[k] \in Pairs
                          /\ MarshalPairs(v) \in Seq(Bytes) /\ Len(MarshalPairs(v)) >= Len(v)
<1> DEFINE seqs == [i \in DOMAIN v |-> MarshalString(v[i][1]) \o MarshalString(v[i][2])]
<1>1. DOMAIN v = 1..Len(v) /\ Len(v) \in Nat /\ \A k \in 1..Len(v) : v[k] \in Pairs
  OBVIOUS
<1>2. \A k \in 1..Len(v) : /\ seqs[k] = MarshalPair(v[k]) /\ seqs[k] \in Seq(Bytes)
                           /\ Len(seqs[k]) > 0
  BY <1>1, PairAppended, EmptySeq DEF MarshalPair
<1>3. seqs = [i \in 1..Len(v) |-> seqs[i]]
  BY <1>1
<1>4. MarshalPairs(v) = FlattenSeq(seqs)
  BY Zenon DEF MarshalPairs
<1> HIDE DEF seqs
<1>5. seqs \in Seq(Seq(Bytes)) /\ Len(seqs) = Len(v)
  <2>1. seqs \in [1..Len(v) -> Seq(Bytes)]
    BY <1>2, <1>3
  <2> QED BY <1>1, <2>1
<1>6. PICK tails : Tails(seqs, Len(v), tails) /\ tails[0] = MarshalPairs(v)
  BY <1>4, <1>5, FlattenTails
<1>7. MarshalPairs(v) \in Seq(Bytes) /\ Len(MarshalPairs(v)) >= Len(v)
  BY <1>1, <1>2, <1>6, ListIsLong
<1> QED BY <1>1, <1>2, <1>6, <1>7

\* Extended attributes, a list that begins with its length.
LEMMA CountedRoundTrip ==
  ASSUME NEW v \in Seq(Pairs), Len(v) \in Uint32, NEW rest \in Seq(Bytes)
  PROVE  /\ MarshalUint32(Len(v)) \o MarshalPairs(v) \in Seq(Bytes)
         /\ UnmarshalCounted(UnmarshalUint32Safe(MarshalUint32(Len(v)) \o MarshalPairs(v) \o rest))
              = Got(v, rest)
<1> DEFINE n == Len(v)
<1> DEFINE b == MarshalPairs(v) \o rest
<1>1. PICK seqs, tails : /\ Tails(seqs, n, tails) /\ tails[0] = MarshalPairs(v)
                         /\ \A k \in 1..n : seqs[k] = MarshalPair(v[k]) /\ v[k] \in Pairs
                         /\ MarshalPairs(v) \in Seq(Bytes) /\ Len(MarshalPairs(v)) >= n
  BY PairsBytes
<1>2. MarshalUint32(n) \in Seq(Bytes) /\ n \in Nat
  BY Uint32Bytes
<1>3. b \in Seq(Bytes) /\ Len(b) \in Nat /\ n <= Len(b)
  <2>1. b \in Seq(Bytes) /\ Len(b) = Len(MarshalPairs(v)) + Len(rest) /\ Len(rest) \in Nat
        /\ Len(MarshalPairs(v)) \in Nat
    BY <1>1, Concat
  <2> QED BY <1>1, <1>2, <2>1
<1>4. UnmarshalUint32Safe(MarshalUint32(n) \o MarshalPairs(v) \o rest) = Got(n, b)
  <2>1. MarshalUint32(n) \o MarshalPairs(v) \o rest = MarshalUint32(n) \o b
    BY <1>1, <1>2, Associative
  <2> QED BY <1>3, <2>1, Uint32RoundTrip
<1>5. PICK run : /\ Runs("counted", "any", Got(<<>>, b), [i \in 1..n |-> i], n, run)
                 /\ UnmarshalCounted(Got(n, b)) = run[n]
  BY <1>2, <1>3, CountedRuns
<1> DEFINE is == [i \in 1..n |-> i]
<1>6. ReadsBack("counted", Pairs, v, seqs, is)
  <2>1. ASSUME NEW k \in 1..n
        PROVE  /\ seqs[k] \in Seq(Bytes)
               /\ \A vs \in Seq(Pairs), rem \in Seq(Bytes) :
                    Turn("counted", "any", Got(vs, seqs[k] \o rem), is[k]) = Got(Append(vs, v[k]), rem)
    <3>1. seqs[k] = MarshalPair(v[k]) /\ v[k] \in Pairs
      BY <1>1, <2>1
    <3>2. seqs[k] \in Seq(Bytes)
      BY <3>1, PairAppended, EmptySeq
    <3>3. ASSUME NEW vs \in Seq(Pairs), NEW rem \in Seq(Bytes)
          PROVE  Turn("counted", "any", Got(vs, seqs[k] \o rem), is[k]) = Got(Append(vs, v[k]), rem)
      <4>1. UnmarshalPair(Got(vs, MarshalPair(v[k]) \o rem)) = Got(Append(vs, v[k]), rem)
        BY <3>1, PairAppended
      <4>2. Turn("counted", "any", Got(vs, seqs[k] \o rem), is[k]) = UnmarshalPair(Got(vs, seqs[k] \o rem))
        BY DEF Turn
      <4> QED BY <3>1, <4>1, <4>2
    <3> QED BY <3>2, <3>3
  <2> HIDE DEF is
  <2> QED BY <2>1 DEF ReadsBack
<1>7. Runs("counted", "any", Got(<<>>, tails[0] \o rest), is, n, run)
  BY <1>1, <1>5
<1>8. run[n] = Got(v, rest)
  <2>1. ReadsList("counted", Pairs, v, n, seqs, tails, rest, is, n, run)
    BY <1>1, <1>2, <1>6, <1>7 DEF ReadsList
  <2> HIDE DEF n, is, b
  <2> QED BY <2>1, ListLoop
<1>9. MarshalUint32(n) \o MarshalPairs(v) \in Seq(Bytes)
  BY <1>1, <1>2, Concat
<1> QED BY <1>4, <1>5, <1>8, <1>9

\* A loop that has nothing left to read does not change.
LEMMA PairsEnd ==
  ASSUME NEW v, NEW n \in Nat, NEW m \in Nat, n <= m, NEW is, NEW base, NEW run,
         Runs("pairs", "any", base, is, m, run), run[n] = Got(v, <<>>)
  PROVE  run[m] = Got(v, <<>>)
<1> DEFINE S == {k \in Nat : n + k <= m => run[n + k] = Got(v, <<>>)}
<1>1. 0 \in S
  OBVIOUS
<1>2. ASSUME NEW k \in Nat, k \in S PROVE k + 1 \in S
  <2> SUFFICES ASSUME n + (k + 1) <= m PROVE run[n + (k + 1)] = Got(v, <<>>)
    OBVIOUS
  <2>1. n + k \in 0..(m - 1) /\ n + (k + 1) = (n + k) + 1 /\ n + k <= m
    OBVIOUS
  <2>2. run[n + k] = Got(v, <<>>)
    BY <1>2, <2>1
  <2>3. run[(n + k) + 1] = Turn("pairs", "any", run[n + k], is[(n + k) + 1])
    BY <2>1 DEF Runs
  <2>4. \A i : Turn("pairs", "any", Got(v, <<>>), i) = Got(v, <<>>)
    BY GotFields DEF Turn
  <2> QED BY <2>1, <2>2, <2>3, <2>4
<1>3. m - n \in Nat /\ n + (m - n) = m
  OBVIOUS
<1>4. m - n \in S
  <2> HIDE DEF S
  <2> QED BY <1>1, <1>2, <1>3, SetInduction
<1> QED BY <1>3, <1>4

\* Extensions, a list up to the end of the packet.
LEMMA PairsRoundTrip ==
  ASSUME NEW v \in Seq(Pairs)
  PROVE  MarshalPairs(v) \in Seq(Bytes) /\ UnmarshalPairs(MarshalPairs(v)) = Got(v, <<>>)
<1> DEFINE n == Len(v)
<1> DEFINE b == MarshalPairs(v)
<1> DEFINE m == Len(b)
<1> DEFINE is == [i \in 1..m |-> i]
<1>1. PICK seqs, tails : /\ Tails(seqs, n, tails) /\ tails[0] = b
                         /\ \A k \in 1..n : seqs[k] = MarshalPair(v[k]) /\ v[k] \in Pairs
                         /\ b \in Seq(Bytes) /\ m >= n
  BY PairsBytes
<1>2. n \in Nat /\ m \in Nat /\ n <= m
  BY <1>1
<1>3. PICK run : Runs("pairs", "any", Got(<<>>, b), is, m, run) /\ UnmarshalPairs(b) = run[m]
  BY <1>2, PairsRuns
<1>4. ReadsBack("pairs", Pairs, v, seqs, is)
  <2>1. ASSUME NEW k \in 1..n
        PROVE  /\ seqs[k] \in Seq(Bytes)
               /\ \A vs \in Seq(Pairs), rem \in Seq(Bytes) :
                    Turn("pairs", "any", Got(vs, seqs[k] \o rem), is[k]) = Got(Append(vs, v[k]), rem)
    <3>1. seqs[k] = MarshalPair(v[k]) /\ v[k] \in Pairs
      BY <1>1, <2>1
    <3>2. seqs[k] \in Seq(Bytes) /\ Len(seqs[k]) > 0
      BY <3>1, PairAppended, EmptySeq
    <3>3. ASSUME NEW vs \in Seq(Pairs), NEW rem \in Seq(Bytes)
          PROVE  Turn("pairs", "any", Got(vs, seqs[k] \o rem), is[k]) = Got(Append(vs, v[k]), rem)
      <4>1. UnmarshalPair(Got(vs, MarshalPair(v[k]) \o rem)) = Got(Append(vs, v[k]), rem)
        BY <3>1, PairAppended
      <4>2. seqs[k] \o rem # <<>>
        <5>1. Len(seqs[k] \o rem) = Len(seqs[k]) + Len(rem) /\ Len(rem) \in Nat /\ Len(seqs[k]) \in Nat
          BY <3>2, Concat
        <5>2. Len(seqs[k] \o rem) # 0
          BY <3>2, <5>1
        <5> QED BY <5>2
      <4>3. Turn("pairs", "any", Got(vs, seqs[k] \o rem), is[k]) = UnmarshalPair(Got(vs, seqs[k] \o rem))
        BY <4>2, GotFields DEF Turn
      <4> QED BY <3>1, <4>1, <4>3
    <3> QED BY <3>2, <3>3
  <2> HIDE DEF is
  <2> QED BY <2>1 DEF ReadsBack
<1>5. run[n] = Got(v, <<>>)
  <2>1. tails[0] \o <<>> = b /\ <<>> \in Seq(Bytes)
    BY <1>1, ConcatEmptySeq
  <2>2. ReadsList("pairs", Pairs, v, n, seqs, tails, <<>>, is, m, run)
    BY <1>1, <1>2, <1>3, <1>4, <2>1 DEF ReadsList
  <2> HIDE DEF n, is, b, m
  <2> QED BY <2>2, ListLoop
<1>6. run[m] = Got(v, <<>>)
  <2> HIDE DEF n, is, b, m
  <2> QED BY <1>2, <1>3, <1>5, PairsEnd
<1> QED BY <1>1, <1>3, <1>6

-----------------------------------------------------------------------------
(* Attributes and listings.                                                *)

LEMMA BasicRoundTrip ==
  ASSUME NEW type, NEW v \in BasicValues(type)
  PROVE  /\ MarshalBasic(type, v) \in Seq(Bytes)
         /\ \A rest \in Seq(Bytes) : UnmarshalBasic(type, MarshalBasic(type, v) \o rest) = Got(v, rest)
<1>1. CASE type = "uint32"
  <2>1. v \in Uint32 /\ MarshalBasic(type, v) = MarshalUint32(v)
    BY <1>1 DEF BasicValues, MarshalBasic
  <2>2. MarshalUint32(v) \in Seq(Bytes)
    BY <2>1, Uint32Bytes
  <2>3. \A rest \in Seq(Bytes) : UnmarshalUint32Safe(MarshalUint32(v) \o rest) = Got(v, rest)
    BY <2>1, Uint32RoundTrip
  <2> QED BY <1>1, <2>1, <2>2, <2>3 DEF UnmarshalBasic
<1>2. CASE type = "uint64"
  <2>1. v \in Uint32 \X Uint32 /\ MarshalBasic(type, v) = MarshalUint64(v)
    BY <1>2 DEF BasicValues, MarshalBasic
  <2>2. MarshalUint64(v) \in Seq(Bytes)
    <3>1. v[1] \in Uint32 /\ v[2] \in Uint32
      BY <2>1
    <3> QED BY <3>1, Uint32Bytes, Concat DEF MarshalUint64
  <2>3. \A rest \in Seq(Bytes) : UnmarshalUint64Safe(MarshalUint64(v) \o rest) = Got(v, rest)
    BY <2>1, Uint64RoundTrip
  <2> QED BY <1>2, <2>1, <2>2, <2>3 DEF UnmarshalBasic
<1>3. CASE type = "string"
  <2>1. v \in Texts /\ MarshalBasic(type, v) = MarshalString(v)
    BY <1>3 DEF BasicValues, MarshalBasic
  <2>2. MarshalString(v) \in Seq(Bytes)
    BY <2>1, StringBytes
  <2>3. \A rest \in Seq(Bytes) : UnmarshalStringSafe(MarshalString(v) \o rest) = Got(v, rest)
    BY <2>1, StringRoundTrip DEF Texts
  <2> QED BY <1>3, <2>1, <2>2, <2>3 DEF UnmarshalBasic
<1>4. CASE type = "counted"
  <2>1. v \in Counted(Pairs) /\ MarshalBasic(type, v) = MarshalUint32(Len(v)) \o MarshalPairs(v)
    BY <1>4 DEF BasicValues, MarshalBasic
  <2>2. v \in Seq(Pairs) /\ Len(v) \in Uint32
    BY <2>1 DEF Counted
  <2>3. MarshalUint32(Len(v)) \o MarshalPairs(v) \in Seq(Bytes)
    BY <2>2, EmptySeq, CountedRoundTrip
  <2>4. ASSUME NEW rest \in Seq(Bytes)
        PROVE  UnmarshalBasic(type, MarshalBasic(type, v) \o rest) = Got(v, rest)
    <3>1. UnmarshalCounted(UnmarshalUint32Safe(MarshalUint32(Len(v)) \o MarshalPairs(v) \o rest))
            = Got(v, rest)
      BY <2>2, CountedRoundTrip
    <3> DEFINE b == MarshalUint32(Len(v)) \o MarshalPairs(v) \o rest
    <3>2. UnmarshalBasic(type, b) = UnmarshalCounted(UnmarshalUint32Safe(b))
      <4> HIDE DEF b
      <4> QED BY <1>4 DEF UnmarshalBasic
    <3> QED BY <2>1, <3>1, <3>2
  <2> QED BY <2>1, <2>3, <2>4
<1> QED BY <1>1, <1>2, <1>3, <1>4 DEF BasicValues

LEMMA FieldNames ==
  ASSUME NEW flags PROVE FileStatFields(flags) \in Seq(AttrNames)
<1>1. \A c, s : s \in Seq(AttrNames) => When(c, s) \in Seq(AttrNames)
  BY EmptySeq DEF When
<1>2. /\ <<"size">> \in Seq(AttrNames) /\ <<"uid", "gid">> \in Seq(AttrNames)
      /\ <<"mode">> \in Seq(AttrNames) /\ <<"atime", "mtime">> \in Seq(AttrNames)
      /\ <<"extended">> \in Seq(AttrNames)
  BY DEF AttrNames
<1>3. \A a, b \in Seq(AttrNames) : a \o b \in Seq(AttrNames)
  BY ConcatProperties
<1> QED BY <1>1, <1>2, <1>3 DEF FileStatFields

LEMMA FieldTyped ==
  ASSUME NEW fs \in FileStats, NEW f \in AttrNames
  PROVE  fs[f] \in BasicValues(TypeOf[f])
<1>1. /\ TypeOf["size"] = "uint64" /\ TypeOf["uid"] = "uint32" /\ TypeOf["gid"] = "uint32"
      /\ TypeOf["mode"] = "uint32" /\ TypeOf["atime"] = "uint32" /\ TypeOf["mtime"] = "uint32"
      /\ TypeOf["extended"] = "counted"
  BY DEF TypeOf
<1>2. fs \in [flags : Uint32, size : Uint32 \X Uint32, uid : Uint32, gid : Uint32, mode : Uint32,
              atime : Uint32, mtime : Uint32, extended : Counted(Pairs)]
  BY DEF FileStats
<1>3. /\ fs["size"] \in Uint32 \X Uint32 /\ fs["uid"] \in Uint32 /\ fs["gid"] \in Uint32
      /\ fs["mode"] \in Uint32 /\ fs["atime"] \in Uint32 /\ fs["mtime"] \in Uint32
      /\ fs["extended"] \in Counted(Pairs)
  BY <1>2
<1>4. /\ BasicValues("uint64") = Uint32 \X Uint32 /\ BasicValues("uint32") = Uint32
      /\ BasicValues("counted") = Counted(Pairs)
  BY DEF BasicValues
<1> QED BY <1>1, <1>3, <1>4 DEF AttrNames

\* The first k fields of fs, the others zero.
FirstFields(fs, fields, k) ==
  [f \in {"flags"} \union AttrNames |->
     IF f = "flags" \/ \E i \in 1..k : fields[i] = f THEN fs[f] ELSE NoAttrs[f]]

LEMMA OneMoreField ==
  ASSUME NEW fs \in FileStats, NEW fields, NEW k \in Nat, fields[k + 1] \in AttrNames
  PROVE  [FirstFields(fs, fields, k) EXCEPT ![fields[k + 1]] = fs[fields[k + 1]]]
           = FirstFields(fs, fields, k + 1)
<1> DEFINE A == FirstFields(fs, fields, k)
<1> DEFINE B == FirstFields(fs, fields, k + 1)
<1>1. \A f : (\E i \in 1..(k + 1) : fields[i] = f) <=> (f = fields[k + 1] \/ \E i \in 1..k : fields[i] = f)
  OBVIOUS
<1>2. ASSUME NEW f \in {"flags"} \union AttrNames
      PROVE  [A EXCEPT ![fields[k + 1]] = fs[fields[k + 1]]][f] = B[f]
  BY <1>1 DEF FirstFields
<1>3. B = [f \in {"flags"} \union AttrNames |-> B[f]]
  BY DEF FirstFields
<1>4. [A EXCEPT ![fields[k + 1]] = fs[fields[k + 1]]]
        = [f \in {"flags"} \union AttrNames |-> [A EXCEPT ![fields[k + 1]] = fs[fields[k + 1]]][f]]
  BY DEF FirstFields
<1> QED BY <1>2, <1>3, <1>4

LEMMA NoFieldYet ==
  ASSUME NEW fs \in FileStats, NEW fields
  PROVE  FirstFields(fs, fields, 0) = [NoAttrs EXCEPT !.flags = fs.flags]
<1> DEFINE A == FirstFields(fs, fields, 0)
<1> DEFINE B == [NoAttrs EXCEPT !.flags = fs.flags]
<1>1. DOMAIN NoAttrs = {"flags"} \union AttrNames
  BY DEF NoAttrs, AttrNames
<1>2. \A f \in {"flags"} \union AttrNames : B[f] = IF f = "flags" THEN fs["flags"] ELSE NoAttrs[f]
  BY <1>1
<1>3. \A f \in {"flags"} \union AttrNames : A[f] = IF f = "flags" THEN fs["flags"] ELSE NoAttrs[f]
  <2>1. \A f : ~ \E i \in 1..0 : fields[i] = f
    OBVIOUS
  <2> QED BY <2>1 DEF FirstFields
<1>4. A = [f \in {"flags"} \union AttrNames |-> A[f]] /\ B = [f \in {"flags"} \union AttrNames |-> B[f]]
  BY <1>1 DEF FirstFields
<1> HIDE DEF A, B
<1>5. A = B
  BY <1>2, <1>3, <1>4
<1> QED BY <1>5 DEF A, B

LEMMA AllFields ==
  ASSUME NEW fs \in FileStats
  PROVE  FirstFields(fs, FileStatFields(fs.flags), Len(FileStatFields(fs.flags))) = fs
<1> DEFINE fields == FileStatFields(fs.flags)
<1> DEFINE A == FirstFields(fs, fields, Len(fields))
<1>1. fields \in Seq(AttrNames) /\ DOMAIN fields = 1..Len(fields)
  BY FieldNames
<1>2. fs = [f \in {"flags"} \union AttrNames |-> fs[f]]
  <2>1. fs \in [flags : Uint32, size : Uint32 \X Uint32, uid : Uint32, gid : Uint32, mode : Uint32,
                atime : Uint32, mtime : Uint32, extended : Counted(Pairs)]
    BY DEF FileStats
  <2>2. DOMAIN fs = {"flags"} \union AttrNames
    BY <2>1 DEF AttrNames
  <2> QED BY <2>1, <2>2
<1>3. \A f \in AttrNames : (\A i \in 1..Len(fields) : fields[i] # f) => fs[f] = NoAttrs[f]
  BY <1>1 DEF FileStats
<1> HIDE DEF fields
<1>4. ASSUME NEW f \in {"flags"} \union AttrNames PROVE A[f] = fs[f]
  <2>1. A[f] = IF f = "flags" \/ \E i \in 1..Len(fields) : fields[i] = f THEN fs[f] ELSE NoAttrs[f]
    BY DEF FirstFields
  <2> HIDE DEF A
  <2> QED BY <1>3, <2>1
<1>5. A = [f \in {"flags"} \union AttrNames |-> A[f]]
  BY DEF FirstFields
<1> HIDE DEF A
<1>6. A = fs
  BY <1>2, <1>4, <1>5
<1> QED BY <1>6 DEF A, fields

\* One field of an ATTRS structure read back.
LEMMA FieldSet ==
  ASSUME NEW fs \in FileStats, NEW f \in AttrNames, NEW v, NEW rest \in Seq(Bytes)
  PROVE  LET b == MarshalBasic(TypeOf[f], fs[f]) IN
           /\ b \in Seq(Bytes)
           /\ Turn("attrs", "any", Got(v, b \o rest), f) = Got([v EXCEPT ![f] = fs[f]], rest)
<1> DEFINE b == MarshalBasic(TypeOf[f], fs[f])
<1>1. fs[f] \in BasicValues(TypeOf[f])
  BY FieldTyped
<1>2. b \in Seq(Bytes) /\ UnmarshalBasic(TypeOf[f], b \o rest) = Got(fs[f], rest)
  BY <1>1, BasicRoundTrip
<1> HIDE DEF b
<1>3. Turn("attrs", "any", Got(v, b \o rest), f)
        = SetField(Got(v, b \o rest), f, UnmarshalBasic(TypeOf[f], Got(v, b \o rest).rest))
  BY DEF Turn
<1>4. Got(v, b \o rest).rest = b \o rest
  BY GotFields
<1>5. Turn("attrs", "any", Got(v, b \o rest), f) = SetField(Got(v, b \o rest), f, Got(fs[f], rest))
  BY <1>2, <1>3, <1>4
<1>6. SetField(Got(v, b \o rest), f, Got(fs[f], rest)) = Got([v EXCEPT ![f] = fs[f]], rest)
  BY GotFields DEF SetField
<1> QED BY <1>2, <1>5, <1>6 DEF b

LEMMA AttrsRuns ==
  ASSUME NEW flags, NEW b
  PROVE  \E run : /\ Runs("attrs", "any", Got([NoAttrs EXCEPT !.flags = flags], b),
                          FileStatFields(flags), Len(FileStatFields(flags)), run)
                  /\ UnmarshalFileStat(Got(flags, b)) = run[Len(FileStatFields(flags))]
<1> DEFINE g == Got(flags, b)
<1> DEFINE fields == FileStatFields(flags)
<1>1. g.v = flags /\ g.rest = b /\ g.failed = FALSE
  BY GotFields
<1> HIDE DEF g
<1>2. UnmarshalFileStat(g)
        = FoldLeft(LAMBDA r, f : SetField(r, f, UnmarshalBasic(TypeOf[f], r.rest)),
                   Got([NoAttrs EXCEPT !.flags = g.v], g.rest), FileStatFields(g.v))
  BY <1>1, Zenon DEF UnmarshalFileStat
<1>3. UnmarshalFileStat(g)
        = FoldLeft(LAMBDA r, f : SetField(r, f, UnmarshalBasic(TypeOf[f], r.rest)),
                   Got([NoAttrs EXCEPT !.flags = flags], b), fields)
  BY <1>1, <1>2, Zenon
<1>4. DOMAIN fields = 1..Len(fields) /\ Len(fields) \in Nat
  BY FieldNames
<1> DEFINE base == Got([NoAttrs EXCEPT !.flags = flags], b)
<1> HIDE DEF fields, base
<1>5. PICK run : /\ Runs("attrs", "any", base, fields, Len(fields), run)
                 /\ FoldLeft(LAMBDA r, f : SetField(r, f, UnmarshalBasic(TypeOf[f], r.rest)),
                             base, fields) = run[Len(fields)]
  BY <1>4, AttrsLoop, Zenon
<1>6. UnmarshalFileStat(g) = run[Len(fields)]
  BY <1>3, <1>5, Zenon DEF base
<1> QED BY <1>5, <1>6, Zenon DEF base, fields, g

\* An ATTRS structure is read back as it was written.
THEOREM AttrsRoundTrip ==
  ASSUME NEW fs \in FileStats, NEW rest \in Seq(Bytes)
  PROVE  MarshalFileStat(fs) \in Seq(Bytes) /\ UnmarshalAttrs(MarshalFileStat(fs) \o rest) = Got(fs, rest)
<1> DEFINE flags == fs.flags
<1> DEFINE fields == FileStatFields(fs.flags)
<1> DEFINE n == Len(fields)
<1> DEFINE seqs == [i \in DOMAIN fields |-> MarshalBasic(TypeOf[fields[i]], fs[fields[i]])]
<1>1. fields \in Seq(AttrNames) /\ n \in Nat /\ DOMAIN fields = 1..n
  BY FieldNames
<1>2. flags \in Uint32
  BY DEF FileStats
<1>3. MarshalFileStat(fs) = MarshalUint32(flags) \o FlattenSeq(seqs)
  BY DEF MarshalFileStat
<1>4. \A k \in 1..n : /\ fields[k] \in AttrNames /\ seqs[k] \in Seq(Bytes)
                      /\ seqs[k] = MarshalBasic(TypeOf[fields[k]], fs[fields[k]])
  <2> SUFFICES ASSUME NEW k \in 1..n
               PROVE  /\ fields[k] \in AttrNames /\ seqs[k] \in Seq(Bytes)
                      /\ seqs[k] = MarshalBasic(TypeOf[fields[k]], fs[fields[k]])
    OBVIOUS
  <2>1. fields[k] \in AttrNames /\ seqs[k] = MarshalBasic(TypeOf[fields[k]], fs[fields[k]])
    BY <1>1
  <2> HIDE DEF seqs, fields
  <2>2. MarshalBasic(TypeOf[fields[k]], fs[fields[k]]) \in Seq(Bytes)
    BY <2>1, FieldTyped, BasicRoundTrip
  <2> QED BY <2>1, <2>2
<1>5. seqs = [i \in 1..n |-> seqs[i]]
  BY <1>1
<1> HIDE DEF seqs, fields, n, flags
<1>6. seqs \in Seq(Seq(Bytes)) /\ Len(seqs) = n
  <2>1. seqs \in [1..n -> Seq(Bytes)]
    BY <1>4, <1>5
  <2> QED BY <1>1, <2>1
<1>7. PICK tails : Tails(seqs, n, tails) /\ tails[0] = FlattenSeq(seqs)
  BY <1>6, FlattenTails
<1>8. tails \in [0..n -> Seq(Bytes)] /\ tails[n] = <<>> /\ \A k \in 1..n : tails[k - 1] = seqs[k] \o tails[k]
  BY <1>7 DEF Tails
<1>9. MarshalUint32(flags) \in Seq(Bytes) /\ tails[0] \in Seq(Bytes)
  BY <1>1, <1>2, <1>8, Uint32Bytes
<1> DEFINE b == tails[0] \o rest
<1>10. UnmarshalUint32Safe(MarshalFileStat(fs) \o rest) = Got(flags, b)
  <2>1. MarshalFileStat(fs) \o rest = MarshalUint32(flags) \o b /\ b \in Seq(Bytes)
    BY <1>3, <1>7, <1>9, Associative, Concat
  <2> HIDE DEF b
  <2> QED BY <1>2, <2>1, Uint32RoundTrip
<1>11. PICK run : /\ Runs("attrs", "any", Got([NoAttrs EXCEPT !.flags = flags], b), fields, n, run)
                  /\ UnmarshalFileStat(Got(flags, b)) = run[n]
  BY AttrsRuns DEF fields, n, flags
<1> DEFINE S == {k \in Nat : k <= n => run[k] = Got(FirstFields(fs, fields, k), tails[k] \o rest)}
<1>12. 0 \in S
  <2>1. run[0] = Got([NoAttrs EXCEPT !.flags = flags], b)
    BY <1>11 DEF Runs
  <2> QED BY <2>1, NoFieldYet DEF flags
<1>13. ASSUME NEW k \in Nat, k \in S PROVE k + 1 \in S
  <2> SUFFICES ASSUME k + 1 <= n
               PROVE  run[k + 1] = Got(FirstFields(fs, fields, k + 1), tails[k + 1] \o rest)
    OBVIOUS
  <2>1. k + 1 \in 1..n /\ k \in 0..(n - 1) /\ (k + 1) - 1 = k /\ k <= n /\ k + 1 \in 0..n
    BY <1>1
  <2>2. run[k] = Got(FirstFields(fs, fields, k), tails[k] \o rest)
    BY <1>13, <2>1
  <2>3. run[k + 1] = Turn("attrs", "any", run[k], fields[k + 1])
    BY <1>11, <2>1 DEF Runs
  <2>4. /\ tails[k] = seqs[k + 1] \o tails[k + 1] /\ tails[k + 1] \in Seq(Bytes)
        /\ seqs[k + 1] \in Seq(Bytes) /\ fields[k + 1] \in AttrNames
        /\ seqs[k + 1] = MarshalBasic(TypeOf[fields[k + 1]], fs[fields[k + 1]])
    BY <1>4, <1>8, <2>1
  <2>5. tails[k] \o rest = seqs[k + 1] \o (tails[k + 1] \o rest) /\ tails[k + 1] \o rest \in Seq(Bytes)
    <3>1. (seqs[k + 1] \o tails[k + 1]) \o rest = seqs[k + 1] \o (tails[k + 1] \o rest)
      BY <2>4, Associative
    <3> QED BY <2>4, <3>1, Concat
  <2>6. Turn("attrs", "any", run[k], fields[k + 1])
          = Got([FirstFields(fs, fields, k) EXCEPT ![fields[k + 1]] = fs[fields[k + 1]]], tails[k + 1] \o rest)
    <3> DEFINE left == tails[k + 1] \o rest
    <3> DEFINE v == FirstFields(fs, fields, k)
    <3>1. left \in Seq(Bytes) /\ run[k] = Got(v, seqs[k + 1] \o left)
      BY <2>2, <2>5
    <3> HIDE DEF left, v
    <3>2. Turn("attrs", "any", Got(v, seqs[k + 1] \o left), fields[k + 1])
            = Got([v EXCEPT ![fields[k + 1]] = fs[fields[k + 1]]], left)
      BY <2>4, <3>1, FieldSet
    <3> QED BY <3>1, <3>2 DEF left, v
  <2>7. [FirstFields(fs, fields, k) EXCEPT ![fields[k + 1]] = fs[fields[k + 1]]] = FirstFields(fs, fields, k + 1)
    BY <2>4, OneMoreField
  <2> QED BY <2>3, <2>6, <2>7
<1>14. n \in S
  <2> HIDE DEF S
  <2> QED BY <1>1, <1>12, <1>13, SetInduction
<1>15. run[n] = Got(fs, rest)
  <2>1. run[n] = Got(FirstFields(fs, fields, n), tails[n] \o rest)
    BY <1>1, <1>14
  <2>2. FirstFields(fs, fields, n) = fs
    BY AllFields DEF n, fields
  <2>3. tails[n] \o rest = rest
    BY <1>8, ConcatEmptySeq
  <2> QED BY <2>1, <2>2, <2>3
<1>16. UnmarshalAttrs(MarshalFileStat(fs) \o rest) = Got(fs, rest)
  BY <1>10, <1>11, <1>15 DEF UnmarshalAttrs
<1>17. MarshalFileStat(fs) \in Seq(Bytes)
  BY <1>3, <1>7, <1>9, Concat
<1> QED BY <1>16, <1>17

LEMMA AttrsAppended ==
  ASSUME NEW vs, NEW fs \in FileStats, NEW rest \in Seq(Bytes)
  PROVE  AndAttrs(Got(vs, MarshalFileStat(fs) \o rest)) = Got(Append(vs, fs), rest)
<1>1. UnmarshalAttrs(MarshalFileStat(fs) \o rest) = Got(fs, rest)
  BY AttrsRoundTrip
<1> DEFINE r == Got(vs, MarshalFileStat(fs) \o rest)
<1>2. r.rest = MarshalFileStat(fs) \o rest
  BY GotFields
<1>3. AndAttrs(r) = AndThen(r, Got(fs, rest))
  BY <1>1, <1>2 DEF AndAttrs
<1> QED BY <1>3, ThenGot

LEMMA ThreeAppended ==
  ASSUME NEW All, NEW x \in All, NEW y \in All, NEW z \in All
  PROVE  LET three == Append(Append(Append(<<>>, x), y), z) IN
           three[1] = x /\ three[2] = y /\ three[3] = z
<1>1. \A s \in Seq(All), w \in All :
        /\ Append(s, w) \in Seq(All) /\ Len(Append(s, w)) = Len(s) + 1 /\ Len(s) \in Nat
        /\ Append(s, w)[Len(s) + 1] = w /\ \A i \in 1..Len(s) : Append(s, w)[i] = s[i]
  BY AppendProperties
<1> DEFINE one == Append(<<>>, x)
<1>2. one \in Seq(All) /\ Len(one) = 1 /\ one[1] = x
  BY <1>1
<1> HIDE DEF one
<1> DEFINE two == Append(one, y)
<1>3. two \in Seq(All) /\ Len(two) = 2 /\ two[1] = x /\ two[2] = y
  <2>1. /\ two \in Seq(All) /\ Len(two) = Len(one) + 1 /\ two[Len(one) + 1] = y
        /\ \A i \in 1..Len(one) : two[i] = one[i]
    BY <1>1, <1>2, Zenon
  <2> HIDE DEF two
  <2> QED BY <1>2, <2>1
<1> HIDE DEF two
<1> DEFINE three == Append(two, z)
<1>4. three[1] = x /\ three[2] = y /\ three[3] = z
  <2>1. three[Len(two) + 1] = z /\ \A i \in 1..Len(two) : three[i] = two[i]
    BY <1>1, <1>3, Zenon
  <2> HIDE DEF three
  <2> QED BY <1>3, <2>1
<1> QED BY <1>4 DEF one, two, three

\* An entry of a listing behind those decoded before it.
LEMMA EntryAppended ==
  ASSUME NEW vs, NEW e \in Entries, NEW rest \in Seq(Bytes)
  PROVE  /\ MarshalNameAttr(e) \in Seq(Bytes) /\ Len(MarshalNameAttr(e)) > 0
         /\ UnmarshalEntry(Got(vs, MarshalNameAttr(e) \o rest)) = Got(Append(vs, e), rest)
<1> DEFINE a == MarshalString(e.filename)
<1> DEFINE b == MarshalString(e.longname)
<1> DEFINE c == MarshalFileStat(e.attrs)
<1>1. /\ e.filename \in Texts /\ e.longname \in Texts /\ e.attrs \in FileStats
      /\ e = [filename |-> e.filename, longname |-> e.longname, attrs |-> e.attrs]
  BY DEF Entries
<1>2. /\ a \in Seq(Bytes) /\ Len(a) > 0 /\ b \in Seq(Bytes) /\ c \in Seq(Bytes)
      /\ Len(a) \in Nat /\ Len(b) \in Nat /\ Len(c) \in Nat
  <2>1. a \in Seq(Bytes) /\ Len(a) > 0 /\ b \in Seq(Bytes)
    BY <1>1, StringBytes
  <2>2. c \in Seq(Bytes)
    BY <1>1, EmptySeq, AttrsRoundTrip
  <2> QED BY <2>1, <2>2, LenProperties
<1>3. MarshalNameAttr(e) = (a \o b) \o c
  BY DEF MarshalNameAttr
<1> DEFINE bc == b \o (c \o rest)
<1>4. ((a \o b) \o c) \o rest = a \o bc /\ bc \in Seq(Bytes) /\ c \o rest \in Seq(Bytes)
  <2> HIDE DEF a, b, c
  <2>1. a \o b \in Seq(Bytes) /\ c \o rest \in Seq(Bytes)
    BY <1>2, Concat
  <2>2. ((a \o b) \o c) \o rest = (a \o b) \o (c \o rest)
    <3> DEFINE ab == a \o b
    <3>1. ab \in Seq(Bytes)
      BY <2>1
    <3> HIDE DEF ab
    <3>2. (ab \o c) \o rest = ab \o (c \o rest)
      BY <1>2, <3>1, Associative
    <3> QED BY <3>2 DEF ab
  <2>3. (a \o b) \o (c \o rest) = a \o (b \o (c \o rest))
    <3> DEFINE last == c \o rest
    <3>1. last \in Seq(Bytes)
      BY <2>1
    <3> HIDE DEF last
    <3>2. (a \o b) \o last = a \o (b \o last)
      BY <1>2, <3>1, Associative
    <3> QED BY <3>2 DEF last
  <2> QED BY <1>2, <2>1, <2>2, <2>3, Concat
<1>5. AndString(Got(<<>>, a \o bc)) = Got(Append(<<>>, e.filename), bc)
  BY <1>1, <1>4, StringAppended
<1>6. AndString(Got(Append(<<>>, e.filename), bc))
        = Got(Append(Append(<<>>, e.filename), e.longname), c \o rest)
  BY <1>1, <1>4, StringAppended
<1> DEFINE two == Append(Append(<<>>, e.filename), e.longname)
<1>7. AndAttrs(Got(two, c \o rest)) = Got(Append(two, e.attrs), rest)
  BY <1>1, AttrsAppended
<1> DEFINE three == Append(two, e.attrs)
<1>8. three[1] = e.filename /\ three[2] = e.longname /\ three[3] = e.attrs
  <2> HIDE DEF a, b, c, bc
  <2> DEFINE All == Texts \union FileStats
  <2>1. e.filename \in All /\ e.longname \in All /\ e.attrs \in All
    BY <1>1
  <2> HIDE DEF All
  <2> QED BY <2>1, ThreeAppended
<1>9. AndAttrs(AndString(AndString(Got(<<>>, MarshalNameAttr(e) \o rest)))) = Got(three, rest)
  <2> HIDE DEF a, b, c
  <2>1. MarshalNameAttr(e) \o rest = a \o bc
    BY <1>3, <1>4
  <2> HIDE DEF bc, two
  <2>2. AndString(AndString(Got(<<>>, a \o bc))) = Got(two, c \o rest)
    BY <1>5, <1>6 DEF two
  <2> QED BY <1>7, <2>1, <2>2
<1> HIDE DEF a, b, c, bc, two, three
<1> DEFINE r == Got(vs, MarshalNameAttr(e) \o rest)
<1>10. UnmarshalEntry(r) = AndEntry(r, Got(three, rest))
  <2>1. r.rest = MarshalNameAttr(e) \o rest
    BY GotFields
  <2> HIDE DEF r
  <2> QED BY <1>9, <2>1 DEF UnmarshalEntry
<1>11. AndEntry(r, Got(three, rest)) = Got(Append(vs, e), rest)
  <2>1. r.failed = FALSE /\ r.v = vs
    BY GotFields
  <2> HIDE DEF r
  <2>2. AndEntry(r, Got(three, rest))
          = Got(Append(r.v, [filename |-> three[1], longname |-> three[2], attrs |-> three[3]]), rest)
    BY <2>1, GotFields DEF AndEntry
  <2> QED BY <1>1, <1>8, <2>1, <2>2
<1>12. MarshalNameAttr(e) \in Seq(Bytes) /\ Len(MarshalNameAttr(e)) > 0
  <2>1. a \o b \in Seq(Bytes) /\ Len(a \o b) > 0
    BY <1>2, Concat
  <2> QED BY <1>2, <1>3, <2>1, Concat
<1> QED BY <1>10, <1>11, <1>12 DEF r

MarshalNames(v) == FlattenSeq([i \in DOMAIN v |-> MarshalNameAttr(v[i])])

\* The bytes of the entries of a listing.
LEMMA NamesBytes ==
  ASSUME NEW v \in Seq(Entries)
  PROVE  \E seqs, tails : /\ Tails(seqs, Len(v), tails) /\ tails[0] = MarshalNames(v)
                          /\ \A k \in 1..Len(v) : seqs[k] = MarshalNameAttr(v[k]) /\ v[k] \in Entries
                          /\ MarshalNames(v) \in Seq(Bytes) /\ Len(MarshalNames(v)) >= Len(v)
<1> DEFINE seqs == [i \in DOMAIN v |-> MarshalNameAttr(v[i])]
<1>1. DOMAIN v = 1..Len(v) /\ Len(v) \in Nat /\ \A k \in 1..Len(v) : v[k] \in Entries
  OBVIOUS
<1>2. \A k \in 1..Len(v) : /\ seqs[k] = MarshalNameAttr(v[k]) /\ seqs[k] \in Seq(Bytes)
                           /\ Len(seqs[k]) > 0
  BY <1>1, EntryAppended, EmptySeq
<1>3. seqs = [i \in 1..Len(v) |-> seqs[i]]
  BY <1>1
<1>4. MarshalNames(v) = FlattenSeq(seqs)
  BY Zenon DEF MarshalNames
<1> HIDE DEF seqs
<1>5. seqs \in Seq(Seq(Bytes)) /\ Len(seqs) = Len(v)
  <2>1. seqs \in [1..Len(v) -> Seq(Bytes)]
    BY <1>2, <1>3
  <2> QED BY <1>1, <2>1
<1>6. PICK tails : Tails(seqs, Len(v), tails) /\ tails[0] = MarshalNames(v)
  BY <1>4, <1>5, FlattenTails
<1>7. MarshalNames(v) \in Seq(Bytes) /\ Len(MarshalNames(v)) >= Len(v)
  BY <1>1, <1>2, <1>6, ListIsLong
<1> QED BY <1>1, <1>2, <1>6, <1>7

\* The entries of a listing, a list that begins with its length.
LEMMA NamesRoundTrip ==
  ASSUME NEW v \in Seq(Entries), Len(v) \in Uint32, NEW rest \in Seq(Bytes)
  PROVE  /\ MarshalUint32(Len(v)) \o MarshalNames(v) \in Seq(Bytes)
         /\ UnmarshalEntries(UnmarshalUint32Safe(MarshalUint32(Len(v)) \o MarshalNames(v) \o rest))
              = Got(v, rest)
<1> DEFINE n == Len(v)
<1> DEFINE b == MarshalNames(v) \o rest
<1>1. PICK seqs, tails : /\ Tails(seqs, n, tails) /\ tails[0] = MarshalNames(v)
                         /\ \A k \in 1..n : seqs[k] = MarshalNameAttr(v[k]) /\ v[k] \in Entries
                         /\ MarshalNames(v) \in Seq(Bytes) /\ Len(MarshalNames(v)) >= n
  BY NamesBytes
<1>2. MarshalUint32(n) \in Seq(Bytes) /\ n \in Nat
  BY Uint32Bytes
<1>3. b \in Seq(Bytes) /\ Len(b) \in Nat /\ n <= Len(b)
  <2>1. b \in Seq(Bytes) /\ Len(b) = Len(MarshalNames(v)) + Len(rest) /\ Len(rest) \in Nat
        /\ Len(MarshalNames(v)) \in Nat
    BY <1>1, Concat
  <2> QED BY <1>1, <1>2, <2>1
<1>4. UnmarshalUint32Safe(MarshalUint32(n) \o MarshalNames(v) \o rest) = Got(n, b)
  <2>1. MarshalUint32(n) \o MarshalNames(v) \o rest = MarshalUint32(n) \o b
    BY <1>1, <1>2, Associative
  <2> QED BY <1>3, <2>1, Uint32RoundTrip
<1>5. PICK run : /\ Runs("names", "any", Got(<<>>, b), [i \in 1..n |-> i], n, run)
                 /\ UnmarshalEntries(Got(n, b)) = run[n]
  BY <1>2, <1>3, NamesRuns
<1> DEFINE is == [i \in 1..n |-> i]
<1>6. ReadsBack("names", Entries, v, seqs, is)
  <2>1. ASSUME NEW k \in 1..n
        PROVE  /\ seqs[k] \in Seq(Bytes)
               /\ \A vs \in Seq(Entries), rem \in Seq(Bytes) :
                    Turn("names", "any", Got(vs, seqs[k] \o rem), is[k]) = Got(Append(vs, v[k]), rem)
    <3>1. seqs[k] = MarshalNameAttr(v[k]) /\ v[k] \in Entries
      BY <1>1, <2>1
    <3>2. seqs[k] \in Seq(Bytes)
      BY <3>1, EntryAppended, EmptySeq
    <3>3. ASSUME NEW vs \in Seq(Entries), NEW rem \in Seq(Bytes)
          PROVE  Turn("names", "any", Got(vs, seqs[k] \o rem), is[k]) = Got(Append(vs, v[k]), rem)
      <4>1. UnmarshalEntry(Got(vs, MarshalNameAttr(v[k]) \o rem)) = Got(Append(vs, v[k]), rem)
        BY <3>1, EntryAppended
      <4>2. Turn("names", "any", Got(vs, seqs[k] \o rem), is[k]) = UnmarshalEntry(Got(vs, seqs[k] \o rem))
        BY DEF Turn
      <4> QED BY <3>1, <4>1, <4>2
    <3> QED BY <3>2, <3>3
  <2> HIDE DEF is
  <2> QED BY <2>1 DEF ReadsBack
<1>7. Runs("names", "any", Got(<<>>, tails[0] \o rest), is, n, run)
  BY <1>1, <1>5
<1>8. run[n] = Got(v, rest)
  <2>1. ReadsList("names", Entries, v, n, seqs, tails, rest, is, n, run)
    BY <1>1, <1>2, <1>6, <1>7 DEF ReadsList
  <2> HIDE DEF n, is, b
  <2> QED BY <2>1, ListLoop
<1>9. MarshalUint32(n) \o MarshalNames(v) \in Seq(Bytes)
  BY <1>1, <1>2, Concat
<1> QED BY <1>4, <1>5, <1>8, <1>9

\* A field of any type but that of the extensions is read back whatever follows it.
LEMMA FieldRoundTrip ==
  ASSUME NEW type, type # "pairs", NEW v \in Values(type)
  PROVE  /\ Marshal(type, v) \in Seq(Bytes)
         /\ \A rest \in Seq(Bytes) : Unmarshal(type, Marshal(type, v) \o rest) = Got(v, rest)
<1>1. CASE type = "attrs"
  <2>1. v \in FileStats /\ Marshal(type, v) = MarshalFileStat(v)
    BY <1>1 DEF Values, Marshal
  <2>2. MarshalFileStat(v) \in Seq(Bytes)
    BY <2>1, EmptySeq, AttrsRoundTrip
  <2>3. \A rest \in Seq(Bytes) : UnmarshalAttrs(MarshalFileStat(v) \o rest) = Got(v, rest)
    BY <2>1, AttrsRoundTrip
  <2> QED BY <1>1, <2>1, <2>2, <2>3 DEF Unmarshal
<1>2. CASE type = "names"
  <2>1. v \in Counted(Entries) /\ Marshal(type, v) = MarshalUint32(Len(v)) \o MarshalNames(v)
    <3>1. v \in Counted(Entries)
      BY <1>2 DEF Values
    <3>2. Marshal(type, v) = MarshalUint32(Len(v)) \o FlattenSeq([i \in DOMAIN v |-> MarshalNameAttr(v[i])])
      BY <1>2 DEF Marshal
    <3> QED BY <3>1, <3>2, Zenon DEF MarshalNames
  <2>2. v \in Seq(Entries) /\ Len(v) \in Uint32
    BY <2>1 DEF Counted
  <2>3. MarshalUint32(Len(v)) \o MarshalNames(v) \in Seq(Bytes)
    BY <2>2, EmptySeq, NamesRoundTrip
  <2>4. ASSUME NEW rest \in Seq(Bytes)
        PROVE  Unmarshal(type, Marshal(type, v) \o rest) = Got(v, rest)
    <3> DEFINE b == MarshalUint32(Len(v)) \o MarshalNames(v) \o rest
    <3>1. UnmarshalEntries(UnmarshalUint32Safe(b)) = Got(v, rest)
      BY <2>2, NamesRoundTrip
    <3>2. Unmarshal(type, b) = UnmarshalEntries(UnmarshalUint32Safe(b))
      <4> HIDE DEF b
      <4> QED BY <1>2 DEF Unmarshal
    <3> QED BY <2>1, <3>1, <3>2
  <2> QED BY <2>1, <2>3, <2>4
<1>3. CASE type # "attrs" /\ type # "names"
  <2>1. v \in BasicValues(type) /\ Marshal(type, v) = MarshalBasic(type, v)
    BY <1>3 DEF Values, Marshal
  <2>2. \A b : Unmarshal(type, b) = UnmarshalBasic(type, b)
    BY <1>3 DEF Unmarshal
  <2> QED BY <2>1, <2>2, BasicRoundTrip
<1> QED BY <1>1, <1>2, <1>3

\* Extensions are read back when nothing follows them.
LEMMA ExtensionsRoundTrip ==
  ASSUME NEW v \in Values("pairs")
  PROVE  Marshal("pairs", v) \in Seq(Bytes) /\ Unmarshal("pairs", Marshal("pairs", v)) = Got(v, <<>>)
<1>1. v \in Seq(Pairs) /\ Marshal("pairs", v) = MarshalPairs(v)
  BY DEF Values, Marshal, MarshalBasic
<1>2. \A b : Unmarshal("pairs", b) = UnmarshalPairs(b)
  BY DEF Unmarshal, UnmarshalBasic
<1> QED BY <1>1, <1>2, PairsRoundTrip

-----------------------------------------------------------------------------
(* The layouts of the two sides.                                           *)

LEMMA CombinedAt ==
  ASSUME NEW tables, NEW t \in tables, NEW kind \in DOMAIN t,
         \A u \in tables : kind \in DOMAIN u => u = t
  PROVE  kind \in DOMAIN Combined(tables) /\ Combined(tables)[kind] = t[kind]
<1>1. kind \in UNION {DOMAIN u : u \in tables}
  OBVIOUS
<1>2. (CHOOSE u \in tables : kind \in DOMAIN u) = t
  OBVIOUS
<1> QED BY <1>1, <1>2 DEF Combined

\* The kinds of packets that each table has.
IDKinds == {"readdir", "fstat", "close", "opendir", "lstat", "stat", "remove", "rmdir"}

LEMMA IDStringKinds ==
  /\ DOMAIN IDString = IDKinds
  /\ \A kind \in {"readdir", "fstat", "close"} : IDString[kind] = Both(<<"id", "handle">>)
  /\ \A kind \in {"opendir", "lstat", "stat", "remove", "rmdir"} : IDString[kind] = Both(<<"id", "path">>)
<1> DEFINE H == [kind \in {"readdir", "fstat", "close"} |-> Both(<<"id", "handle">>)]
<1> DEFINE P == [kind \in {"opendir", "lstat", "stat", "remove", "rmdir"} |-> Both(<<"id", "path">>)]
<1>1. IDString = Combined({H, P})
  BY DEF IDString
<1>2. /\ DOMAIN H = {"readdir", "fstat", "close"}
      /\ DOMAIN P = {"opendir", "lstat", "stat", "remove", "rmdir"}
      /\ \A kind \in {"readdir", "fstat", "close"} : H[kind] = Both(<<"id", "handle">>)
      /\ \A kind \in {"opendir", "lstat", "stat", "remove", "rmdir"} : P[kind] = Both(<<"id", "path">>)
  OBVIOUS
<1> HIDE DEF H, P
<1>3. ASSUME NEW kind \in DOMAIN H PROVE IDString[kind] = H[kind]
  <2>1. \A u \in {H, P} : kind \in DOMAIN u => u = H
    BY <1>2
  <2> QED BY <1>1, <2>1, CombinedAt
<1>4. ASSUME NEW kind \in DOMAIN P PROVE IDString[kind] = P[kind]
  <2>1. \A u \in {H, P} : kind \in DOMAIN u => u = P
    BY <1>2
  <2> QED BY <1>1, <2>1, CombinedAt
<1>5. DOMAIN IDString = DOMAIN H \union DOMAIN P
  BY <1>1 DEF Combined
<1> QED BY <1>2, <1>3, <1>4, <1>5 DEF IDKinds

LEMMA TableKinds ==
  /\ DOMAIN InitPacket = {"init", "version"}
  /\ DOMAIN SymlinkHardlink = {"symlink", "hardlink"}
  /\ DOMAIN ReadlinkRealpath = {"readlink", "realpath"}
  /\ DOMAIN NamePacket = {"name"}
  /\ DOMAIN OpenPacket = {"open"}
  /\ DOMAIN ReadPacket = {"read"}
  /\ DOMAIN RenameWrite = {"rename", "posixrename", "write"}
  /\ DOMAIN MkdirPacket = {"mkdir"}
  /\ DOMAIN SetstatPackets = {"setstat", "fsetstat"}
  /\ DOMAIN HandleStatusData = {"handle", "status", "data"}
  /\ DOMAIN StatvfsPackets = {"statvfs", "statvfsReply"}
  /\ DOMAIN StatResponse = {"attrs"}
  /\ DOMAIN FsyncPacket = {"fsync"}
BY DEF InitPacket, SymlinkHardlink, ReadlinkRealpath, NamePacket, OpenPacket, ReadPacket, RenameWrite,
       MkdirPacket, SetstatPackets, HandleStatusData, StatvfsPackets, StatResponse, FsyncPacket

SentTables == {InitPacket, IDString, SymlinkHardlink, ReadlinkRealpath, NamePacket, OpenPacket,
               ReadPacket, RenameWrite, MkdirPacket, SetstatPackets, HandleStatusData,
               StatvfsPackets, StatResponse, FsyncPacket}

LEMMA SentTable ==
  ASSUME NEW t \in SentTables, NEW kind \in DOMAIN t
  PROVE  Sent[kind] = t[kind]
<1>1. \A u \in SentTables : kind \in DOMAIN u => u = t
  BY TableKinds, IDStringKinds DEF SentTables, IDKinds
<1>2. Sent = Combined(SentTables)
  BY DEF Sent, SentTables
<1> QED BY <1>1, <1>2, CombinedAt

LEMMA ReadKinds ==
  /\ DOMAIN Restrict(InitPacket, {"init"}) = {"init"}
  /\ DOMAIN ExtendedPacket = {"statvfs", "posixrename", "hardlink"}
  /\ DOMAIN Restrict(SymlinkHardlink, {"symlink"}) = {"symlink"}
  /\ DOMAIN Restrict(RenameWrite, {"rename", "write"}) = {"rename", "write"}
  /\ DOMAIN RecvVersion = {"version"}
  /\ DOMAIN HandleReply = {"handle"}
  /\ DOMAIN StatusReply = {"status"}
  /\ DOMAIN DataReply = {"data"}
  /\ DOMAIN ReadDirReply = {"name"}
  /\ DOMAIN AttrsReply = {"attrs"}
  /\ DOMAIN StatVFSReply = {"statvfsReply"}
BY DEF Restrict, ExtendedPacket, RecvVersion, HandleReply, StatusReply, DataReply, ReadDirReply,
       AttrsReply, StatVFSReply

LEMMA ReadTable ==
  ASSUME NEW t \in Requests \union Replies, NEW kind \in DOMAIN t
  PROVE  Read[kind] = t[kind]
<1>1. \A u \in Requests \union Replies : kind \in DOMAIN u => u = t
  BY TableKinds, IDStringKinds, ReadKinds DEF Requests, Replies, IDKinds
<1> DEFINE tables == Requests \union Replies
<1>2. Read = Combined(tables) /\ t \in tables /\ \A u \in tables : kind \in DOMAIN u => u = t
  BY <1>1 DEF Read
<1> HIDE DEF tables
<1> QED BY <1>2, CombinedAt

\* A layout of typed fields, in which extensions are the last.
ProperLayout(layout) ==
  /\ layout \in Seq(DOMAIN TypeOf)
  /\ \A i \in 1..(Len(layout) - 1) : TypeOf[layout[i]] # "pairs"
  /\ \A i \in DOMAIN layout : layout[i] # "extended"

Fixed == DOMAIN TypeOf \ {"extensions", "extended"}

LEMMA FixedLayout ==
  \A layout \in Seq(Fixed) : ProperLayout(layout)
<1> SUFFICES ASSUME NEW layout \in Seq(Fixed) PROVE ProperLayout(layout)
  OBVIOUS
<1>1. \A f \in Fixed : f \in DOMAIN TypeOf /\ TypeOf[f] # "pairs"
  BY DEF Fixed, TypeOf
<1>2. \A i \in 1..Len(layout) : layout[i] \in Fixed
  OBVIOUS
<1>3. layout \in Seq(DOMAIN TypeOf)
  BY DEF Fixed
<1>4. \A i \in 1..(Len(layout) - 1) : i \in 1..Len(layout)
  OBVIOUS
<1>5. \A i \in DOMAIN layout : layout[i] # "extended"
  BY <1>2 DEF Fixed
<1> QED BY <1>1, <1>2, <1>3, <1>4, <1>5 DEF ProperLayout

LEMMA InitLayout == ProperLayout(<<"version", "extensions">>)
<1> DEFINE layout == <<"version", "extensions">>
<1>1. TypeOf["version"] = "uint32" /\ "version" \in DOMAIN TypeOf /\ "extensions" \in DOMAIN TypeOf
  BY DEF TypeOf
<1>2. layout \in Seq(DOMAIN TypeOf) /\ Len(layout) = 2 /\ layout[1] = "version"
  BY <1>1
<1>3. \A i \in 1..(Len(layout) - 1) : i = 1
  BY <1>2
<1> QED BY <1>1, <1>2, <1>3 DEF ProperLayout

LEMMA ShortLayouts ==
  /\ \A a, b \in Fixed : ProperLayout(<<a, b>>)
  /\ \A a, b, c \in Fixed : ProperLayout(<<a, b, c>>)
  /\ \A a, b, c, d \in Fixed : ProperLayout(<<a, b, c, d>>)
<1>1. /\ \A a, b \in Fixed : <<a, b>> \in Seq(Fixed)
      /\ \A a, b, c \in Fixed : <<a, b, c>> \in Seq(Fixed)
      /\ \A a, b, c, d \in Fixed : <<a, b, c, d>> \in Seq(Fixed)
  OBVIOUS
<1> QED BY <1>1, FixedLayout

LEMMA FixedFields ==
  {"id", "handle", "path", "targetpath", "linkpath", "oldpath", "newpath", "ext", "names", "pflags",
   "attrs", "offset", "len", "data", "flags", "code", "msg", "lang", "bsize", "frsize", "blocks",
   "bfree", "bavail", "files", "ffree", "favail", "fsid", "flag", "namemax"} \subseteq Fixed
BY DEF Fixed, TypeOf

Agrees(kind) ==
  Sent[kind].marshal = Read[kind].unmarshal /\ ProperLayout(Sent[kind].marshal)

LEMMA Directions ==
  \A layout : /\ Both(layout).marshal = layout /\ Both(layout).unmarshal = layout
              /\ Out(layout).marshal = layout /\ In(layout).unmarshal = layout
BY DEF Both, Out, In

LEMMA AgreesAs ==
  ASSUME NEW kind, NEW layout, Sent[kind].marshal = layout, Read[kind].unmarshal = layout,
         ProperLayout(layout)
  PROVE  Agrees(kind)
BY DEF Agrees

LEMMA InitAgrees == Agrees("init") /\ Agrees("version")
<1> DEFINE layout == <<"version", "extensions">>
<1>1. InitPacket["init"] = Both(layout) /\ InitPacket["version"] = Out(layout)
  BY DEF InitPacket
<1>2. Sent["init"] = Both(layout) /\ Sent["version"] = Out(layout)
  BY <1>1, SentTable, TableKinds DEF SentTables
<1>3. Read["init"] = Both(layout)
  <2>1. Read["init"] = Restrict(InitPacket, {"init"})["init"]
    BY ReadTable, ReadKinds DEF Requests
  <2> QED BY <1>1, <2>1 DEF Restrict
<1>4. Read["version"] = In(layout)
  <2>1. Read["version"] = RecvVersion["version"]
    BY ReadTable, ReadKinds DEF Replies
  <2> QED BY <2>1 DEF RecvVersion
<1> HIDE DEF layout
<1>5. Sent["init"].marshal = layout /\ Sent["version"].marshal = layout
      /\ Read["init"].unmarshal = layout /\ Read["version"].unmarshal = layout
  BY <1>2, <1>3, <1>4, Directions
<1> QED BY <1>5, InitLayout, AgreesAs DEF layout

LEMMA IDStringAgrees == \A kind \in IDKinds : Agrees(kind)
<1>1. \A kind \in IDKinds : Sent[kind] = IDString[kind] /\ Read[kind] = IDString[kind]
  BY SentTable, ReadTable, IDStringKinds DEF SentTables, Requests
<1>2. /\ ProperLayout(<<"id", "handle">>) /\ ProperLayout(<<"id", "path">>)
  BY ShortLayouts, FixedFields
<1>3. \A kind \in {"readdir", "fstat", "close"} : Agrees(kind)
  BY <1>1, <1>2, IDStringKinds, Directions DEF Agrees, IDKinds
<1>4. \A kind \in {"opendir", "lstat", "stat", "remove", "rmdir"} : Agrees(kind)
  BY <1>1, <1>2, IDStringKinds, Directions DEF Agrees, IDKinds
<1> QED BY <1>3, <1>4 DEF IDKinds

LEMMA SymlinkHardlinkAgrees == Agrees("symlink") /\ Agrees("hardlink")
<1> DEFINE s == <<"id", "targetpath", "linkpath">>
<1> DEFINE h == <<"id", "ext", "oldpath", "newpath">>
<1>1. SymlinkHardlink["symlink"] = Both(s) /\ SymlinkHardlink["hardlink"] = Out(h)
  BY DEF SymlinkHardlink
<1>2. Sent["symlink"] = Both(s) /\ Sent["hardlink"] = Out(h)
  BY <1>1, SentTable, TableKinds DEF SentTables
<1>3. Read["symlink"] = Both(s)
  <2>1. Read["symlink"] = Restrict(SymlinkHardlink, {"symlink"})["symlink"]
    BY ReadTable, ReadKinds DEF Requests
  <2> QED BY <1>1, <2>1 DEF Restrict
<1>4. Read["hardlink"] = In(h)
  <2>1. Read["hardlink"] = ExtendedPacket["hardlink"]
    BY ReadTable, ReadKinds DEF Requests
  <2> QED BY <2>1 DEF ExtendedPacket
<1>5. ProperLayout(s) /\ ProperLayout(h)
  BY ShortLayouts, FixedFields
<1> HIDE DEF s, h
<1>6. /\ Sent["symlink"].marshal = s /\ Read["symlink"].unmarshal = s
      /\ Sent["hardlink"].marshal = h /\ Read["hardlink"].unmarshal = h
  BY <1>2, <1>3, <1>4, Directions
<1> QED BY <1>5, <1>6, AgreesAs

LEMMA RenameWriteAgrees == Agrees("rename") /\ Agrees("posixrename") /\ Agrees("write")
<1> DEFINE r == <<"id", "oldpath", "newpath">>
<1> DEFINE x == <<"id", "ext", "oldpath", "newpath">>
<1> DEFINE w == <<"id", "handle", "offset", "data">>
<1>1. /\ RenameWrite["rename"] = Both(r) /\ RenameWrite["posixrename"] = Out(x)
      /\ RenameWrite["write"] = Both(w)
  BY DEF RenameWrite
<1>2. Sent["rename"] = Both(r) /\ Sent["posixrename"] = Out(x) /\ Sent["write"] = Both(w)
  BY <1>1, SentTable, TableKinds DEF SentTables
<1>3. Read["rename"] = Both(r) /\ Read["write"] = Both(w)
  <2>1. \A kind \in {"rename", "write"} : Read[kind] = Restrict(RenameWrite, {"rename", "write"})[kind]
    BY ReadTable, ReadKinds DEF Requests
  <2> QED BY <1>1, <2>1 DEF Restrict
<1>4. Read["posixrename"] = In(x)
  <2>1. Read["posixrename"] = ExtendedPacket["posixrename"]
    BY ReadTable, ReadKinds DEF Requests
  <2> QED BY <2>1 DEF ExtendedPacket
<1>5. ProperLayout(r) /\ ProperLayout(x) /\ ProperLayout(w)
  BY ShortLayouts, FixedFields
<1> HIDE DEF r, x, w
<1>6. /\ Sent["rename"].marshal = r /\ Read["rename"].unmarshal = r
      /\ Sent["posixrename"].marshal = x /\ Read["posixrename"].unmarshal = x
      /\ Sent["write"].marshal = w /\ Read["write"].unmarshal = w
  BY <1>2, <1>3, <1>4, Directions
<1> QED BY <1>5, <1>6, AgreesAs

LEMMA SharedTableAgrees ==
  \A kind \in {"readlink", "realpath", "open", "read", "mkdir", "setstat", "fsetstat"} : Agrees(kind)
<1>1. /\ \A kind \in {"readlink", "realpath"} :
           Sent[kind] = ReadlinkRealpath[kind] /\ Read[kind] = ReadlinkRealpath[kind]
      /\ Sent["open"] = OpenPacket["open"] /\ Read["open"] = OpenPacket["open"]
      /\ Sent["read"] = ReadPacket["read"] /\ Read["read"] = ReadPacket["read"]
      /\ Sent["mkdir"] = MkdirPacket["mkdir"] /\ Read["mkdir"] = MkdirPacket["mkdir"]
      /\ \A kind \in {"setstat", "fsetstat"} :
           Sent[kind] = SetstatPackets[kind] /\ Read[kind] = SetstatPackets[kind]
  BY SentTable, ReadTable, TableKinds DEF SentTables, Requests
<1>2. /\ \A kind \in {"readlink", "realpath"} : ReadlinkRealpath[kind] = Both(<<"id", "path">>)
      /\ OpenPacket["open"] = Both(<<"id", "path", "pflags", "attrs">>)
      /\ ReadPacket["read"] = Both(<<"id", "handle", "offset", "len">>)
      /\ MkdirPacket["mkdir"] = Both(<<"id", "path", "flags">>)
      /\ SetstatPackets["setstat"] = Both(<<"id", "path", "attrs">>)
      /\ SetstatPackets["fsetstat"] = Both(<<"id", "handle", "attrs">>)
  BY DEF ReadlinkRealpath, OpenPacket, ReadPacket, MkdirPacket, SetstatPackets
<1>3. /\ ProperLayout(<<"id", "path">>) /\ ProperLayout(<<"id", "path", "pflags", "attrs">>)
      /\ ProperLayout(<<"id", "handle", "offset", "len">>) /\ ProperLayout(<<"id", "path", "flags">>)
      /\ ProperLayout(<<"id", "path", "attrs">>) /\ ProperLayout(<<"id", "handle", "attrs">>)
  BY ShortLayouts, FixedFields
<1>4. \A kind, layout : Sent[kind] = Both(layout) /\ Read[kind] = Both(layout) /\ ProperLayout(layout)
                       => Agrees(kind)
  BY Directions DEF Agrees
<1> QED BY <1>1, <1>2, <1>3, <1>4

\* The replies, written by the server and read by the client.
LEMMA ReplyAgrees ==
  \A kind \in {"name", "handle", "status", "data", "attrs", "statvfs", "statvfsReply"} : Agrees(kind)
<1> DEFINE v == <<"id">> \o StatVFS
<1>1. /\ Sent["name"] = NamePacket["name"] /\ Read["name"] = ReadDirReply["name"]
      /\ Sent["handle"] = HandleStatusData["handle"] /\ Read["handle"] = HandleReply["handle"]
      /\ Sent["status"] = HandleStatusData["status"] /\ Read["status"] = StatusReply["status"]
      /\ Sent["data"] = HandleStatusData["data"] /\ Read["data"] = DataReply["data"]
      /\ Sent["attrs"] = StatResponse["attrs"] /\ Read["attrs"] = AttrsReply["attrs"]
      /\ Sent["statvfs"] = StatvfsPackets["statvfs"] /\ Read["statvfs"] = ExtendedPacket["statvfs"]
      /\ Sent["statvfsReply"] = StatvfsPackets["statvfsReply"]
      /\ Read["statvfsReply"] = StatVFSReply["statvfsReply"]
  BY SentTable, ReadTable, TableKinds, ReadKinds DEF SentTables, Requests, Replies
<1>2. /\ NamePacket["name"] = Out(<<"id", "names">>) /\ ReadDirReply["name"] = In(<<"id", "names">>)
      /\ HandleStatusData["handle"] = Out(<<"id", "handle">>) /\ HandleReply["handle"] = In(<<"id", "handle">>)
      /\ HandleStatusData["status"] = Out(<<"id", "code", "msg", "lang">>)
      /\ StatusReply["status"] = In(<<"id", "code", "msg", "lang">>)
      /\ HandleStatusData["data"] = Out(<<"id", "data">>) /\ DataReply["data"] = In(<<"id", "data">>)
      /\ StatResponse["attrs"] = Out(<<"id", "attrs">>) /\ AttrsReply["attrs"] = In(<<"id", "attrs">>)
      /\ StatvfsPackets["statvfs"] = Out(<<"id", "ext", "path">>)
      /\ ExtendedPacket["statvfs"] = In(<<"id", "ext", "path">>)
  BY DEF NamePacket, ReadDirReply, HandleStatusData, HandleReply, StatusReply, DataReply, StatResponse,
         AttrsReply, StatvfsPackets, ExtendedPacket
<1>3. StatvfsPackets["statvfsReply"] = Out(v) /\ StatVFSReply["statvfsReply"] = In(v)
  BY DEF StatvfsPackets, StatVFSReply
<1>4. /\ ProperLayout(<<"id", "names">>) /\ ProperLayout(<<"id", "handle">>)
      /\ ProperLayout(<<"id", "code", "msg", "lang">>) /\ ProperLayout(<<"id", "data">>)
      /\ ProperLayout(<<"id", "attrs">>) /\ ProperLayout(<<"id", "ext", "path">>)
  BY ShortLayouts, FixedFields
<1>5. ProperLayout(v)
  <2>1. "id" \in Fixed
    BY FixedFields
  <2>2. StatVFS \in Seq(Fixed)
    BY FixedFields DEF StatVFS
  <2>3. v \in Seq(Fixed)
    BY <2>1, <2>2
  <2> QED BY <2>3, FixedLayout
<1>6. \A kind, layout : Sent[kind] = Out(layout) /\ Read[kind] = In(layout) /\ ProperLayout(layout)
                       => Agrees(kind)
  BY Directions DEF Agrees
<1> HIDE DEF v
<1> QED BY <1>1, <1>2, <1>3, <1>4, <1>5, <1>6

\* What one side writes the other side reads in the same order, and the extensions, which go
\* on to the end of a packet, come last.
THEOREM LayoutsAgree ==
  \A kind \in DOMAIN Sent \intersect DOMAIN Read : Agrees(kind)
<1>1. DOMAIN Sent = UNION {DOMAIN t : t \in SentTables}
  BY DEF Sent, SentTables, Combined
<1>2. DOMAIN Sent = {"init", "version"} \union IDKinds \union {"symlink", "hardlink"}
        \union {"readlink", "realpath"} \union {"name", "open", "read"}
        \union {"rename", "posixrename", "write"} \union {"mkdir", "setstat", "fsetstat"}
        \union {"handle", "status", "data", "statvfs", "statvfsReply", "attrs", "fsync"}
  BY <1>1, TableKinds, IDStringKinds DEF SentTables
<1>3. "fsync" \notin DOMAIN Read
  <2>1. DOMAIN Read = UNION {DOMAIN t : t \in Requests \union Replies}
    BY DEF Read, Combined
  <2>2. \A t \in Requests \union Replies : "fsync" \notin DOMAIN t
    BY TableKinds, IDStringKinds, ReadKinds DEF Requests, Replies, IDKinds
  <2> QED BY <2>1, <2>2
<1> QED BY <1>2, <1>3, InitAgrees, IDStringAgrees, SymlinkHardlinkAgrees, RenameWriteAgrees,
           SharedTableAgrees, ReplyAgrees

-----------------------------------------------------------------------------
(* Packets.                                                                *)

\* The first k fields of a packet.
FirstOf(p, layout, k) == [f \in {layout[i] : i \in 1..k} |-> p[f]]

LEMMA NothingYet ==
  ASSUME NEW p, NEW layout PROVE FirstOf(p, layout, 0) = <<>>
<1>1. {layout[i] : i \in 1..0} = {}
  OBVIOUS
<1>2. FirstOf(p, layout, 0) = [f \in {} |-> p[f]]
  BY <1>1 DEF FirstOf
<1>3. DOMAIN <<>> = {} /\ <<>> = [f \in {} |-> <<>>[f]]
  OBVIOUS
<1>4. [f \in {} |-> p[f]] = [f \in {} |-> <<>>[f]]
  OBVIOUS
<1> QED BY <1>2, <1>3, <1>4

LEMMA FieldAdded ==
  ASSUME NEW p, NEW layout, NEW k \in Nat
  PROVE  WithField(FirstOf(p, layout, k), layout[k + 1], p[layout[k + 1]]) = FirstOf(p, layout, k + 1)
<1> DEFINE A == {layout[i] : i \in 1..k}
<1> DEFINE B == {layout[i] : i \in 1..(k + 1)}
<1>1. B = A \union {layout[k + 1]}
  <2>1. \A i : i \in 1..(k + 1) <=> i \in 1..k \/ i = k + 1
    OBVIOUS
  <2> QED BY <2>1
<1>2. FirstOf(p, layout, k) = [f \in A |-> p[f]] /\ FirstOf(p, layout, k + 1) = [f \in B |-> p[f]]
  BY DEF FirstOf
<1> HIDE DEF A, B
<1>3. WithField([f \in A |-> p[f]], layout[k + 1], p[layout[k + 1]])
        = [g \in A \union {layout[k + 1]} |-> IF g = layout[k + 1] THEN p[layout[k + 1]]
                                              ELSE [f \in A |-> p[f]][g]]
  BY DEF WithField
<1>4. \A g \in A \union {layout[k + 1]} :
        (IF g = layout[k + 1] THEN p[layout[k + 1]] ELSE [f \in A |-> p[f]][g]) = p[g]
  OBVIOUS
<1>5. WithField([f \in A |-> p[f]], layout[k + 1], p[layout[k + 1]])
        = [g \in A \union {layout[k + 1]} |-> p[g]]
  BY <1>3, <1>4
<1> QED BY <1>1, <1>2, <1>5

LEMMA PacketRuns ==
  ASSUME NEW kind, NEW b, Read[kind].unmarshal \in Seq(DOMAIN TypeOf)
  PROVE  LET layout == Read[kind].unmarshal IN
           \E run : /\ Runs("fields", kind, Got(<<>>, b), layout, Len(layout), run)
                    /\ UnmarshalPacket(kind, b) = run[Len(layout)]
<1> DEFINE layout == Read[kind].unmarshal
<1> DEFINE n == Len(layout)
<1>1. n \in Nat /\ DOMAIN layout = 1..n
  OBVIOUS
<1>2. UnmarshalPacket(kind, b)
        = FoldLeft(LAMBDA r, f : AndField(r, f, Unmarshal(TypeOf[f], r.rest), f \in Forgiven(kind)),
                   Got(<<>>, b), layout)
  BY Zenon DEF UnmarshalPacket
<1> DEFINE base == Got(<<>>, b)
<1> HIDE DEF layout, n, base
<1> DEFINE P(it) == it = [s \in SUBSET (1..n) |->
                            IF s = {} THEN base
                            ELSE AndField(it[s \ {Max(s)}], layout[Max(s)],
                                          Unmarshal(TypeOf[layout[Max(s)]], it[s \ {Max(s)}].rest),
                                          layout[Max(s)] \in Forgiven(kind))]
<1>3. \A it : P(it) <=> Iterates("fields", kind, base, layout, n, it)
  BY DEF Iterates, Turn
<1>4. P(CHOOSE it : P(it))
  BY <1>1, <1>3, IterationExists
<1>5. FoldLeft(LAMBDA r, f : AndField(r, f, Unmarshal(TypeOf[f], r.rest), f \in Forgiven(kind)), base, layout)
        = (CHOOSE it : P(it))[1..n]
  BY <1>1, Zenon DEF FoldLeft, MapThenFoldSet
<1> HIDE DEF P
<1>6. UnmarshalPacket(kind, b) = (CHOOSE it : P(it))[1..n]
  BY <1>2, <1>5, Zenon DEF base
<1>7. PICK it : P(it) /\ UnmarshalPacket(kind, b) = it[1..n]
  BY <1>4, <1>6, Zenon
<1>8. PICK run : Runs("fields", kind, base, layout, n, run) /\ run[n] = it[1..n]
  BY <1>1, <1>3, <1>7, RunOfIteration
<1> QED BY <1>7, <1>8, Zenon DEF base, layout, n

\* A field of a packet; the extensions are the last.
LEMMA FieldBack ==
  ASSUME NEW f, NEW v \in Values(TypeOf[f]), NEW rest \in Seq(Bytes),
         TypeOf[f] = "pairs" => rest = <<>>
  PROVE  Unmarshal(TypeOf[f], Marshal(TypeOf[f], v) \o rest) = Got(v, rest)
<1>1. CASE TypeOf[f] # "pairs"
  BY <1>1, FieldRoundTrip
<1>2. CASE TypeOf[f] = "pairs"
  <2>1. rest = <<>> /\ v \in Values("pairs")
    BY <1>2
  <2>2. Marshal("pairs", v) \in Seq(Bytes) /\ Unmarshal("pairs", Marshal("pairs", v)) = Got(v, <<>>)
    BY <2>1, ExtensionsRoundTrip
  <2>3. Marshal(TypeOf[f], v) \o rest = Marshal("pairs", v)
    BY <1>2, <2>1, <2>2, ConcatEmptySeq
  <2> QED BY <1>2, <2>1, <2>2, <2>3
<1> QED BY <1>1, <1>2

\* One field of a packet read back behind those before it.
LEMMA FieldRead ==
  ASSUME NEW kind, NEW vs, NEW f, NEW v, NEW b, NEW rest, Unmarshal(TypeOf[f], b) = Got(v, rest)
  PROVE  Turn("fields", kind, Got(vs, b), f) = Got(WithField(vs, f, v), rest)
<1> DEFINE r == Got(vs, b)
<1>2. r.v = vs /\ r.rest = b /\ r.failed = FALSE
  BY GotFields
<1> HIDE DEF r
<1>3. Turn("fields", kind, r, f) = AndField(r, f, Unmarshal(TypeOf[f], r.rest), f \in Forgiven(kind))
  BY DEF Turn
<1>4. Turn("fields", kind, r, f) = AndField(r, f, Got(v, rest), f \in Forgiven(kind))
  BY <1>2, <1>3
<1>5. AndField(r, f, Got(v, rest), f \in Forgiven(kind)) = Got(WithField(vs, f, v), rest)
  BY <1>2, GotFields DEF AndField
<1> QED BY <1>4, <1>5 DEF r

\* Field after field is read as it was written, if only extensions need the end behind them;
\* what is behind the last field is left over.
LEMMA LayoutReadBack ==
  ASSUME NEW kind, NEW p, NEW tails, Read[kind].unmarshal \in Seq(DOMAIN TypeOf),
         tails \in [0..Len(Read[kind].unmarshal) -> Seq(Bytes)],
         \A k \in 1..Len(Read[kind].unmarshal) :
           LET f == Read[kind].unmarshal[k] IN
             /\ p[f] \in Values(TypeOf[f]) /\ tails[k - 1] = Marshal(TypeOf[f], p[f]) \o tails[k]
             /\ TypeOf[f] = "pairs" => tails[k] = <<>>
  PROVE  UnmarshalPacket(kind, tails[0])
           = Got([f \in Range(Read[kind].unmarshal) |-> p[f]], tails[Len(Read[kind].unmarshal)])
<1> DEFINE layout == Read[kind].unmarshal
<1> DEFINE n == Len(layout)
<1>2. n \in Nat /\ DOMAIN layout = 1..n
  OBVIOUS
<1>3. \A k \in 1..n : /\ p[layout[k]] \in Values(TypeOf[layout[k]])
                      /\ tails[k - 1] = Marshal(TypeOf[layout[k]], p[layout[k]]) \o tails[k]
                      /\ TypeOf[layout[k]] = "pairs" => tails[k] = <<>>
  OBVIOUS
<1>4. tails \in [0..n -> Seq(Bytes)]
  OBVIOUS
<1>5. PICK run : /\ Runs("fields", kind, Got(<<>>, tails[0]), layout, n, run)
                 /\ UnmarshalPacket(kind, tails[0]) = run[n]
  BY PacketRuns
<1> HIDE DEF layout, n
<1> DEFINE S == {k \in Nat : k <= n => run[k] = Got(FirstOf(p, layout, k), tails[k])}
<1>12. 0 \in S
  BY <1>5, NothingYet DEF Runs
<1>13. ASSUME NEW k \in Nat, k \in S PROVE k + 1 \in S
  <2> SUFFICES ASSUME k + 1 <= n PROVE run[k + 1] = Got(FirstOf(p, layout, k + 1), tails[k + 1])
    OBVIOUS
  <2>1. k + 1 \in 1..n /\ k \in 0..(n - 1) /\ (k + 1) - 1 = k /\ k <= n /\ k + 1 \in 0..n
    BY <1>2
  <2>2. run[k] = Got(FirstOf(p, layout, k), tails[k])
    BY <1>13, <2>1
  <2>3. run[k + 1] = Turn("fields", kind, run[k], layout[k + 1])
    BY <1>5, <2>1 DEF Runs
  <2> DEFINE f == layout[k + 1]
  <2> DEFINE left == tails[k + 1]
  <2>4. /\ tails[k] = Marshal(TypeOf[f], p[f]) \o left /\ p[f] \in Values(TypeOf[f])
        /\ TypeOf[f] = "pairs" => left = <<>>
    BY <1>3, <2>1
  <2>5. left \in Seq(Bytes)
    BY <1>4, <2>1
  <2> HIDE DEF f, left
  <2>7. run[k + 1] = Got(WithField(FirstOf(p, layout, k), f, p[f]), left)
    <3> DEFINE vs == FirstOf(p, layout, k)
    <3> DEFINE b == Marshal(TypeOf[f], p[f]) \o left
    <3>1. run[k] = Got(vs, b)
      BY <2>2, <2>4
    <3>a. Unmarshal(TypeOf[f], b) = Got(p[f], left)
      BY <2>4, <2>5, FieldBack, ZenonT(30)
    <3> HIDE DEF vs, b
    <3>2. Turn("fields", kind, Got(vs, b), f) = Got(WithField(vs, f, p[f]), left)
      BY <3>a, FieldRead
    <3>3. run[k + 1] = Turn("fields", kind, run[k], f)
      BY <2>3 DEF f
    <3> QED BY <3>1, <3>2, <3>3 DEF vs
  <2> QED BY <2>7, FieldAdded DEF f, left
<1>14. n \in S
  <2> HIDE DEF S
  <2> QED BY <1>2, <1>12, <1>13, SetInduction
<1>15. run[n] = Got(FirstOf(p, layout, n), tails[n])
  BY <1>2, <1>14
<1>16. FirstOf(p, layout, n) = [f \in Range(layout) |-> p[f]]
  BY <1>2 DEF FirstOf, Range
<1> QED BY <1>5, <1>15, <1>16 DEF layout, n

\* Whatever its fields hold, a packet that one side writes and the other side reads comes out
\* of its bytes with every field it was written from, and nothing is left over.
THEOREM PacketRoundTrip ==
  ASSUME NEW kind \in DOMAIN Sent \intersect DOMAIN Read, NEW p,
         \A i \in DOMAIN Sent[kind].marshal :
           p[Sent[kind].marshal[i]] \in Values(TypeOf[Sent[kind].marshal[i]])
  PROVE  UnmarshalPacket(kind, MarshalPacket(kind, p))
           = Got([f \in Range(Sent[kind].marshal) |-> p[f]], <<>>)
<1> DEFINE layout == Sent[kind].marshal
<1> DEFINE n == Len(layout)
<1> DEFINE seqs == [i \in DOMAIN layout |-> Marshal(TypeOf[layout[i]], p[layout[i]])]
<1>1. /\ layout = Read[kind].unmarshal /\ layout \in Seq(DOMAIN TypeOf)
      /\ \A i \in 1..(n - 1) : TypeOf[layout[i]] # "pairs"
  BY LayoutsAgree DEF Agrees, ProperLayout
<1>2. n \in Nat /\ DOMAIN layout = 1..n
  BY <1>1
<1>3. MarshalPacket(kind, p) = FlattenSeq(seqs)
  BY Zenon DEF MarshalPacket, MarshalFields
<1>4. \A k \in 1..n : p[layout[k]] \in Values(TypeOf[layout[k]])
  BY <1>2
<1>5. \A k \in 1..n : seqs[k] = Marshal(TypeOf[layout[k]], p[layout[k]])
  BY <1>2
<1>6. seqs = [i \in 1..n |-> seqs[i]]
  BY <1>2
<1> HIDE DEF layout, n, seqs
<1>7. \A k \in 1..n : seqs[k] \in Seq(Bytes)
  <2> SUFFICES ASSUME NEW k \in 1..n PROVE Marshal(TypeOf[layout[k]], p[layout[k]]) \in Seq(Bytes)
    BY <1>5
  <2>1. p[layout[k]] \in Values(TypeOf[layout[k]])
    BY <1>4
  <2>2. CASE TypeOf[layout[k]] # "pairs"
    BY <2>1, <2>2, FieldRoundTrip
  <2>3. CASE TypeOf[layout[k]] = "pairs"
    BY <2>1, <2>3, ExtensionsRoundTrip
  <2> QED BY <2>2, <2>3
<1>8. seqs \in Seq(Seq(Bytes)) /\ Len(seqs) = n
  <2>1. seqs \in [1..n -> Seq(Bytes)]
    BY <1>6, <1>7
  <2> QED BY <1>2, <2>1
<1>9. PICK tails : Tails(seqs, n, tails) /\ tails[0] = FlattenSeq(seqs)
  BY <1>8, FlattenTails
<1>10. tails \in [0..n -> Seq(Bytes)] /\ tails[n] = <<>> /\ \A k \in 1..n : tails[k - 1] = seqs[k] \o tails[k]
  BY <1>9 DEF Tails
<1>11. ASSUME NEW k \in 1..n
       PROVE  /\ p[layout[k]] \in Values(TypeOf[layout[k]])
              /\ tails[k - 1] = Marshal(TypeOf[layout[k]], p[layout[k]]) \o tails[k]
              /\ TypeOf[layout[k]] = "pairs" => tails[k] = <<>>
  <2>1. TypeOf[layout[k]] = "pairs" => k = n
    BY <1>1, <1>2
  <2> QED BY <1>4, <1>5, <1>10, <2>1
<1>12. UnmarshalPacket(kind, tails[0]) = Got([f \in Range(layout) |-> p[f]], tails[n])
  <2> DEFINE l == Read[kind].unmarshal
  <2>1. l = layout /\ Len(l) = n /\ l \in Seq(DOMAIN TypeOf)
    BY <1>1 DEF n
  <2>2. tails \in [0..Len(l) -> Seq(Bytes)]
    BY <1>10, <2>1
  <2>3. \A k \in 1..Len(l) : /\ p[l[k]] \in Values(TypeOf[l[k]])
                             /\ tails[k - 1] = Marshal(TypeOf[l[k]], p[l[k]]) \o tails[k]
                             /\ TypeOf[l[k]] = "pairs" => tails[k] = <<>>
    BY <1>11, <2>1
  <2>4. UnmarshalPacket(kind, tails[0]) = Got([f \in Range(l) |-> p[f]], tails[Len(l)])
    BY <2>1, <2>2, <2>3, LayoutReadBack
  <2> QED BY <2>1, <2>4
<1> QED BY <1>3, <1>9, <1>10, <1>12 DEF layout

-----------------------------------------------------------------------------
(* Frames.                                                                 *)

\* The length of a frame, and what follows it.
FrameAfter(type, body, rest, after) ==
  LET n == 1 + Len(body) IN
    /\ after \in Seq(Bytes) /\ Len(after) = n + Len(rest)
    /\ UnmarshalUint32Safe(SendPacket(type, body) \o rest) = Got(n, after)
    /\ ~ (Len(SendPacket(type, body) \o rest) < WordLen)
    /\ after[1] = type /\ SubSeq(after, 2, n) = body /\ Drop(after, n) = rest

LEMMA FrameHead ==
  ASSUME NEW type \in Bytes, NEW body \in Seq(Bytes), 1 + Len(body) \in Uint32, NEW rest \in Seq(Bytes)
  PROVE  \E after : FrameAfter(type, body, rest, after)
<1> DEFINE n == 1 + Len(body)
<1> DEFINE typed == <<type>> \o body
<1> DEFINE after == typed \o rest
<1>1. /\ typed \in Seq(Bytes) /\ Len(typed) = n /\ n \in Nat /\ n > 0 /\ Len(rest) \in Nat
      /\ after \in Seq(Bytes) /\ Len(after) = n + Len(rest)
  OBVIOUS
<1>2. /\ MarshalUint32(n) \in Seq(Bytes) /\ Len(MarshalUint32(n)) = WordLen
  BY Uint32Bytes
<1>3. SendPacket(type, body) \o rest = MarshalUint32(n) \o after
  <2>1. SendPacket(type, body) = MarshalUint32(n) \o typed
    BY <1>2, ConcatAssociative DEF SendPacket
  <2> HIDE DEF typed, n
  <2>2. (MarshalUint32(n) \o typed) \o rest = MarshalUint32(n) \o (typed \o rest)
    BY <1>1, <1>2, Associative
  <2> QED BY <2>1, <2>2
<1>4. UnmarshalUint32Safe(SendPacket(type, body) \o rest) = Got(n, after)
  BY <1>1, <1>3, Uint32RoundTrip
<1>5. ~ (Len(SendPacket(type, body) \o rest) < WordLen)
  BY <1>1, <1>2, <1>3, DropPrefix DEF WordLen
<1>6. /\ after[1] = type /\ SubSeq(after, 2, n) = body /\ Drop(after, n) = rest
  <2>1. SubSeq(after, 2, n) \in Seq(Bytes) /\ Len(SubSeq(after, 2, n)) = Len(body)
    BY <1>1
  <2>2. \A i \in 1..Len(body) : SubSeq(after, 2, n)[i] = body[i]
    BY <1>1
  <2>3. SubSeq(after, 2, n) = body
    BY <2>1, <2>2, SeqEqual
  <2>4. Drop(after, n) = rest
    <3> HIDE DEF typed, n
    <3> QED BY <1>1, DropPrefix DEF after
  <2> QED BY <1>1, <2>3, <2>4
<1>7. FrameAfter(type, body, rest, after)
  BY <1>1, <1>4, <1>5, <1>6 DEF FrameAfter
<1> QED BY <1>7

\* A frame is read back whole, and with nothing of what comes after it, when the other side
\* accepts its length (recvPacket takes any length up to maxMsgLength, and a type).
THEOREM FrameRoundTrip ==
  ASSUME NEW type \in Bytes, NEW body \in Seq(Bytes), 1 + Len(body) \in Uint32,
         1 + Len(body) <= MaxMsgLength, NEW rest \in Seq(Bytes)
  PROVE  RecvPacket(SendPacket(type, body) \o rest)
           = [status |-> "ok", type |-> type, body |-> body, rest |-> rest]
<1> DEFINE n == 1 + Len(body)
<1>1. PICK after : FrameAfter(type, body, rest, after)
  BY FrameHead
<1>2. n \in Nat /\ n > 0 /\ n <= MaxMsgLength /\ Len(rest) \in Nat
  OBVIOUS
<1>3. /\ UnmarshalUint32Safe(SendPacket(type, body) \o rest) = Got(n, after) /\ Len(after) = n + Len(rest)
      /\ ~ (Len(SendPacket(type, body) \o rest) < WordLen)
      /\ after[1] = type /\ SubSeq(after, 2, n) = body /\ Drop(after, n) = rest
  BY <1>1 DEF FrameAfter
<1> HIDE DEF n
<1>4. RecvBody(Got(n, after)) = [status |-> "ok", type |-> type, body |-> body, rest |-> rest]
  <2>1. ~ (n > MaxMsgLength) /\ n # 0 /\ ~ (n > Len(after))
    BY <1>2, <1>3, MaxMsgLengthAssumption
  <2> QED BY <1>3, <2>1 DEF RecvBody, Got
<1> QED BY <1>3, <1>4 DEF RecvPacket

\* A frame that is cut behind its length.
LEMMA CutHead ==
  ASSUME NEW type \in Bytes, NEW body \in Seq(Bytes), 1 + Len(body) \in Uint32,
         NEW k \in 1..(Len(SendPacket(type, body)) - 1)
  PROVE  LET cut == SubSeq(SendPacket(type, body), 1, k) IN
           /\ cut \in Seq(Bytes) /\ Len(cut) = k /\ k \in Nat /\ k > 0 /\ cut # <<>>
           /\ k >= WordLen => \E tail \in Seq(Bytes) :
                /\ UnmarshalUint32Safe(cut) = Got(1 + Len(body), tail)
                /\ Len(tail) = k - WordLen /\ k - WordLen < 1 + Len(body)
<1> DEFINE n == 1 + Len(body)
<1> DEFINE frame == SendPacket(type, body)
<1> DEFINE typed == <<type>> \o body
<1> DEFINE cut == SubSeq(frame, 1, k)
<1>1. typed \in Seq(Bytes) /\ Len(typed) = n /\ n \in Nat /\ n > 0
  OBVIOUS
<1>2. MarshalUint32(n) \in Seq(Bytes) /\ Len(MarshalUint32(n)) = WordLen
  BY Uint32Bytes
<1>3. frame = MarshalUint32(n) \o typed
  BY <1>2, ConcatAssociative DEF SendPacket
<1> HIDE DEF frame, typed
<1>4. frame \in Seq(Bytes) /\ Len(frame) = WordLen + n
  BY <1>1, <1>2, <1>3, DropPrefix
<1>5. cut \in Seq(Bytes) /\ Len(cut) = k /\ k \in Nat /\ k > 0 /\ cut # <<>>
  BY <1>4 DEF WordLen, frame
<1>6. ASSUME k >= WordLen
      PROVE  \E tail \in Seq(Bytes) :
                /\ UnmarshalUint32Safe(cut) = Got(n, tail)
                /\ Len(tail) = k - WordLen /\ k - WordLen < n
  <2> DEFINE tail == SubSeq(typed, 1, k - WordLen)
  <2>1. tail \in Seq(Bytes) /\ Len(tail) = k - WordLen /\ k - WordLen < n
    BY <1>1, <1>4, <1>5, <1>6 DEF WordLen, frame
  <2>2. cut = MarshalUint32(n) \o tail
    <3> HIDE DEF n
    <3>1. k <= WordLen + n
      BY <1>1, <1>4, <1>5 DEF frame, WordLen
    <3> QED BY <1>1, <1>2, <1>3, <1>5, <1>6, <3>1, CutOfConcat
  <2>3. UnmarshalUint32Safe(cut) = Got(n, tail)
    BY <2>1, <2>2, Uint32RoundTrip
  <2> QED BY <2>1, <2>3
<1> QED BY <1>5, <1>6 DEF frame

\* A stream that ends inside a frame gives no packet: cut anywhere but before its first byte
\* it is an unexpected end, never a clean one.
THEOREM CutFrameIsNoPacket ==
  ASSUME NEW type \in Bytes, NEW body \in Seq(Bytes), 1 + Len(body) \in Uint32,
         1 + Len(body) <= MaxMsgLength,
         NEW k \in 1..(Len(SendPacket(type, body)) - 1)
  PROVE  RecvPacket(SubSeq(SendPacket(type, body), 1, k)).status = "unexpectedEOF"
<1> DEFINE n == 1 + Len(body)
<1> DEFINE cut == SubSeq(SendPacket(type, body), 1, k)
<1>1. n \in Nat /\ n > 0 /\ n <= MaxMsgLength
  OBVIOUS
<1>2. cut \in Seq(Bytes) /\ Len(cut) = k /\ k \in Nat /\ k > 0 /\ cut # <<>>
  BY CutHead
<1>3. CASE k < WordLen
  <2> HIDE DEF cut
  <2>1. RecvPacket(cut).status = "unexpectedEOF"
    BY <1>2, <1>3 DEF RecvPacket
  <2> QED BY <2>1 DEF cut
<1>4. CASE k >= WordLen
  <2>1. PICK tail \in Seq(Bytes) :
          UnmarshalUint32Safe(cut) = Got(n, tail) /\ Len(tail) = k - WordLen /\ k - WordLen < n
    BY <1>4, CutHead
  <2>2. ~ (n > MaxMsgLength) /\ n # 0 /\ n > Len(tail)
    BY <1>1, <1>2, <2>1, MaxMsgLengthAssumption DEF WordLen
  <2> HIDE DEF n, cut
  <2>3. RecvBody(Got(n, tail)).status = "unexpectedEOF"
    BY <2>2 DEF RecvBody, Got
  <2>4. RecvPacket(cut) = RecvBody(Got(n, tail))
    BY <1>2, <1>4, <2>1 DEF RecvPacket, WordLen
  <2> QED BY <2>3, <2>4 DEF cut
<1> QED BY <1>2, <1>3, <1>4 DEF WordLen

-----------------------------------------------------------------------------
(* Concatenations in parts.                                                *)

LEMMA TailsUnique ==
  ASSUME NEW n \in Nat, NEW seqs, NEW a, NEW b, Tails(seqs, n, a), Tails(seqs, n, b)
  PROVE  a[0] = b[0]
<1> DEFINE S == {k \in Nat : k <= n => a[n - k] = b[n - k]}
<1>1. 0 \in S
  <2>1. n - 0 = n
    OBVIOUS
  <2> QED BY <2>1 DEF Tails
<1>2. ASSUME NEW k \in Nat, k \in S PROVE k + 1 \in S
  <2> SUFFICES ASSUME k + 1 <= n PROVE a[n - (k + 1)] = b[n - (k + 1)]
    OBVIOUS
  <2>1. n - k \in 1..n /\ n - (k + 1) = (n - k) - 1
    OBVIOUS
  <2>2. a[(n - k) - 1] = seqs[n - k] \o a[n - k] /\ b[(n - k) - 1] = seqs[n - k] \o b[n - k]
    BY <2>1 DEF Tails
  <2>3. k <= n /\ a[n - k] = b[n - k]
    BY <1>2
  <2> QED BY <2>1, <2>2, <2>3
<1>3. n \in S
  <2> HIDE DEF S
  <2> QED BY <1>1, <1>2, SetInduction
<1>4. n - n = 0
  OBVIOUS
<1> QED BY <1>3, <1>4

LEMMA FlattenParts ==
  ASSUME NEW s \in Seq(Seq(Bytes)), NEW t \in Seq(Seq(Bytes))
  PROVE  FlattenSeq(s \o t) = FlattenSeq(s) \o FlattenSeq(t)
<1> DEFINE n == Len(s)
<1> DEFINE m == Len(t)
<1> DEFINE st == s \o t
<1>1. /\ n \in Nat /\ m \in Nat /\ st \in Seq(Seq(Bytes)) /\ Len(st) = n + m
      /\ \A i \in 1..n : st[i] = s[i]
      /\ \A i \in 1..m : st[n + i] = t[i]
  BY ConcatProperties
<1>2. PICK a : Tails(s, n, a) /\ a[0] = FlattenSeq(s)
  BY FlattenTails
<1>3. PICK b : Tails(t, m, b) /\ b[0] = FlattenSeq(t)
  BY FlattenTails
<1>4. PICK c : Tails(st, n + m, c) /\ c[0] = FlattenSeq(st)
  BY <1>1, FlattenTails
<1>5. /\ a \in [0..n -> Seq(Bytes)] /\ a[n] = <<>> /\ \A k \in 1..n : a[k - 1] = s[k] \o a[k]
      /\ b \in [0..m -> Seq(Bytes)] /\ b[m] = <<>> /\ \A k \in 1..m : b[k - 1] = t[k] \o b[k]
  BY <1>2, <1>3 DEF Tails
<1>a. \A k \in 1..n : s[k] \in Seq(Bytes)
  OBVIOUS
<1> HIDE DEF n, m, st
<1> DEFINE d == [k \in 0..(n + m) |-> IF k <= n THEN a[k] \o b[0] ELSE b[k - n]]
<1>6. \A k \in 0..n : d[k] = a[k] \o b[0] /\ d[k] \in Seq(Bytes)
  <2>1. \A k \in 0..n : k \in 0..(n + m) /\ k <= n
    BY <1>1
  <2>2. \A k \in 0..n : d[k] = a[k] \o b[0]
    BY <2>1
  <2>3. b[0] \in Seq(Bytes) /\ \A k \in 0..n : a[k] \in Seq(Bytes)
    BY <1>1, <1>5
  <2> HIDE DEF d
  <2> QED BY <2>2, <2>3, Concat
<1>7. \A j \in 0..m : d[n + j] = b[j]
  <2>1. ASSUME NEW j \in 0..m PROVE d[n + j] = b[j]
    <3>1. CASE j = 0
      <4>1. n \in 0..n /\ n + j = n
        BY <1>1, <3>1
      <4>2. d[n] = a[n] \o b[0] /\ b[0] \in Seq(Bytes)
        BY <1>1, <1>5, <1>6, <4>1
      <4> HIDE DEF d
      <4> QED BY <1>5, <3>1, <4>1, <4>2, ConcatEmptySeq
    <3>2. CASE j # 0
      <4>1. n + j \in 0..(n + m) /\ ~ (n + j <= n) /\ (n + j) - n = j
        BY <1>1, <3>2
      <4> QED BY <4>1
    <3> QED BY <3>1, <3>2
  <2> HIDE DEF d
  <2> QED BY <2>1
<1>8. d \in [0..(n + m) -> Seq(Bytes)]
  <2>1. ASSUME NEW k \in 0..(n + m) PROVE d[k] \in Seq(Bytes)
    <3>1. CASE k <= n
      <4>1. k \in 0..n
        BY <1>1, <3>1
      <4> HIDE DEF d
      <4> QED BY <1>6, <4>1
    <3>2. CASE ~ (k <= n)
      <4>1. k - n \in 0..m /\ n + (k - n) = k
        BY <1>1, <3>2
      <4>2. d[k] = b[k - n]
        BY <1>7, <4>1
      <4> HIDE DEF d
      <4> QED BY <1>5, <4>1, <4>2
    <3> QED BY <3>1, <3>2
  <2>2. d = [k \in 0..(n + m) |-> d[k]]
    OBVIOUS
  <2> HIDE DEF d
  <2> QED BY <2>1, <2>2
<1> HIDE DEF d
<1>9. ASSUME NEW k \in 1..(n + m) PROVE d[k - 1] = st[k] \o d[k]
  <2>1. CASE k <= n
    <3>1. k - 1 \in 0..n /\ k \in 0..n /\ k \in 1..n
      BY <1>1, <2>1
    <3>2. d[k - 1] = a[k - 1] \o b[0] /\ d[k] = a[k] \o b[0] /\ a[k - 1] = s[k] \o a[k] /\ st[k] = s[k]
      BY <1>1, <1>5, <1>6, <3>1
    <3>3. s[k] \in Seq(Bytes) /\ a[k] \in Seq(Bytes) /\ b[0] \in Seq(Bytes)
      <4>1. 0 \in 0..m
        BY <1>1
      <4> QED BY <1>5, <1>a, <3>1, <4>1
    <3>4. (s[k] \o a[k]) \o b[0] = s[k] \o (a[k] \o b[0])
      BY <3>3, Associative
    <3> QED BY <3>2, <3>4
  <2>2. CASE ~ (k <= n)
    <3>1. k - n \in 1..m /\ k - n \in 0..m /\ (k - n) - 1 \in 0..m /\ n + (k - n) = k
          /\ n + ((k - n) - 1) = k - 1
      BY <1>1, <2>2
    <3>2. d[k] = b[k - n] /\ d[k - 1] = b[(k - n) - 1] /\ st[k] = t[k - n]
      BY <1>1, <1>7, <3>1
    <3>3. b[(k - n) - 1] = t[k - n] \o b[k - n]
      BY <1>5, <3>1
    <3> QED BY <3>2, <3>3
  <2> QED BY <2>1, <2>2
<1>10. d[n + m] = <<>>
  <2>1. m \in 0..m
    BY <1>1
  <2> QED BY <1>5, <1>7, <2>1
<1>11. Tails(st, n + m, d)
  BY <1>8, <1>9, <1>10 DEF Tails
<1>12. d[0] = c[0]
  BY <1>1, <1>4, <1>11, TailsUnique
<1>13. d[0] = a[0] \o b[0]
  <2>1. 0 \in 0..n
    BY <1>1
  <2> QED BY <1>6, <2>1
<1> QED BY <1>2, <1>3, <1>4, <1>12, <1>13 DEF st

\* No part, one part, two parts.
LEMMA FlattenFew ==
  /\ FlattenSeq(<<>>) = <<>>
  /\ \A a \in Seq(Bytes) : FlattenSeq(<<a>>) = a
  /\ \A a, b \in Seq(Bytes) : FlattenSeq(<<a, b>>) = a \o b
<1>1. FlattenSeq(<<>>) = <<>>
  BY DEF FlattenSeq
<1>2. ASSUME NEW a \in Seq(Bytes) PROVE FlattenSeq(<<a>>) = a
  <2>1. <<a>> \in Seq(Seq(Bytes)) /\ Len(<<a>>) = 1 /\ <<a>>[1] = a
    OBVIOUS
  <2>2. PICK t : Tails(<<a>>, 1, t) /\ t[0] = FlattenSeq(<<a>>)
    BY <2>1, FlattenTails
  <2>3. 1 \in 1..1 /\ 1 - 1 = 0
    OBVIOUS
  <2>4. t[1] = <<>> /\ t[1 - 1] = <<a>>[1] \o t[1]
    BY <2>2, <2>3 DEF Tails
  <2> QED BY <2>1, <2>2, <2>3, <2>4, ConcatEmptySeq
<1>3. ASSUME NEW a \in Seq(Bytes), NEW b \in Seq(Bytes) PROVE FlattenSeq(<<a, b>>) = a \o b
  <2>1. <<a>> \in Seq(Seq(Bytes)) /\ <<b>> \in Seq(Seq(Bytes)) /\ <<a, b>> \in Seq(Seq(Bytes))
    OBVIOUS
  <2>a. <<a, b>> = <<a>> \o <<b>>
    <3>1. <<a>> \o <<b>> \in Seq(Seq(Bytes)) /\ Len(<<a>> \o <<b>>) = 2
      BY <2>1
    <3>2. (<<a>> \o <<b>>)[1] = a /\ (<<a>> \o <<b>>)[2] = b
      BY <2>1
    <3>3. Len(<<a, b>>) = 2 /\ <<a, b>>[1] = a /\ <<a, b>>[2] = b /\ \A i \in 1..2 : i = 1 \/ i = 2
      OBVIOUS
    <3>4. \A i \in 1..2 : <<a, b>>[i] = (<<a>> \o <<b>>)[i]
      BY <3>2, <3>3
    <3> QED BY <2>1, <3>1, <3>3, <3>4, SeqEqual
  <2>2. FlattenSeq(<<a>> \o <<b>>) = FlattenSeq(<<a>>) \o FlattenSeq(<<b>>)
    BY <2>1, FlattenParts
  <2>3. FlattenSeq(<<a>>) = a /\ FlattenSeq(<<b>>) = b
    BY <1>2
  <2> QED BY <2>a, <2>2, <2>3
<1> QED BY <1>1, <1>2, <1>3

-----------------------------------------------------------------------------
(* The two codecs encode alike.                                            *)

LEMMA FxNumbersSame ==
  /\ \A v \in Uint32 : AppendUint32(v) = MarshalUint32(v)
  /\ \A v \in Uint32 \X Uint32 : AppendUint64(v) = MarshalUint64(v)
<1>1. ASSUME NEW v \in Uint32 PROVE AppendUint32(v) = MarshalUint32(v)
  <2>a. v \in Int /\ 0 <= v /\ v < 65536
    BY DEF Uint32, Base
  <2>d. 0 <= v \div 256 /\ v \div 256 < 256 /\ v \div 256 \in Int
    BY <2>a
  <2>b. v \div 256 \in 0..255
    BY <2>d
  <2>c. \A x \in 0..255 : x % 256 = x
    OBVIOUS
  <2>1. (v \div 256) % 256 = v \div 256
    BY <2>b, <2>c
  <2> QED BY <2>1 DEF AppendUint32, MarshalUint32, Base
<1>2. ASSUME NEW v \in Uint32 \X Uint32 PROVE AppendUint64(v) = MarshalUint64(v)
  <2>1. v[1] \in Uint32 /\ v[2] \in Uint32
    OBVIOUS
  <2>2. AppendUint32(v[1]) = MarshalUint32(v[1]) /\ AppendUint32(v[2]) = MarshalUint32(v[2])
    BY <1>1, <2>1
  <2> QED BY <2>2 DEF AppendUint64, MarshalUint64
<1> QED BY <1>1, <1>2

LEMMA FxStringsSame ==
  \A s \in Texts : AppendByteSlice(s) = MarshalString(s)
<1> SUFFICES ASSUME NEW s \in Texts PROVE AppendByteSlice(s) = MarshalString(s)
  OBVIOUS
<1>1. Len(s) \in Uint32
  BY DEF Texts
<1>2. AppendUint32(Len(s)) = MarshalUint32(Len(s))
  BY <1>1, FxNumbersSame
<1> QED BY <1>2 DEF AppendByteSlice, MarshalString

LEMMA FxPairsSame ==
  \A v \in Seq(Pairs) : FxPairs(v) = MarshalPairs(v)
<1> SUFFICES ASSUME NEW v \in Seq(Pairs) PROVE FxPairs(v) = MarshalPairs(v)
  OBVIOUS
<1> DEFINE fx == [i \in DOMAIN v |-> AppendByteSlice(v[i][1]) \o AppendByteSlice(v[i][2])]
<1> DEFINE own == [i \in DOMAIN v |-> MarshalString(v[i][1]) \o MarshalString(v[i][2])]
<1>1. ASSUME NEW i \in DOMAIN v PROVE fx[i] = own[i]
  <2>1. v[i] \in Pairs
    BY ElementOfSeq
  <2>2. v[i][1] \in Texts /\ v[i][2] \in Texts
    BY <2>1 DEF Pairs
  <2>3. AppendByteSlice(v[i][1]) = MarshalString(v[i][1]) /\ AppendByteSlice(v[i][2]) = MarshalString(v[i][2])
    BY <2>2, FxStringsSame
  <2> QED BY <2>3
<1>2. fx = own
  BY <1>1
<1> HIDE DEF fx, own
<1>3. FxPairs(v) = FlattenSeq(fx) /\ MarshalPairs(v) = FlattenSeq(own)
  BY DEF FxPairs, MarshalPairs, fx, own
<1> QED BY <1>2, <1>3

\* The bytes of some of the fields of an ATTRS structure.
FieldBytes(fs, names) ==
  FlattenSeq([i \in DOMAIN names |-> MarshalBasic(TypeOf[names[i]], fs[names[i]])])

LEMMA FieldSeqs ==
  ASSUME NEW fs \in FileStats, NEW names \in Seq(AttrNames)
  PROVE  [i \in DOMAIN names |-> MarshalBasic(TypeOf[names[i]], fs[names[i]])] \in Seq(Seq(Bytes))
<1> DEFINE parts == [i \in DOMAIN names |-> MarshalBasic(TypeOf[names[i]], fs[names[i]])]
<1>1. DOMAIN names = 1..Len(names) /\ Len(names) \in Nat
  OBVIOUS
<1>2. ASSUME NEW i \in 1..Len(names)
      PROVE  MarshalBasic(TypeOf[names[i]], fs[names[i]]) \in Seq(Bytes)
  <2>1. names[i] \in AttrNames
    OBVIOUS
  <2>2. fs[names[i]] \in BasicValues(TypeOf[names[i]])
    BY <2>1, FieldTyped
  <2> QED BY <2>2, BasicRoundTrip
<1>3. parts \in [1..Len(names) -> Seq(Bytes)]
  BY <1>1, <1>2
<1> QED BY <1>1, <1>3

LEMMA FieldBytesBytes ==
  ASSUME NEW fs \in FileStats, NEW names \in Seq(AttrNames)
  PROVE  FieldBytes(fs, names) \in Seq(Bytes)
<1> DEFINE parts == [i \in DOMAIN names |-> MarshalBasic(TypeOf[names[i]], fs[names[i]])]
<1>1. parts \in Seq(Seq(Bytes))
  BY FieldSeqs
<1> HIDE DEF parts
<1>2. PICK t : Tails(parts, Len(parts), t) /\ t[0] = FlattenSeq(parts)
  BY <1>1, FlattenTails
<1>3. 0 \in 0..Len(parts)
  BY <1>1
<1>4. t[0] \in Seq(Bytes)
  BY <1>2, <1>3 DEF Tails
<1> QED BY <1>2, <1>4 DEF FieldBytes, parts

LEMMA FieldBytesConcat ==
  ASSUME NEW fs \in FileStats, NEW a \in Seq(AttrNames), NEW b \in Seq(AttrNames)
  PROVE  FieldBytes(fs, a \o b) = FieldBytes(fs, a) \o FieldBytes(fs, b)
<1> DEFINE enc(f) == MarshalBasic(TypeOf[f], fs[f])
<1> DEFINE pa == [i \in DOMAIN a |-> enc(a[i])]
<1> DEFINE pb == [i \in DOMAIN b |-> enc(b[i])]
<1> DEFINE pab == [i \in DOMAIN (a \o b) |-> enc((a \o b)[i])]
<1>1. pa \in Seq(Seq(Bytes)) /\ pb \in Seq(Seq(Bytes)) /\ pab \in Seq(Seq(Bytes))
  <2>1. a \o b \in Seq(AttrNames)
    OBVIOUS
  <2> QED BY <2>1, FieldSeqs
<1>2. /\ Len(a) \in Nat /\ Len(b) \in Nat /\ a \o b \in Seq(AttrNames) /\ Len(a \o b) = Len(a) + Len(b)
      /\ DOMAIN a = 1..Len(a) /\ DOMAIN b = 1..Len(b) /\ DOMAIN (a \o b) = 1..(Len(a) + Len(b))
      /\ \A i \in 1..Len(a) : (a \o b)[i] = a[i]
      /\ \A i \in (Len(a) + 1)..(Len(a) + Len(b)) : (a \o b)[i] = b[i - Len(a)]
  BY ConcatProperties
<1>3. \A i \in 1..Len(a) : pab[i] = pa[i]
  BY <1>2
<1>4. \A i \in (Len(a) + 1)..(Len(a) + Len(b)) : pab[i] = pb[i - Len(a)]
  <2>1. \A i \in (Len(a) + 1)..(Len(a) + Len(b)) : i - Len(a) \in 1..Len(b) /\ i \in 1..(Len(a) + Len(b))
    BY <1>2
  <2> QED BY <1>2, <2>1
<1>5. Len(pa) = Len(a) /\ Len(pb) = Len(b) /\ Len(pab) = Len(a) + Len(b)
  BY <1>2
<1> HIDE DEF pa, pb, pab
<1>6. pab = pa \o pb
  <2>a. Len(pa \o pb) = Len(pa) + Len(pb) /\ pa \o pb \in Seq(Seq(Bytes))
    BY <1>1, ConcatProperties
  <2>1. pa \o pb \in Seq(Seq(Bytes)) /\ Len(pa \o pb) = Len(a) + Len(b)
    BY <1>5, <2>a
  <2>2. \A i \in 1..(Len(a) + Len(b)) : (pa \o pb)[i] = IF i <= Len(a) THEN pa[i] ELSE pb[i - Len(a)]
    BY <1>1, <1>5
  <2>3. ASSUME NEW i \in 1..(Len(a) + Len(b)) PROVE (pa \o pb)[i] = pab[i]
    <3>1. CASE i <= Len(a)
      <4>1. i \in 1..Len(a)
        BY <1>2, <3>1
      <4> QED BY <1>3, <2>2, <3>1, <4>1
    <3>2. CASE ~ (i <= Len(a))
      <4>1. i \in (Len(a) + 1)..(Len(a) + Len(b))
        BY <1>2, <3>2
      <4> QED BY <1>4, <2>2, <3>2, <4>1
    <3> QED BY <3>1, <3>2
  <2> QED BY <1>1, <1>5, <2>1, <2>3, SeqEqual
<1>7. FlattenSeq(pab) = FlattenSeq(pa) \o FlattenSeq(pb)
  BY <1>1, <1>6, FlattenParts
<1> QED BY <1>7 DEF FieldBytes, pa, pb, pab

LEMMA FieldBytesFew ==
  ASSUME NEW fs \in FileStats
  PROVE  /\ FieldBytes(fs, <<>>) = <<>>
         /\ \A f \in AttrNames : FieldBytes(fs, <<f>>) = MarshalBasic(TypeOf[f], fs[f])
         /\ \A f, g \in AttrNames :
              FieldBytes(fs, <<f, g>>) = MarshalBasic(TypeOf[f], fs[f]) \o MarshalBasic(TypeOf[g], fs[g])
<1>0. \A f \in AttrNames : MarshalBasic(TypeOf[f], fs[f]) \in Seq(Bytes)
  BY FieldTyped, BasicRoundTrip
<1>1. FieldBytes(fs, <<>>) = <<>>
  <2>1. [i \in DOMAIN <<>> |-> MarshalBasic(TypeOf[<<>>[i]], fs[<<>>[i]])] = <<>>
    OBVIOUS
  <2> QED BY <2>1, FlattenFew DEF FieldBytes
<1>2. ASSUME NEW f \in AttrNames PROVE FieldBytes(fs, <<f>>) = MarshalBasic(TypeOf[f], fs[f])
  <2>1. [i \in DOMAIN <<f>> |-> MarshalBasic(TypeOf[<<f>>[i]], fs[<<f>>[i]])]
          = <<MarshalBasic(TypeOf[f], fs[f])>>
    OBVIOUS
  <2> QED BY <1>0, <2>1, FlattenFew DEF FieldBytes
<1>3. ASSUME NEW f \in AttrNames, NEW g \in AttrNames
      PROVE  FieldBytes(fs, <<f, g>>) = MarshalBasic(TypeOf[f], fs[f]) \o MarshalBasic(TypeOf[g], fs[g])
  <2>1. [i \in DOMAIN <<f, g>> |-> MarshalBasic(TypeOf[<<f, g>>[i]], fs[<<f, g>>[i]])]
          = <<MarshalBasic(TypeOf[f], fs[f]), MarshalBasic(TypeOf[g], fs[g])>>
    OBVIOUS
  <2> QED BY <1>0, <2>1, FlattenFew DEF FieldBytes
<1> QED BY <1>1, <1>2, <1>3

LEMMA FieldBytesWhen ==
  ASSUME NEW fs \in FileStats, NEW c \in BOOLEAN, NEW names \in Seq(AttrNames)
  PROVE  FieldBytes(fs, When(c, names)) = When(c, FieldBytes(fs, names))
<1>1. CASE c
  BY <1>1 DEF When
<1>2. CASE ~ c
  BY <1>2, FieldBytesFew DEF When
<1> QED BY <1>1, <1>2

LEMMA FieldBytesJoin ==
  \A fs \in FileStats : \A a, b \in Seq(AttrNames) :
    a \o b \in Seq(AttrNames) /\ FieldBytes(fs, a \o b) = FieldBytes(fs, a) \o FieldBytes(fs, b)
<1> TAKE fs \in FileStats
<1> TAKE a, b \in Seq(AttrNames)
<1>1. a \o b \in Seq(AttrNames)
  OBVIOUS
<1> QED BY <1>1, FieldBytesConcat

LEMMA AttrTypes ==
  /\ TypeOf["size"] = "uint64" /\ TypeOf["uid"] = "uint32" /\ TypeOf["gid"] = "uint32"
  /\ TypeOf["mode"] = "uint32" /\ TypeOf["atime"] = "uint32" /\ TypeOf["mtime"] = "uint32"
  /\ TypeOf["extended"] = "counted"
BY DEF TypeOf

LEMMA FlagsAreBoolean ==
  \A flags, bit : HasFlag(flags, bit) \in BOOLEAN
BY DEF HasFlag

LEMMA FixedFileStats ==
  \A fs \in FileStats :
    /\ fs.flags \in Uint32 /\ fs.size \in Uint32 \X Uint32 /\ fs.uid \in Uint32 /\ fs.gid \in Uint32
    /\ fs.mode \in Uint32 /\ fs.atime \in Uint32 /\ fs.mtime \in Uint32
    /\ fs.extended \in Counted(Pairs)
BY DEF FileStats

LEMMA FxAttrsSame ==
  \A fs \in FileStats : FxMarshalInto(fs) = MarshalFileStat(fs)
<1> SUFFICES ASSUME NEW fs \in FileStats PROVE FxMarshalInto(fs) = MarshalFileStat(fs)
  OBVIOUS
<1> DEFINE c1 == HasFlag(fs.flags, AttrSize)
<1> DEFINE c2 == HasFlag(fs.flags, AttrUIDGID)
<1> DEFINE c3 == HasFlag(fs.flags, AttrPermissions)
<1> DEFINE c4 == HasFlag(fs.flags, AttrACmodTime)
<1> DEFINE c5 == HasFlag(fs.flags, AttrExtended)
<1>1. c1 \in BOOLEAN /\ c2 \in BOOLEAN /\ c3 \in BOOLEAN /\ c4 \in BOOLEAN /\ c5 \in BOOLEAN
  BY FlagsAreBoolean
<1>2. /\ FieldBytes(fs, <<"size">>) = AppendUint64(fs.size)
      /\ FieldBytes(fs, <<"uid", "gid">>) = AppendUint32(fs.uid) \o AppendUint32(fs.gid)
      /\ FieldBytes(fs, <<"mode">>) = AppendUint32(fs.mode)
      /\ FieldBytes(fs, <<"atime", "mtime">>) = AppendUint32(fs.atime) \o AppendUint32(fs.mtime)
      /\ FieldBytes(fs, <<"extended">>) = AppendUint32(Len(fs.extended)) \o FxPairs(fs.extended)
  <2>1. /\ fs.size \in Uint32 \X Uint32 /\ fs.uid \in Uint32 /\ fs.gid \in Uint32
        /\ fs.mode \in Uint32 /\ fs.atime \in Uint32 /\ fs.mtime \in Uint32
        /\ fs.extended \in Seq(Pairs) /\ Len(fs.extended) \in Uint32
    BY FixedFileStats DEF Counted
  <2>2. /\ AppendUint64(fs.size) = MarshalUint64(fs.size) /\ AppendUint32(fs.uid) = MarshalUint32(fs.uid)
        /\ AppendUint32(fs.gid) = MarshalUint32(fs.gid) /\ AppendUint32(fs.mode) = MarshalUint32(fs.mode)
        /\ AppendUint32(fs.atime) = MarshalUint32(fs.atime)
        /\ AppendUint32(fs.mtime) = MarshalUint32(fs.mtime)
        /\ AppendUint32(Len(fs.extended)) = MarshalUint32(Len(fs.extended))
        /\ FxPairs(fs.extended) = MarshalPairs(fs.extended)
    BY <2>1, FxNumbersSame, FxPairsSame
  <2>3. /\ MarshalBasic(TypeOf["size"], fs["size"]) = MarshalUint64(fs.size)
        /\ MarshalBasic(TypeOf["uid"], fs["uid"]) = MarshalUint32(fs.uid)
        /\ MarshalBasic(TypeOf["gid"], fs["gid"]) = MarshalUint32(fs.gid)
        /\ MarshalBasic(TypeOf["mode"], fs["mode"]) = MarshalUint32(fs.mode)
        /\ MarshalBasic(TypeOf["atime"], fs["atime"]) = MarshalUint32(fs.atime)
        /\ MarshalBasic(TypeOf["mtime"], fs["mtime"]) = MarshalUint32(fs.mtime)
        /\ MarshalBasic(TypeOf["extended"], fs["extended"])
             = MarshalUint32(Len(fs.extended)) \o MarshalPairs(fs.extended)
    BY AttrTypes DEF MarshalBasic
  <2>4. /\ "size" \in AttrNames /\ "uid" \in AttrNames /\ "gid" \in AttrNames /\ "mode" \in AttrNames
        /\ "atime" \in AttrNames /\ "mtime" \in AttrNames /\ "extended" \in AttrNames
    BY DEF AttrNames
  <2>5. /\ FieldBytes(fs, <<"size">>) = MarshalBasic(TypeOf["size"], fs["size"])
        /\ FieldBytes(fs, <<"mode">>) = MarshalBasic(TypeOf["mode"], fs["mode"])
        /\ FieldBytes(fs, <<"extended">>) = MarshalBasic(TypeOf["extended"], fs["extended"])
        /\ FieldBytes(fs, <<"uid", "gid">>)
             = MarshalBasic(TypeOf["uid"], fs["uid"]) \o MarshalBasic(TypeOf["gid"], fs["gid"])
        /\ FieldBytes(fs, <<"atime", "mtime">>)
             = MarshalBasic(TypeOf["atime"], fs["atime"]) \o MarshalBasic(TypeOf["mtime"], fs["mtime"])
    BY <2>4, FieldBytesFew
  <2> QED BY <2>2, <2>3, <2>5
<1>3. /\ <<"size">> \in Seq(AttrNames) /\ <<"uid", "gid">> \in Seq(AttrNames)
      /\ <<"mode">> \in Seq(AttrNames) /\ <<"atime", "mtime">> \in Seq(AttrNames)
      /\ <<"extended">> \in Seq(AttrNames)
  BY DEF AttrNames
<1>4. \A c \in BOOLEAN, s \in Seq(AttrNames) : When(c, s) \in Seq(AttrNames)
  BY DEF When
<1>5. \A c \in BOOLEAN, s \in Seq(AttrNames) :
        FieldBytes(fs, When(c, s)) = When(c, FieldBytes(fs, s)) /\ FieldBytes(fs, When(c, s)) \in Seq(Bytes)
  BY <1>4, FieldBytesWhen, FieldBytesBytes
<1> DEFINE A == When(c1, AppendUint64(fs.size))
<1> DEFINE B == When(c2, AppendUint32(fs.uid) \o AppendUint32(fs.gid))
<1> DEFINE C == When(c3, AppendUint32(fs.mode))
<1> DEFINE D == When(c4, AppendUint32(fs.atime) \o AppendUint32(fs.mtime))
<1> DEFINE E == When(c5, AppendUint32(Len(fs.extended)) \o FxPairs(fs.extended))
<1> DEFINE U == AppendUint32(fs.flags)
<1> HIDE DEF c1, c2, c3, c4, c5
<1> DEFINE sa == <<"size">>
<1> DEFINE sb == <<"uid", "gid">>
<1> DEFINE sc == <<"mode">>
<1> DEFINE sd == <<"atime", "mtime">>
<1> DEFINE se == <<"extended">>
<1>6. /\ FieldBytes(fs, When(c1, sa)) = A /\ A \in Seq(Bytes)
      /\ FieldBytes(fs, When(c2, sb)) = B /\ B \in Seq(Bytes)
      /\ FieldBytes(fs, When(c3, sc)) = C /\ C \in Seq(Bytes)
      /\ FieldBytes(fs, When(c4, sd)) = D /\ D \in Seq(Bytes)
      /\ FieldBytes(fs, When(c5, se)) = E /\ E \in Seq(Bytes)
  <2>1. /\ A = When(c1, FieldBytes(fs, sa)) /\ B = When(c2, FieldBytes(fs, sb))
        /\ C = When(c3, FieldBytes(fs, sc)) /\ D = When(c4, FieldBytes(fs, sd))
        /\ E = When(c5, FieldBytes(fs, se))
    BY <1>2
  <2> HIDE DEF sa, sb, sc, sd, se, A, B, C, D, E
  <2>2. FieldBytes(fs, When(c1, sa)) = A /\ A \in Seq(Bytes)
    BY <1>1, <1>3, <1>5, <2>1 DEF sa
  <2>3. FieldBytes(fs, When(c2, sb)) = B /\ B \in Seq(Bytes)
    BY <1>1, <1>3, <1>5, <2>1 DEF sb
  <2>4. FieldBytes(fs, When(c3, sc)) = C /\ C \in Seq(Bytes)
    BY <1>1, <1>3, <1>5, <2>1 DEF sc
  <2>5. FieldBytes(fs, When(c4, sd)) = D /\ D \in Seq(Bytes)
    BY <1>1, <1>3, <1>5, <2>1 DEF sd
  <2>6. FieldBytes(fs, When(c5, se)) = E /\ E \in Seq(Bytes)
    BY <1>1, <1>3, <1>5, <2>1 DEF se
  <2> QED BY <2>2, <2>3, <2>4, <2>5, <2>6
<1>7. FieldBytes(fs, FileStatFields(fs.flags)) = A \o B \o C \o D \o E
  <2> DEFINE wa == When(c1, sa)
  <2> DEFINE wb == When(c2, sb)
  <2> DEFINE wc == When(c3, sc)
  <2> DEFINE wd == When(c4, sd)
  <2> DEFINE we == When(c5, se)
  <2>1. FileStatFields(fs.flags) = wa \o wb \o wc \o wd \o we
    BY DEF FileStatFields, c1, c2, c3, c4, c5
  <2>2. /\ wa \in Seq(AttrNames) /\ wb \in Seq(AttrNames) /\ wc \in Seq(AttrNames)
        /\ wd \in Seq(AttrNames) /\ we \in Seq(AttrNames)
    BY <1>1, <1>3, <1>4
  <2>3. /\ FieldBytes(fs, wa) = A /\ FieldBytes(fs, wb) = B /\ FieldBytes(fs, wc) = C
        /\ FieldBytes(fs, wd) = D /\ FieldBytes(fs, we) = E
    BY <1>6
  <2> HIDE DEF A, B, C, D, E, wa, wb, wc, wd, we
  <2>4. FieldBytes(fs, wa \o wb) = A \o B /\ wa \o wb \in Seq(AttrNames)
    <3>1. wa \in Seq(AttrNames) /\ wb \in Seq(AttrNames)
      BY <2>2
    <3>2. FieldBytes(fs, wa) = A /\ FieldBytes(fs, wb) = B
      BY <2>3
    <3> QED BY <3>1, <3>2, FieldBytesJoin
  <2> DEFINE wab == wa \o wb
  <2> HIDE DEF wab
  <2>5. FieldBytes(fs, wab \o wc) = (A \o B) \o C /\ wab \o wc \in Seq(AttrNames)
    <3>1. wab \in Seq(AttrNames) /\ FieldBytes(fs, wab) = A \o B
      BY <2>4 DEF wab
    <3>2. wc \in Seq(AttrNames) /\ FieldBytes(fs, wc) = C
      BY <2>2, <2>3
    <3> QED BY <3>1, <3>2, FieldBytesJoin
  <2> DEFINE wabc == wab \o wc
  <2> HIDE DEF wabc
  <2>6. FieldBytes(fs, wabc \o wd) = ((A \o B) \o C) \o D /\ wabc \o wd \in Seq(AttrNames)
    <3>1. wabc \in Seq(AttrNames) /\ FieldBytes(fs, wabc) = (A \o B) \o C
      BY <2>5 DEF wabc
    <3>2. wd \in Seq(AttrNames) /\ FieldBytes(fs, wd) = D
      BY <2>2, <2>3
    <3> QED BY <3>1, <3>2, FieldBytesJoin
  <2> DEFINE wabcd == wabc \o wd
  <2> HIDE DEF wabcd
  <2>7. FieldBytes(fs, wabcd \o we) = (((A \o B) \o C) \o D) \o E
    <3>1. wabcd \in Seq(AttrNames) /\ FieldBytes(fs, wabcd) = ((A \o B) \o C) \o D
      BY <2>6 DEF wabcd
    <3>2. we \in Seq(AttrNames) /\ FieldBytes(fs, we) = E
      BY <2>2, <2>3
    <3> QED BY <3>1, <3>2, FieldBytesJoin
  <2> QED BY <2>1, <2>7 DEF wab, wabc, wabcd
<1>8. U = MarshalUint32(fs.flags) /\ U \in Seq(Bytes)
  BY FixedFileStats, FxNumbersSame, Uint32Bytes
<1>9. FxMarshalInto(fs) = U \o A \o B \o C \o D \o E
  BY DEF FxMarshalInto, c1, c2, c3, c4, c5
<1>10. MarshalFileStat(fs) = U \o FieldBytes(fs, FileStatFields(fs.flags))
  BY <1>8 DEF MarshalFileStat, FieldBytes
<1>m. /\ A \in Seq(Bytes) /\ B \in Seq(Bytes) /\ C \in Seq(Bytes) /\ D \in Seq(Bytes)
      /\ E \in Seq(Bytes) /\ U \in Seq(Bytes)
  BY <1>6, <1>8
<1> HIDE DEF A, B, C, D, E, U
<1>11. U \o (A \o B \o C \o D \o E) = U \o A \o B \o C \o D \o E
  <2> DEFINE AB == A \o B
  <2> DEFINE ABC == AB \o C
  <2> DEFINE ABCD == ABC \o D
  <2>1. AB \in Seq(Bytes)
    BY <1>m, Concat
  <2>2. ABC \in Seq(Bytes)
    <3> HIDE DEF AB
    <3> QED BY <1>m, <2>1, Concat
  <2>3. ABCD \in Seq(Bytes)
    <3> HIDE DEF ABC
    <3> QED BY <1>m, <2>2, Concat
  <2> DEFINE Joins(x, y) == U \o (x \o y) = (U \o x) \o y
  <2>4. \A x, y \in Seq(Bytes) : Joins(x, y)
    <3>1. U \in Seq(Bytes)
      BY <1>m
    <3> QED BY <3>1, Associative
  <2> HIDE DEF Joins
  <2>5. Joins(A, B) /\ Joins(AB, C) /\ Joins(ABC, D) /\ Joins(ABCD, E)
    <3> HIDE DEF AB, ABC, ABCD
    <3> QED BY <1>m, <2>1, <2>2, <2>3, <2>4
  <2> QED BY <2>5 DEF Joins
<1> QED BY <1>7, <1>9, <1>10, <1>11

LEMMA FxEntriesSame ==
  \A v \in Seq(Entries) : FlattenSeq([i \in DOMAIN v |-> FxNameEntry(v[i])]) = MarshalNames(v)
<1> SUFFICES ASSUME NEW v \in Seq(Entries)
             PROVE  FlattenSeq([i \in DOMAIN v |-> FxNameEntry(v[i])]) = MarshalNames(v)
  OBVIOUS
<1> DEFINE fx == [i \in DOMAIN v |-> FxNameEntry(v[i])]
<1> DEFINE own == [i \in DOMAIN v |-> MarshalNameAttr(v[i])]
<1>1. ASSUME NEW i \in DOMAIN v PROVE fx[i] = own[i]
  <2>1. v[i] \in Entries
    BY ElementOfSeq
  <2>2. v[i].filename \in Texts /\ v[i].longname \in Texts /\ v[i].attrs \in FileStats
    BY <2>1 DEF Entries
  <2>3. /\ AppendByteSlice(v[i].filename) = MarshalString(v[i].filename)
        /\ AppendByteSlice(v[i].longname) = MarshalString(v[i].longname)
        /\ FxMarshalInto(v[i].attrs) = MarshalFileStat(v[i].attrs)
    BY <2>2, FxStringsSame, FxAttrsSame
  <2> QED BY <2>3 DEF FxNameEntry, MarshalNameAttr
<1>2. fx = own
  BY <1>1
<1> HIDE DEF fx, own
<1>3. MarshalNames(v) = FlattenSeq(own)
  BY DEF MarshalNames, own
<1> QED BY <1>2, <1>3 DEF fx

\* Every value that a field may hold has the same bytes in both codecs.
THEOREM EncodersAgree ==
  ASSUME NEW f \in DOMAIN TypeOf \ {"extended"}, NEW v \in Values(TypeOf[f])
  PROVE  FxMarshal(TypeOf[f], v) = Marshal(TypeOf[f], v)
<1>1. TypeOf[f] \in {"uint32", "uint64", "string", "pairs", "attrs", "names"}
  BY DEF TypeOf
<1>2. CASE TypeOf[f] = "uint32"
  BY <1>2, FxNumbersSame DEF FxMarshal, Marshal, MarshalBasic, Values, BasicValues
<1>3. CASE TypeOf[f] = "uint64"
  BY <1>3, FxNumbersSame DEF FxMarshal, Marshal, MarshalBasic, Values, BasicValues
<1>4. CASE TypeOf[f] = "string"
  BY <1>4, FxStringsSame DEF FxMarshal, Marshal, MarshalBasic, Values, BasicValues
<1>5. CASE TypeOf[f] = "pairs"
  BY <1>5, FxPairsSame DEF FxMarshal, Marshal, MarshalBasic, Values
<1>6. CASE TypeOf[f] = "attrs"
  BY <1>6, FxAttrsSame DEF FxMarshal, Marshal, Values
<1>7. CASE TypeOf[f] = "names"
  <2>1. v \in Seq(Entries) /\ Len(v) \in Uint32
    BY <1>7 DEF Values, Counted
  <2>2. FxMarshal("names", v) = AppendUint32(Len(v)) \o FlattenSeq([i \in DOMAIN v |-> FxNameEntry(v[i])])
    BY DEF FxMarshal
  <2>3. Marshal("names", v) = MarshalUint32(Len(v)) \o MarshalNames(v)
    BY DEF Marshal, MarshalNames
  <2>4. AppendUint32(Len(v)) = MarshalUint32(Len(v))
    BY <2>1, FxNumbersSame
  <2>5. FlattenSeq([i \in DOMAIN v |-> FxNameEntry(v[i])]) = MarshalNames(v)
    BY <2>1, FxEntriesSame
  <2> QED BY <1>7, <2>2, <2>3, <2>4, <2>5
<1> QED BY <1>1, <1>2, <1>3, <1>4, <1>5, <1>6, <1>7

LEMMA FxFrameSame ==
  \A type, body : 1 + Len(body) \in Uint32 => FxPacket(type, body) = SendPacket(type, body)
BY FxNumbersSame DEF FxPacket, SendPacket

-----------------------------------------------------------------------------
(* A decoder that succeeds has read the bytes of its value.                *)

LEMMA SplitBytes ==
  ASSUME NEW b \in Seq(Bytes), NEW n \in 0..Len(b)
  PROVE  /\ SubSeq(b, 1, n) \in Seq(Bytes) /\ Len(SubSeq(b, 1, n)) = n
         /\ Drop(b, n) \in Seq(Bytes) /\ Len(Drop(b, n)) = Len(b) - n
         /\ b = SubSeq(b, 1, n) \o Drop(b, n)
<1> DEFINE x == SubSeq(b, 1, n)
<1> DEFINE y == Drop(b, n)
<1>1. /\ Len(b) \in Nat /\ x \in Seq(Bytes) /\ Len(x) = n /\ y \in Seq(Bytes) /\ Len(y) = Len(b) - n
      /\ \A i \in 1..n : x[i] = b[i]
      /\ \A i \in 1..(Len(b) - n) : y[i] = b[n + i]
  BY DEF Drop
<1> HIDE DEF x, y
<1>2. x \o y \in Seq(Bytes) /\ Len(x \o y) = Len(b)
  BY <1>1, Concat
<1>3. \A i \in 1..Len(b) : (x \o y)[i] = IF i <= n THEN x[i] ELSE y[i - n]
  BY <1>1
<1>4. ASSUME NEW i \in 1..Len(b) PROVE (x \o y)[i] = b[i]
  <2>1. CASE i <= n
    <3>1. i \in 1..n
      BY <2>1
    <3> QED BY <1>1, <1>3, <2>1, <3>1
  <2>2. CASE ~ (i <= n)
    <3>1. i - n \in 1..(Len(b) - n) /\ n + (i - n) = i
      BY <1>1, <2>2
    <3> QED BY <1>1, <1>3, <2>2, <3>1
  <2> QED BY <2>1, <2>2
<1>5. x \o y = b
  BY <1>1, <1>2, <1>4, SeqEqual
<1> QED BY <1>1, <1>5 DEF x, y

LEMMA DropTwice ==
  ASSUME NEW b \in Seq(Bytes), NEW m \in Nat, NEW n \in Nat, m + n <= Len(b)
  PROVE  /\ \A i \in 1..(Len(b) - m) : Drop(b, m)[i] = b[m + i]
         /\ Drop(Drop(b, m), n) = Drop(b, m + n)
<1> DEFINE c == Drop(b, m)
<1> DEFINE d == Drop(c, n)
<1> DEFINE e == Drop(b, m + n)
<1>1. /\ Len(b) \in Nat /\ c \in Seq(Bytes) /\ Len(c) = Len(b) - m
      /\ \A i \in 1..(Len(b) - m) : c[i] = b[m + i]
  <2>1. Len(b) \in Nat /\ m \in 0..Len(b)
    OBVIOUS
  <2>2. c \in Seq(Bytes) /\ Len(c) = Len(b) - m
    BY <2>1, SplitBytes
  <2>3. \A i \in 1..(Len(b) - m) : c[i] = b[m + i]
    BY <2>1 DEF Drop
  <2> QED BY <2>1, <2>2, <2>3
<1>2. /\ e \in Seq(Bytes) /\ Len(e) = Len(b) - (m + n)
      /\ \A i \in 1..(Len(b) - (m + n)) : e[i] = b[(m + n) + i]
  BY DEF Drop
<1> HIDE DEF c
<1>3. /\ d \in Seq(Bytes) /\ Len(d) = Len(b) - (m + n)
      /\ \A i \in 1..(Len(b) - (m + n)) : d[i] = c[n + i]
  BY <1>1 DEF Drop
<1> HIDE DEF d, e
<1>4. ASSUME NEW i \in 1..(Len(b) - (m + n)) PROVE d[i] = e[i]
  <2>1. n + i \in 1..(Len(b) - m) /\ m + (n + i) = (m + n) + i
    BY <1>1
  <2> QED BY <1>1, <1>2, <1>3, <2>1
<1>5. d = e
  BY <1>2, <1>3, <1>4, SeqEqual
<1> QED BY <1>1, <1>5 DEF c, d, e

\* What a decoder makes of bytes, when it does not fail.
Exactly(u, b, type) ==
  \/ u = Short
  \/ \E v \in Values(type), rest \in Seq(Bytes) : u = Got(v, rest) /\ b = Marshal(type, v) \o rest

LEMMA WordOfBytes ==
  ASSUME NEW x \in Bytes, NEW y \in Bytes
  PROVE  x * Base + y \in Uint32 /\ MarshalUint32(x * Base + y) = <<x, y>>
<1> DEFINE v == x * 256 + y
<1>1. x \in Int /\ y \in Int /\ 0 <= x /\ x < 256 /\ 0 <= y /\ y < 256
  BY DEF Bytes, Base
<1>2. v \div 256 = x
  BY <1>1
<1>3. v % 256 = y
  BY <1>1
<1>4. v \in Int /\ 0 <= v /\ v < 65536
  BY <1>1
<1> HIDE DEF v
<1>5. v \in Uint32 /\ MarshalUint32(v) = <<x, y>>
  <2>1. v \in Uint32
    <3>1. \A w, n \in Int : 0 <= w /\ w <= n => w \in 0..n
      OBVIOUS
    <3>2. Base * Base - 1 \in Int /\ v <= Base * Base - 1
      BY <1>4 DEF Base
    <3> QED BY <1>4, <3>1, <3>2 DEF Uint32
  <2>2. MarshalUint32(v) = <<x, y>>
    BY <1>2, <1>3 DEF MarshalUint32, Base
  <2> QED BY <2>1, <2>2
<1>6. v = x * Base + y
  BY <1>1 DEF v, Base
<1> QED BY <1>5, <1>6

LEMMA Uint32Exact ==
  ASSUME NEW b \in Seq(Bytes)
  PROVE  \/ Len(b) < WordLen /\ UnmarshalUint32Safe(b) = Short
         \/ \E v \in Uint32, rest \in Seq(Bytes) :
              /\ UnmarshalUint32Safe(b) = Got(v, rest) /\ b = MarshalUint32(v) \o rest
              /\ v = b[1] * Base + b[2] /\ rest = Drop(b, WordLen) /\ Len(rest) = Len(b) - WordLen
<1>1. CASE Len(b) < WordLen
  BY <1>1 DEF UnmarshalUint32Safe
<1>2. CASE ~ (Len(b) < WordLen)
  <2> DEFINE v == b[1] * Base + b[2]
  <2>1. Len(b) \in Nat /\ Len(b) >= 2 /\ WordLen = 2 /\ b[1] \in Bytes /\ b[2] \in Bytes
    BY <1>2 DEF WordLen
  <2>2. v \in Uint32 /\ MarshalUint32(v) = <<b[1], b[2]>>
    BY <2>1, WordOfBytes
  <2>3. 2 \in 0..Len(b)
    BY <2>1
  <2>4. /\ Drop(b, 2) \in Seq(Bytes) /\ b = SubSeq(b, 1, 2) \o Drop(b, 2)
        /\ Len(Drop(b, 2)) = Len(b) - 2
    BY <2>3, SplitBytes
  <2>5. SubSeq(b, 1, 2) = <<b[1], b[2]>>
    <3>1. SubSeq(b, 1, 2) \in Seq(Bytes) /\ Len(SubSeq(b, 1, 2)) = 2
          /\ SubSeq(b, 1, 2)[1] = b[1] /\ SubSeq(b, 1, 2)[2] = b[2]
      BY <2>1
    <3>2. <<b[1], b[2]>> \in Seq(Bytes) /\ Len(<<b[1], b[2]>>) = 2
      BY <2>1
    <3>3. \A i \in 1..2 : i = 1 \/ i = 2
      OBVIOUS
    <3>4. \A i \in 1..2 : SubSeq(b, 1, 2)[i] = <<b[1], b[2]>>[i]
      BY <3>1, <3>3
    <3> QED BY <3>1, <3>2, <3>4, SeqEqual
  <2>6. UnmarshalUint32Safe(b) = Got(v, Drop(b, 2))
    BY <1>2, <2>1 DEF UnmarshalUint32Safe
  <2> HIDE DEF v
  <2>7. b = MarshalUint32(v) \o Drop(b, 2)
    BY <2>2, <2>4, <2>5
  <2>8. v = b[1] * Base + b[2]
    BY DEF v
  <2> QED BY <2>1, <2>2, <2>4, <2>6, <2>7, <2>8
<1> QED BY <1>1, <1>2

LEMMA Uint64Exact ==
  ASSUME NEW b \in Seq(Bytes)
  PROVE  \/ Len(b) < 2 * WordLen /\ UnmarshalUint64Safe(b) = Short
         \/ \E v \in Uint32 \X Uint32, rest \in Seq(Bytes) :
              /\ UnmarshalUint64Safe(b) = Got(v, rest) /\ b = MarshalUint64(v) \o rest
              /\ Len(b) >= 2 * WordLen /\ rest = Drop(b, 2 * WordLen)
              /\ v = <<b[1] * Base + b[2], b[3] * Base + b[4]>>
<1>1. CASE Len(b) < 2 * WordLen
  BY <1>1 DEF UnmarshalUint64Safe
<1>2. CASE ~ (Len(b) < 2 * WordLen)
  <2>1. Len(b) \in Nat /\ Len(b) >= 4 /\ WordLen = 2 /\ 2 * WordLen = 4
    BY <1>2 DEF WordLen
  <2>2. PICK x \in Uint32, c \in Seq(Bytes) :
          /\ b = MarshalUint32(x) \o c /\ x = b[1] * Base + b[2] /\ c = Drop(b, 2)
          /\ Len(c) = Len(b) - 2
    <3>1. ~ (Len(b) < WordLen)
      BY <2>1
    <3> QED BY <2>1, <3>1, Uint32Exact
  <2>3. PICK y \in Uint32, d \in Seq(Bytes) :
          c = MarshalUint32(y) \o d /\ y = c[1] * Base + c[2] /\ d = Drop(c, 2)
    <3>a. Len(c) = Len(b) - 2
      BY <2>2
    <3>1. ~ (Len(c) < WordLen)
      BY <2>1, <3>a
    <3> QED BY <2>1, <3>1, Uint32Exact
  <2>a. 2 \in Nat /\ 2 + 2 <= Len(b) /\ 1 \in 1..(Len(b) - 2) /\ 2 \in 1..(Len(b) - 2)
    BY <2>1
  <2>b. /\ \A i \in 1..(Len(b) - 2) : Drop(b, 2)[i] = b[2 + i]
        /\ Drop(Drop(b, 2), 2) = Drop(b, 2 + 2)
    BY <2>a, DropTwice
  <2>4. c[1] = b[3] /\ c[2] = b[4]
    <3>1. Drop(b, 2)[1] = b[2 + 1] /\ Drop(b, 2)[2] = b[2 + 2] /\ 2 + 1 = 3 /\ 2 + 2 = 4
      BY <2>a, <2>b
    <3> QED BY <2>2, <3>1
  <2>5. d = Drop(b, 4)
    <3>1. 2 + 2 = 4
      OBVIOUS
    <3> QED BY <2>2, <2>3, <2>b, <3>1
  <2>6. UnmarshalUint64Safe(b) = Got(<<x, y>>, d)
    BY <1>2, <2>1, <2>2, <2>3, <2>4, <2>5 DEF UnmarshalUint64Safe
  <2>7. MarshalUint64(<<x, y>>) \o d = b
    <3>1. MarshalUint32(x) \in Seq(Bytes) /\ MarshalUint32(y) \in Seq(Bytes)
      BY Uint32Bytes
    <3>2. (MarshalUint32(x) \o MarshalUint32(y)) \o d = MarshalUint32(x) \o (MarshalUint32(y) \o d)
      BY <3>1, Associative
    <3> QED BY <2>2, <2>3, <3>2 DEF MarshalUint64
  <2>8. <<x, y>> \in Uint32 \X Uint32
    OBVIOUS
  <2>9. <<x, y>> = <<b[1] * Base + b[2], b[3] * Base + b[4]>>
    BY <2>2, <2>3, <2>4
  <2> QED BY <2>1, <2>5, <2>6, <2>7, <2>8, <2>9
<1> QED BY <1>1, <1>2

LEMMA StringExact ==
  ASSUME NEW b \in Seq(Bytes)
  PROVE  \/ UnmarshalStringSafe(b) = Short
         \/ \E v \in Texts, rest \in Seq(Bytes) :
              UnmarshalStringSafe(b) = Got(v, rest) /\ b = MarshalString(v) \o rest
<1>1. CASE UnmarshalUint32Safe(b) = Short
  BY <1>1 DEF UnmarshalStringSafe, TakeCounted, Short
<1>2. CASE ~ (UnmarshalUint32Safe(b) = Short)
  <2>1. PICK n \in Uint32, c \in Seq(Bytes) :
          UnmarshalUint32Safe(b) = Got(n, c) /\ b = MarshalUint32(n) \o c
    BY <1>2, Uint32Exact
  <2>2. UnmarshalStringSafe(b)
          = IF n > Len(c) THEN Short ELSE Got(SubSeq(c, 1, n), Drop(c, n))
    BY <2>1 DEF UnmarshalStringSafe, TakeCounted, Got
  <2>3. CASE n > Len(c)
    BY <2>2, <2>3
  <2>4. CASE ~ (n > Len(c))
    <3> DEFINE s == SubSeq(c, 1, n)
    <3> DEFINE d == Drop(c, n)
    <3>1. n \in Nat /\ Len(c) \in Nat
      BY DEF Uint32
    <3>2. n \in 0..Len(c)
      BY <2>4, <3>1
    <3>3. s \in Seq(Bytes) /\ Len(s) = n /\ d \in Seq(Bytes) /\ c = s \o d
      BY <3>2, SplitBytes
    <3>4. UnmarshalStringSafe(b) = Got(s, d)
      BY <2>2, <2>4
    <3> HIDE DEF s, d
    <3>5. s \in Texts
      BY <3>3 DEF Texts
    <3>6. MarshalUint32(n) \in Seq(Bytes)
      BY Uint32Bytes
    <3>7. (MarshalUint32(n) \o s) \o d = MarshalUint32(n) \o (s \o d)
      BY <3>3, <3>6, Associative
    <3>8. b = MarshalString(s) \o d
      BY <2>1, <3>3, <3>7 DEF MarshalString
    <3> QED BY <3>3, <3>4, <3>5, <3>8
  <2> QED BY <2>3, <2>4
<1> QED BY <1>1, <1>2

LEMMA ShortFields == Short.failed = TRUE /\ Short.v = <<>> /\ Short.rest = <<>>
BY DEF Short

LEMMA NothingAfterShort ==
  /\ \A u : AndThen(Short, u) = Short
  /\ \A r : AndThen(r, Short) = Short
  /\ AndString(Short) = Short /\ UnmarshalPair(Short) = Short
BY DEF AndThen, Short, AndString, UnmarshalPair

LEMMA AndStringExact ==
  ASSUME NEW vs, NEW b \in Seq(Bytes)
  PROVE  \/ AndString(Got(vs, b)) = Short
         \/ \E v \in Texts, rest \in Seq(Bytes) :
              AndString(Got(vs, b)) = Got(Append(vs, v), rest) /\ b = MarshalString(v) \o rest
<1>1. AndString(Got(vs, b)) = AndThen(Got(vs, b), UnmarshalStringSafe(b))
  BY GotFields DEF AndString
<1>2. CASE UnmarshalStringSafe(b) = Short
  BY <1>1, <1>2, NothingAfterShort
<1>3. CASE ~ (UnmarshalStringSafe(b) = Short)
  <2>1. PICK v \in Texts, rest \in Seq(Bytes) :
          UnmarshalStringSafe(b) = Got(v, rest) /\ b = MarshalString(v) \o rest
    BY <1>3, StringExact
  <2>2. AndString(Got(vs, b)) = Got(Append(vs, v), rest)
    BY <1>1, <2>1, ThenGot
  <2> QED BY <2>1, <2>2
<1> QED BY <1>2, <1>3

StringRead(vs, b) ==
  \/ AndString(Got(vs, b)) = Short
  \/ \E v \in Texts, rest \in Seq(Bytes) :
       AndString(Got(vs, b)) = Got(Append(vs, v), rest) /\ b = MarshalString(v) \o rest

LEMMA EveryStringRead ==
  \A vs : \A b \in Seq(Bytes) : StringRead(vs, b)
BY AndStringExact DEF StringRead

LEMMA TwoAppended ==
  ASSUME NEW All, NEW x \in All, NEW y \in All
  PROVE  Append(Append(<<>>, x), y) = <<x, y>>
<1>1. Append(<<>>, x) = <<x>>
  OBVIOUS
<1>2. <<x>> \in Seq(All) /\ <<x, y>> \in Seq(All)
  OBVIOUS
<1>3. /\ Append(<<x>>, y) \in Seq(All) /\ Len(Append(<<x>>, y)) = 2
      /\ Append(<<x>>, y)[1] = x /\ Append(<<x>>, y)[2] = y
  BY <1>2
<1>4. \A i \in 1..2 : i = 1 \/ i = 2
  OBVIOUS
<1>5. Len(<<x, y>>) = 2 /\ <<x, y>>[1] = x /\ <<x, y>>[2] = y
  OBVIOUS
<1>6. \A i \in 1..2 : Append(<<x>>, y)[i] = <<x, y>>[i]
  BY <1>3, <1>4, <1>5
<1>7. Append(<<x>>, y) = <<x, y>>
  BY <1>2, <1>3, <1>5, <1>6, SeqEqual
<1> QED BY <1>1, <1>7

LEMMA PairExact ==
  ASSUME NEW vs, NEW b \in Seq(Bytes)
  PROVE  \/ UnmarshalPair(Got(vs, b)) = Short
         \/ \E p \in Pairs, rest \in Seq(Bytes) :
              UnmarshalPair(Got(vs, b)) = Got(Append(vs, p), rest) /\ b = MarshalPair(p) \o rest
<1> DEFINE one == AndString(Got(<<>>, b))
<1> DEFINE two == AndString(one)
<1>1. UnmarshalPair(Got(vs, b)) = AndThen(Got(vs, b), two)
  BY GotFields DEF UnmarshalPair
<1>2. CASE one = Short
  <2>1. two = Short
    BY <1>2, NothingAfterShort
  <2> QED BY <1>1, <2>1, NothingAfterShort
<1>3. CASE ~ (one = Short)
  <2>1. PICK x \in Texts, c \in Seq(Bytes) :
          one = Got(Append(<<>>, x), c) /\ b = MarshalString(x) \o c
    <3>1. \/ AndString(Got(<<>>, b)) = Short
          \/ \E x \in Texts, c \in Seq(Bytes) :
               AndString(Got(<<>>, b)) = Got(Append(<<>>, x), c) /\ b = MarshalString(x) \o c
      <4>1. StringRead(<<>>, b)
        BY EveryStringRead
      <4> QED BY <4>1 DEF StringRead
    <3> QED BY <1>3, <3>1, Zenon
  <2>2. CASE two = Short
    BY <1>1, <2>2, NothingAfterShort
  <2>3. CASE ~ (two = Short)
    <3> HIDE DEF one
    <3>1. PICK y \in Texts, d \in Seq(Bytes) :
            two = Got(Append(Append(<<>>, x), y), d) /\ c = MarshalString(y) \o d
      <4> DEFINE vs1 == Append(<<>>, x)
      <4> HIDE DEF vs1
      <4>1. \/ AndString(Got(vs1, c)) = Short
            \/ \E y \in Texts, d \in Seq(Bytes) :
                 AndString(Got(vs1, c)) = Got(Append(vs1, y), d) /\ c = MarshalString(y) \o d
        <5>1. StringRead(vs1, c)
          BY <2>1, EveryStringRead
        <5> QED BY <5>1 DEF StringRead
      <4>2. one = Got(vs1, c)
        BY <2>1 DEF vs1
      <4>3. \E y \in Texts, d \in Seq(Bytes) :
              two = Got(Append(vs1, y), d) /\ c = MarshalString(y) \o d
        BY <2>3, <4>1, <4>2, Zenon
      <4> QED BY <4>3 DEF vs1
    <3>2. Append(Append(<<>>, x), y) = <<x, y>>
      BY TwoAppended
    <3>3. <<x, y>> \in Pairs /\ <<x, y>>[1] = x /\ <<x, y>>[2] = y
      BY DEF Pairs
    <3>4. UnmarshalPair(Got(vs, b)) = Got(Append(vs, <<x, y>>), d)
      <4>1. two = Got(<<x, y>>, d)
        BY <3>1, <3>2
      <4> HIDE DEF two
      <4> QED BY <1>1, <4>1, ThenGot
    <3>5. MarshalString(x) \in Seq(Bytes) /\ MarshalString(y) \in Seq(Bytes)
      BY StringBytes
    <3>6. (MarshalString(x) \o MarshalString(y)) \o d = MarshalString(x) \o (MarshalString(y) \o d)
      BY <3>5, Associative
    <3>7. b = MarshalPair(<<x, y>>) \o d
      BY <2>1, <3>1, <3>3, <3>6 DEF MarshalPair
    <3> QED BY <3>3, <3>4, <3>7
  <2> QED BY <2>2, <2>3
<1> QED BY <1>2, <1>3

-----------------------------------------------------------------------------
(* Lists: what has been read so far.                                       *)

\* The items of the lists, pairs or the entries of a listing, and their bytes.
Items(loop) == IF loop = "names" THEN Entries ELSE Pairs
Item(loop, x) == IF loop = "names" THEN MarshalNameAttr(x) ELSE MarshalPair(x)
ItemBytes(loop, v) == FlattenSeq([i \in DOMAIN v |-> Item(loop, v[i])])

LEMMA ItemIsBytes ==
  ASSUME NEW loop, NEW x \in Items(loop)
  PROVE  Item(loop, x) \in Seq(Bytes) /\ Len(Item(loop, x)) > 0
<1>1. CASE loop = "names"
  <2>1. x \in Entries /\ Item(loop, x) = MarshalNameAttr(x)
    BY <1>1 DEF Items, Item
  <2>2. <<>> \in Seq(Bytes)
    OBVIOUS
  <2> QED BY <2>1, <2>2, EntryAppended
<1>2. CASE loop # "names"
  <2>1. x \in Pairs /\ Item(loop, x) = MarshalPair(x)
    BY <1>2 DEF Items, Item
  <2>2. <<>> \in Seq(Bytes)
    OBVIOUS
  <2> QED BY <2>1, <2>2, PairAppended
<1> QED BY <1>1, <1>2

LEMMA ItemBytesAppend ==
  ASSUME NEW loop, NEW v \in Seq(Items(loop)), NEW x \in Items(loop)
  PROVE  ItemBytes(loop, Append(v, x)) = ItemBytes(loop, v) \o Item(loop, x)
<1> DEFINE n == Len(v)
<1> DEFINE w == Append(v, x)
<1> DEFINE s == [i \in DOMAIN v |-> Item(loop, v[i])]
<1> DEFINE t == [i \in DOMAIN w |-> Item(loop, w[i])]
<1> DEFINE last == Item(loop, x)
<1>1. /\ n \in Nat /\ w \in Seq(Items(loop)) /\ DOMAIN v = 1..n /\ DOMAIN w = 1..(n + 1)
      /\ \A i \in 1..n : w[i] = v[i]
      /\ w[n + 1] = x
  BY AppendProperties
<1>2. s \in Seq(Seq(Bytes)) /\ Len(s) = n /\ \A i \in 1..n : s[i] = Item(loop, v[i])
  <2>1. \A i \in 1..n : v[i] \in Items(loop)
    BY <1>1
  <2>2. \A i \in 1..n : Item(loop, v[i]) \in Seq(Bytes)
    BY <2>1, ItemIsBytes
  <2>3. s \in [1..n -> Seq(Bytes)]
    BY <1>1, <2>2
  <2> QED BY <1>1, <2>3
<1>3. t \in Seq(Seq(Bytes)) /\ Len(t) = n + 1 /\ \A i \in 1..(n + 1) : t[i] = Item(loop, w[i])
  <2>1. \A i \in 1..(n + 1) : w[i] \in Items(loop)
    BY <1>1
  <2>2. \A i \in 1..(n + 1) : Item(loop, w[i]) \in Seq(Bytes)
    BY <2>1, ItemIsBytes
  <2>3. t \in [1..(n + 1) -> Seq(Bytes)]
    BY <1>1, <2>2
  <2>4. n + 1 \in Nat
    BY <1>1
  <2> QED BY <1>1, <2>3, <2>4
<1>4. last \in Seq(Bytes)
  BY ItemIsBytes
<1> HIDE DEF n, w, s, t, last
<1>5. t = s \o <<last>>
  <2>1. <<last>> \in Seq(Seq(Bytes)) /\ Len(<<last>>) = 1 /\ <<last>>[1] = last
    BY <1>4
  <2>2. /\ s \o <<last>> \in Seq(Seq(Bytes)) /\ Len(s \o <<last>>) = n + 1
        /\ \A i \in 1..n : (s \o <<last>>)[i] = s[i]
        /\ (s \o <<last>>)[n + 1] = last
    <3>1. /\ s \o <<last>> \in Seq(Seq(Bytes)) /\ Len(s \o <<last>>) = Len(s) + Len(<<last>>)
          /\ \A i \in 1..(Len(s) + Len(<<last>>)) :
               (s \o <<last>>)[i] = IF i <= Len(s) THEN s[i] ELSE <<last>>[i - Len(s)]
      BY <1>2, <2>1, ConcatProperties
    <3>2. n + 1 \in 1..(n + 1) /\ (n + 1) - n = 1 /\ ~ (n + 1 <= n)
      BY <1>1
    <3>3. (s \o <<last>>)[n + 1] = last
      BY <1>2, <2>1, <3>1, <3>2
    <3>4. \A i \in 1..n : i \in 1..(n + 1) /\ i <= n
      BY <1>1
    <3>5. \A i \in 1..n : (s \o <<last>>)[i] = s[i]
      BY <1>2, <2>1, <3>1, <3>4
    <3> QED BY <1>2, <2>1, <3>1, <3>3, <3>5
  <2>3. t[n + 1] = last
    <3>1. n + 1 \in 1..(n + 1)
      BY <1>1
    <3> QED BY <1>1, <1>3, <3>1 DEF last
  <2>4. \A i \in 1..(n + 1) : t[i] = (s \o <<last>>)[i]
    <3>1. ASSUME NEW i \in 1..(n + 1) PROVE t[i] = (s \o <<last>>)[i]
      <4>1. CASE i = n + 1
        BY <2>2, <2>3, <4>1
      <4>2. CASE i # n + 1
        <5>1. i \in 1..n
          BY <1>1, <4>2
        <5>2. t[i] = Item(loop, w[i]) /\ w[i] = v[i] /\ s[i] = Item(loop, v[i])
          BY <1>1, <1>2, <1>3, <5>1
        <5> QED BY <2>2, <5>1, <5>2
      <4> QED BY <4>1, <4>2
    <3> QED BY <3>1
  <2> QED BY <1>3, <2>2, <2>4, SeqEqual
<1>6. FlattenSeq(t) = FlattenSeq(s) \o FlattenSeq(<<last>>)
  <2>1. <<last>> \in Seq(Seq(Bytes))
    BY <1>4
  <2> QED BY <1>2, <1>5, <2>1, FlattenParts
<1>7. FlattenSeq(<<last>>) = last
  BY <1>4, FlattenFew
<1> QED BY <1>6, <1>7 DEF ItemBytes, s, t, w, last

\* The bytes b are those of n items and what is left, unless the loop has failed.
ListRead(loop, b, r, n) ==
  \/ r = Short
  \/ \E v \in Seq(Items(loop)), rest \in Seq(Bytes) :
       r = Got(v, rest) /\ b = ItemBytes(loop, v) \o rest /\ (loop # "pairs" => Len(v) = n)

\* Every turn of the loop reads an item, unless it fails or has come to the end.
Advances(loop) ==
  \A b \in Seq(Bytes), k \in Nat : \A r, i :
    ListRead(loop, b, r, k) => ListRead(loop, b, Turn(loop, "any", r, i), k + 1)

LEMMA ItemsAreBytes ==
  ASSUME NEW loop, NEW v \in Seq(Items(loop))
  PROVE  ItemBytes(loop, v) \in Seq(Bytes) /\ Len(ItemBytes(loop, v)) >= Len(v)
<1>1. CASE loop = "names"
  <2>1. v \in Seq(Entries)
    BY <1>1 DEF Items
  <2>2. ItemBytes(loop, v) = MarshalNames(v)
    BY <1>1 DEF ItemBytes, Item, MarshalNames
  <2> QED BY <2>1, <2>2, NamesBytes
<1>2. CASE loop # "names"
  <2>1. v \in Seq(Pairs)
    BY <1>2 DEF Items
  <2>2. ItemBytes(loop, v) = MarshalPairs(v)
    BY <1>2 DEF ItemBytes, Item, MarshalPair, MarshalPairs
  <2> QED BY <2>1, <2>2, PairsBytes
<1> QED BY <1>1, <1>2

\* One item more.
LEMMA ListGrows ==
  ASSUME NEW loop, NEW b \in Seq(Bytes), NEW v \in Seq(Items(loop)), NEW c \in Seq(Bytes),
         b = ItemBytes(loop, v) \o c, NEW x \in Items(loop), NEW rest \in Seq(Bytes),
         c = Item(loop, x) \o rest, NEW k, loop # "pairs" => Len(v) = k
  PROVE  ListRead(loop, b, Got(Append(v, x), rest), k + 1)
<1>1. Append(v, x) \in Seq(Items(loop)) /\ Len(Append(v, x)) = Len(v) + 1
  BY AppendProperties
<1>2. ItemBytes(loop, v) \in Seq(Bytes) /\ Item(loop, x) \in Seq(Bytes)
  BY ItemsAreBytes, ItemIsBytes
<1>3. (ItemBytes(loop, v) \o Item(loop, x)) \o rest = ItemBytes(loop, v) \o (Item(loop, x) \o rest)
  BY <1>2, Associative
<1>4. ItemBytes(loop, Append(v, x)) = ItemBytes(loop, v) \o Item(loop, x)
  BY ItemBytesAppend
<1>5. b = ItemBytes(loop, Append(v, x)) \o rest
  BY <1>3, <1>4
<1>6. loop # "pairs" => Len(Append(v, x)) = k + 1
  BY <1>1
<1> QED BY <1>1, <1>5, <1>6 DEF ListRead

LEMMA NotAdvanced ==
  \A loop, b, k : ListRead(loop, b, Short, k)
BY DEF ListRead

PairReads(vs, b) ==
  \/ UnmarshalPair(Got(vs, b)) = Short
  \/ \E p \in Pairs, rest \in Seq(Bytes) :
       UnmarshalPair(Got(vs, b)) = Got(Append(vs, p), rest) /\ b = MarshalPair(p) \o rest

LEMMA EveryPairReads ==
  \A vs : \A b \in Seq(Bytes) : PairReads(vs, b)
BY PairExact DEF PairReads

LEMMA PairStep ==
  ASSUME NEW loop, loop # "names", NEW b \in Seq(Bytes), NEW k, NEW v \in Seq(Items(loop)),
         NEW c \in Seq(Bytes), b = ItemBytes(loop, v) \o c, loop # "pairs" => Len(v) = k
  PROVE  ListRead(loop, b, UnmarshalPair(Got(v, c)), k + 1)
<1>1. CASE UnmarshalPair(Got(v, c)) = Short
  BY <1>1, NotAdvanced
<1>2. CASE ~ (UnmarshalPair(Got(v, c)) = Short)
  <2>1. PICK x \in Pairs, rest \in Seq(Bytes) :
          UnmarshalPair(Got(v, c)) = Got(Append(v, x), rest) /\ c = MarshalPair(x) \o rest
    <3>1. PairReads(v, c)
      BY EveryPairReads
    <3> QED BY <1>2, <3>1 DEF PairReads
  <2>2. x \in Items(loop) /\ c = Item(loop, x) \o rest
    BY <2>1 DEF Items, Item
  <2>3. ListRead(loop, b, Got(Append(v, x), rest), k + 1)
    BY <2>1, <2>2, ListGrows
  <2> QED BY <2>1, <2>3
<1> QED BY <1>1, <1>2

LEMMA CountedAdvances == Advances("counted")
<1> SUFFICES ASSUME NEW b \in Seq(Bytes), NEW k \in Nat, NEW r, NEW i, ListRead("counted", b, r, k)
             PROVE  ListRead("counted", b, Turn("counted", "any", r, i), k + 1)
  BY DEF Advances
<1>1. Turn("counted", "any", r, i) = UnmarshalPair(r)
  BY DEF Turn
<1>2. CASE r = Short
  BY <1>1, <1>2, NothingAfterShort, NotAdvanced
<1>3. CASE r # Short
  <2>1. PICK v \in Seq(Items("counted")), c \in Seq(Bytes) :
          r = Got(v, c) /\ b = ItemBytes("counted", v) \o c /\ Len(v) = k
    BY <1>3 DEF ListRead
  <2>2. ListRead("counted", b, UnmarshalPair(Got(v, c)), k + 1)
    BY <2>1, PairStep
  <2> QED BY <1>1, <2>1, <2>2
<1> QED BY <1>2, <1>3

LEMMA PairsAdvances == Advances("pairs")
<1> SUFFICES ASSUME NEW b \in Seq(Bytes), NEW k \in Nat, NEW r, NEW i, ListRead("pairs", b, r, k)
             PROVE  ListRead("pairs", b, Turn("pairs", "any", r, i), k + 1)
  BY DEF Advances
<1>1. Turn("pairs", "any", r, i) = IF r.failed \/ r.rest = <<>> THEN r ELSE UnmarshalPair(r)
  BY DEF Turn
<1>2. CASE r.failed \/ r.rest = <<>>
  <2>1. ListRead("pairs", b, r, k + 1)
    BY DEF ListRead
  <2> QED BY <1>1, <1>2, <2>1
<1>3. CASE ~ (r.failed \/ r.rest = <<>>)
  <2>1. r # Short
    BY <1>3, ShortFields
  <2>2. PICK v \in Seq(Items("pairs")), c \in Seq(Bytes) :
          r = Got(v, c) /\ b = ItemBytes("pairs", v) \o c
    BY <2>1 DEF ListRead
  <2>3. ListRead("pairs", b, UnmarshalPair(Got(v, c)), k + 1)
    BY <2>2, PairStep
  <2> QED BY <1>1, <1>3, <2>2, <2>3
<1> QED BY <1>2, <1>3

LEMMA ListExact ==
  ASSUME NEW loop, Advances(loop), NEW b \in Seq(Bytes), NEW n \in Nat, NEW is, NEW run,
         Runs(loop, "any", Got(<<>>, b), is, n, run)
  PROVE  ListRead(loop, b, run[n], n)
<1> DEFINE S == {k \in Nat : k <= n => ListRead(loop, b, run[k], k)}
<1>1. 0 \in S
  <2>1. run[0] = Got(<<>>, b)
    BY DEF Runs
  <2>2. <<>> \in Seq(Items(loop)) /\ Len(<<>>) = 0
    OBVIOUS
  <2>3. ItemBytes(loop, <<>>) = <<>>
    <3>1. [i \in DOMAIN <<>> |-> Item(loop, <<>>[i])] = <<>>
      OBVIOUS
    <3> QED BY <3>1, FlattenFew DEF ItemBytes
  <2>4. b = ItemBytes(loop, <<>>) \o b
    BY <2>3, ConcatEmptySeq
  <2>5. ListRead(loop, b, Got(<<>>, b), 0)
    BY <2>2, <2>4 DEF ListRead
  <2> QED BY <2>1, <2>5
<1>2. ASSUME NEW k \in Nat, k \in S PROVE k + 1 \in S
  <2> SUFFICES ASSUME k + 1 <= n PROVE ListRead(loop, b, run[k + 1], k + 1)
    OBVIOUS
  <2>1. k \in 0..(n - 1)
    OBVIOUS
  <2>2. run[k + 1] = Turn(loop, "any", run[k], is[k + 1])
    BY <2>1 DEF Runs
  <2>3. ListRead(loop, b, run[k], k)
    BY <1>2
  <2> QED BY <2>2, <2>3 DEF Advances
<1>3. n \in S
  <2> HIDE DEF S
  <2> QED BY <1>1, <1>2, SetInduction
<1> QED BY <1>3

\* A counted list: as many items as the count says, or a failure.
LEMMA CountIsRead ==
  ASSUME NEW loop, loop # "pairs", NEW b \in Seq(Bytes), NEW n \in Nat, NEW u,
         ListRead(loop, b, u, IF n > Len(b) THEN Len(b) + 1 ELSE n)
  PROVE  ListRead(loop, b, u, n)
<1>1. CASE u = Short
  BY <1>1, NotAdvanced
<1>2. CASE u # Short
  <2>1. PICK v \in Seq(Items(loop)), rest \in Seq(Bytes) :
          /\ u = Got(v, rest) /\ b = ItemBytes(loop, v) \o rest
          /\ Len(v) = IF n > Len(b) THEN Len(b) + 1 ELSE n
    BY <1>2 DEF ListRead
  <2>2. ItemBytes(loop, v) \in Seq(Bytes) /\ Len(ItemBytes(loop, v)) >= Len(v)
    BY ItemsAreBytes
  <2>3. Len(b) = Len(ItemBytes(loop, v)) + Len(rest) /\ Len(rest) \in Nat /\ Len(v) \in Nat
        /\ Len(b) \in Nat /\ Len(ItemBytes(loop, v)) \in Nat
    BY <2>1, <2>2, Concat
  <2>4. Len(v) <= Len(b)
    BY <2>2, <2>3
  <2>5. Len(v) = n
    BY <2>1, <2>3, <2>4
  <2> QED BY <2>1, <2>5 DEF ListRead
<1> QED BY <1>1, <1>2

LEMMA CountedFold ==
  ASSUME NEW b, NEW m \in Nat
  PROVE  \E run : /\ Runs("counted", "any", Got(<<>>, b), [i \in 1..m |-> i], m, run)
                  /\ FoldLeft(LAMBDA r, i : UnmarshalPair(r), Got(<<>>, b), [i \in 1..m |-> i]) = run[m]
<1>1. DOMAIN [i \in 1..m |-> i] = 1..m
  OBVIOUS
<1> QED BY <1>1, CountedLoop, Zenon

LEMMA CountedTurns ==
  ASSUME NEW n \in Nat, NEW b, NEW m \in Nat, m = IF n > Len(b) THEN Len(b) + 1 ELSE n
  PROVE  \E run : /\ Runs("counted", "any", Got(<<>>, b), [i \in 1..m |-> i], m, run)
                  /\ UnmarshalCounted(Got(n, b)) = run[m]
<1> DEFINE turns == IF Got(n, b).v > Len(Got(n, b).rest) THEN Len(Got(n, b).rest) + 1 ELSE Got(n, b).v
<1>1. turns = m /\ Got(n, b).rest = b /\ Got(n, b).failed = FALSE
  BY GotFields
<1>2. UnmarshalCounted(Got(n, b)) = FoldLeft(LAMBDA r, i : UnmarshalPair(r), Got(<<>>, Got(n, b).rest),
                                             [i \in 1..turns |-> i])
  BY <1>1, Zenon DEF UnmarshalCounted
<1> HIDE DEF turns
<1>3. UnmarshalCounted(Got(n, b)) = FoldLeft(LAMBDA r, i : UnmarshalPair(r), Got(<<>>, b),
                                             [i \in 1..m |-> i])
  BY <1>1, <1>2, Zenon
<1>5. PICK run : /\ Runs("counted", "any", Got(<<>>, b), [i \in 1..m |-> i], m, run)
                 /\ FoldLeft(LAMBDA r, i : UnmarshalPair(r), Got(<<>>, b), [i \in 1..m |-> i]) = run[m]
  BY CountedFold, Zenon
<1> QED BY <1>3, <1>5, Zenon

LEMMA NamesFold ==
  ASSUME NEW b, NEW m \in Nat
  PROVE  \E run : /\ Runs("names", "any", Got(<<>>, b), [i \in 1..m |-> i], m, run)
                  /\ FoldLeft(LAMBDA r, i : UnmarshalEntry(r), Got(<<>>, b), [i \in 1..m |-> i]) = run[m]
<1>1. DOMAIN [i \in 1..m |-> i] = 1..m
  OBVIOUS
<1> QED BY <1>1, NamesLoop, Zenon

LEMMA NamesTurns ==
  ASSUME NEW n \in Nat, NEW b, NEW m \in Nat, m = IF n > Len(b) THEN Len(b) + 1 ELSE n
  PROVE  \E run : /\ Runs("names", "any", Got(<<>>, b), [i \in 1..m |-> i], m, run)
                  /\ UnmarshalEntries(Got(n, b)) = run[m]
<1> DEFINE turns == IF Got(n, b).v > Len(Got(n, b).rest) THEN Len(Got(n, b).rest) + 1 ELSE Got(n, b).v
<1>1. turns = m /\ Got(n, b).rest = b /\ Got(n, b).failed = FALSE
  BY GotFields
<1>2. UnmarshalEntries(Got(n, b)) = FoldLeft(LAMBDA r, i : UnmarshalEntry(r), Got(<<>>, Got(n, b).rest),
                                             [i \in 1..turns |-> i])
  BY <1>1, Zenon DEF UnmarshalEntries
<1> HIDE DEF turns
<1>3. UnmarshalEntries(Got(n, b)) = FoldLeft(LAMBDA r, i : UnmarshalEntry(r), Got(<<>>, b),
                                             [i \in 1..m |-> i])
  BY <1>1, <1>2, Zenon
<1>5. PICK run : /\ Runs("names", "any", Got(<<>>, b), [i \in 1..m |-> i], m, run)
                 /\ FoldLeft(LAMBDA r, i : UnmarshalEntry(r), Got(<<>>, b), [i \in 1..m |-> i]) = run[m]
  BY NamesFold, Zenon
<1> QED BY <1>3, <1>5, Zenon

LEMMA CountedExact ==
  ASSUME NEW n \in Nat, NEW b \in Seq(Bytes)
  PROVE  ListRead("counted", b, UnmarshalCounted(Got(n, b)), n)
<1> DEFINE m == IF n > Len(b) THEN Len(b) + 1 ELSE n
<1>1. Len(b) \in Nat /\ m \in Nat
  OBVIOUS
<1>3. PICK run : /\ Runs("counted", "any", Got(<<>>, b), [i \in 1..m |-> i], m, run)
                 /\ UnmarshalCounted(Got(n, b)) = run[m]
  BY <1>1, CountedTurns
<1>4. ListRead("counted", b, run[m], m)
  <2> HIDE DEF m
  <2> QED BY <1>1, <1>3, ListExact, CountedAdvances
<1>5. ListRead("counted", b, UnmarshalCounted(Got(n, b)), m)
  <2> HIDE DEF m
  <2> QED BY <1>3, <1>4, Zenon
<1> QED BY <1>5, CountIsRead

LEMMA PairsExact ==
  ASSUME NEW b \in Seq(Bytes)
  PROVE  Exactly(UnmarshalPairs(b), b, "pairs")
<1>1. PICK run : /\ Runs("pairs", "any", Got(<<>>, b), [i \in 1..Len(b) |-> i], Len(b), run)
                 /\ UnmarshalPairs(b) = run[Len(b)]
  <2>1. Len(b) \in Nat
    OBVIOUS
  <2> QED BY <2>1, PairsRuns
<1>2. ListRead("pairs", b, run[Len(b)], Len(b))
  <2>1. Len(b) \in Nat
    OBVIOUS
  <2> QED BY <1>1, <2>1, ListExact, PairsAdvances
<1>3. CASE UnmarshalPairs(b) = Short
  BY <1>3 DEF Exactly
<1>4. CASE ~ (UnmarshalPairs(b) = Short)
  <2>1. PICK v \in Seq(Items("pairs")), rest \in Seq(Bytes) :
          UnmarshalPairs(b) = Got(v, rest) /\ b = ItemBytes("pairs", v) \o rest
    BY <1>1, <1>2, <1>4 DEF ListRead
  <2>2. v \in Values("pairs")
    BY DEF Items, Values
  <2>3. ItemBytes("pairs", v) = Marshal("pairs", v)
    BY DEF ItemBytes, Item, MarshalPair, MarshalPairs, Marshal, MarshalBasic
  <2> QED BY <2>1, <2>2, <2>3 DEF Exactly
<1> QED BY <1>3, <1>4

LEMMA BasicExact ==
  ASSUME NEW type \in {"uint32", "uint64", "string", "counted"}, NEW b \in Seq(Bytes)
  PROVE  \/ UnmarshalBasic(type, b) = Short
         \/ \E v \in BasicValues(type), rest \in Seq(Bytes) :
              UnmarshalBasic(type, b) = Got(v, rest) /\ b = MarshalBasic(type, v) \o rest
<1>1. CASE type = "uint32"
  <2>1. UnmarshalBasic(type, b) = UnmarshalUint32Safe(b) /\ BasicValues(type) = Uint32
        /\ \A v : MarshalBasic(type, v) = MarshalUint32(v)
    BY <1>1 DEF UnmarshalBasic, BasicValues, MarshalBasic
  <2>2. \/ UnmarshalUint32Safe(b) = Short
        \/ \E v \in Uint32, rest \in Seq(Bytes) : UnmarshalUint32Safe(b) = Got(v, rest) /\ b = MarshalUint32(v) \o rest
    BY Uint32Exact
  <2> QED BY <2>1, <2>2
<1>2. CASE type = "uint64"
  <2>1. UnmarshalBasic(type, b) = UnmarshalUint64Safe(b) /\ BasicValues(type) = Uint32 \X Uint32
        /\ \A v : MarshalBasic(type, v) = MarshalUint64(v)
    BY <1>2 DEF UnmarshalBasic, BasicValues, MarshalBasic
  <2>2. \/ UnmarshalUint64Safe(b) = Short
        \/ \E v \in Uint32 \X Uint32, rest \in Seq(Bytes) : UnmarshalUint64Safe(b) = Got(v, rest) /\ b = MarshalUint64(v) \o rest
    BY Uint64Exact
  <2> QED BY <2>1, <2>2
<1>3. CASE type = "string"
  <2>1. UnmarshalBasic(type, b) = UnmarshalStringSafe(b) /\ BasicValues(type) = Texts
        /\ \A v : MarshalBasic(type, v) = MarshalString(v)
    BY <1>3 DEF UnmarshalBasic, BasicValues, MarshalBasic
  <2>2. \/ UnmarshalStringSafe(b) = Short
        \/ \E v \in Texts, rest \in Seq(Bytes) : UnmarshalStringSafe(b) = Got(v, rest) /\ b = MarshalString(v) \o rest
    BY StringExact
  <2> QED BY <2>1, <2>2
<1>4. CASE type = "counted"
  <2>1. UnmarshalBasic(type, b) = UnmarshalCounted(UnmarshalUint32Safe(b))
        /\ BasicValues(type) = Counted(Pairs)
        /\ \A v : MarshalBasic(type, v) = MarshalUint32(Len(v)) \o MarshalPairs(v)
    BY <1>4 DEF UnmarshalBasic, BasicValues, MarshalBasic
  <2>2. CASE UnmarshalUint32Safe(b) = Short
    BY <2>1, <2>2 DEF UnmarshalCounted, Short
  <2>3. CASE ~ (UnmarshalUint32Safe(b) = Short)
    <3>1. PICK n \in Uint32, c \in Seq(Bytes) :
            UnmarshalUint32Safe(b) = Got(n, c) /\ b = MarshalUint32(n) \o c
      BY <2>3, Uint32Exact
    <3>2. n \in Nat
      BY DEF Uint32
    <3>3. ListRead("counted", c, UnmarshalCounted(Got(n, c)), n)
      BY <3>1, <3>2, CountedExact
    <3>4. CASE UnmarshalCounted(Got(n, c)) = Short
      BY <2>1, <3>1, <3>4
    <3>5. CASE ~ (UnmarshalCounted(Got(n, c)) = Short)
      <4>1. PICK v \in Seq(Items("counted")), rest \in Seq(Bytes) :
              /\ UnmarshalCounted(Got(n, c)) = Got(v, rest) /\ c = ItemBytes("counted", v) \o rest
              /\ Len(v) = n
        BY <3>3, <3>5 DEF ListRead
      <4>2. v \in Counted(Pairs)
        BY <4>1 DEF Items, Counted
      <4>3. ItemBytes("counted", v) = MarshalPairs(v)
        BY DEF ItemBytes, Item, MarshalPair, MarshalPairs
      <4>4. MarshalUint32(n) \in Seq(Bytes) /\ MarshalPairs(v) \in Seq(Bytes)
        BY <4>3, Uint32Bytes, ItemsAreBytes
      <4>5. (MarshalUint32(n) \o MarshalPairs(v)) \o rest = MarshalUint32(n) \o (MarshalPairs(v) \o rest)
        <5>1. \A x, y, z \in Seq(Bytes) : (x \o y) \o z = x \o (y \o z)
          BY Associative
        <5>2. rest \in Seq(Bytes)
          BY <4>1
        <5> QED BY <4>4, <5>1, <5>2, Zenon
      <4>6. b = MarshalBasic(type, v) \o rest
        BY <2>1, <3>1, <4>1, <4>3, <4>5
      <4> QED BY <2>1, <3>1, <4>1, <4>2, <4>6
    <3> QED BY <3>4, <3>5
  <2> QED BY <2>2, <2>3
<1> QED BY <1>1, <1>2, <1>3, <1>4

-----------------------------------------------------------------------------
(* The fields of an ATTRS structure, one by one.                           *)

LEMMA SameTurns ==
  ASSUME NEW loop, NEW kind, NEW base, NEW s, NEW t, NEW n \in Nat, NEW m \in Nat, n <= m,
         NEW a, NEW b, Runs(loop, kind, base, s, n, a), Runs(loop, kind, base, t, m, b),
         \A i \in 1..n : s[i] = t[i]
  PROVE  a[n] = b[n]
<1> DEFINE S == {k \in Nat : k <= n => a[k] = b[k]}
<1>1. 0 \in S
  BY DEF Runs
<1>2. ASSUME NEW k \in Nat, k \in S PROVE k + 1 \in S
  <2> SUFFICES ASSUME k + 1 <= n PROVE a[k + 1] = b[k + 1]
    OBVIOUS
  <2>1. k \in 0..(n - 1) /\ k \in 0..(m - 1) /\ k + 1 \in 1..n
    OBVIOUS
  <2>2. /\ a[k + 1] = Turn(loop, kind, a[k], s[k + 1]) /\ b[k + 1] = Turn(loop, kind, b[k], t[k + 1])
        /\ s[k + 1] = t[k + 1]
    BY <2>1 DEF Runs
  <2>3. a[k] = b[k]
    BY <1>2
  <2> QED BY <2>2, <2>3
<1>3. n \in S
  <2> HIDE DEF S
  <2> QED BY <1>1, <1>2, SetInduction
<1> QED BY <1>3

\* The last m of n + m turns, and the same turns as a loop of their own.
GoesOn(loop, kind, base, s, t, n, m, a, b) ==
  /\ n \in Nat /\ m \in Nat
  /\ Runs(loop, kind, base, s, n + m, a) /\ Runs(loop, kind, a[n], t, m, b)
  /\ \A i \in 1..m : s[n + i] = t[i]

LEMMA MoreTurns ==
  ASSUME NEW loop, NEW kind, NEW base, NEW s, NEW t, NEW n, NEW m, NEW a, NEW b,
         GoesOn(loop, kind, base, s, t, n, m, a, b)
  PROVE  a[n + m] = b[m]
<1>0. /\ n \in Nat /\ m \in Nat
      /\ Runs(loop, kind, base, s, n + m, a) /\ Runs(loop, kind, a[n], t, m, b)
      /\ \A i \in 1..m : s[n + i] = t[i]
  BY DEF GoesOn
<1> DEFINE S == {k \in Nat : k <= m => a[n + k] = b[k]}
<1>1. 0 \in S
  <2>1. n + 0 = n /\ b[0] = a[n]
    BY <1>0 DEF Runs
  <2> QED BY <2>1
<1>2. ASSUME NEW k \in Nat, k \in S PROVE k + 1 \in S
  <2> SUFFICES ASSUME k + 1 <= m PROVE a[n + (k + 1)] = b[k + 1]
    BY <1>0
  <2>1. k \in 0..(m - 1) /\ n + k \in 0..((n + m) - 1) /\ k + 1 \in 1..m /\ (n + k) + 1 = n + (k + 1)
    BY <1>0
  <2>2. a[(n + k) + 1] = Turn(loop, kind, a[n + k], s[(n + k) + 1])
    BY <1>0, <2>1 DEF Runs
  <2>3. b[k + 1] = Turn(loop, kind, b[k], t[k + 1]) /\ s[n + (k + 1)] = t[k + 1]
    BY <1>0, <2>1 DEF Runs
  <2>4. a[n + k] = b[k]
    BY <1>0, <1>2
  <2> QED BY <2>1, <2>2, <2>3, <2>4
<1>3. m \in S
  <2> HIDE DEF S
  <2> QED BY <1>0, <1>1, <1>2, SetInduction
<1> QED BY <1>0, <1>3

\* What the loop of UnmarshalFileStat has made of r after some fields.
AttrsAfter(r, names) ==
  FoldLeft(LAMBDA x, f : SetField(x, f, UnmarshalBasic(TypeOf[f], x.rest)), r, names)

LEMMA AttrsAfterRuns ==
  ASSUME NEW r, NEW names \in Seq(AttrNames)
  PROVE  \E run : /\ Runs("attrs", "any", r, names, Len(names), run)
                  /\ AttrsAfter(r, names) = run[Len(names)]
<1>1. Len(names) \in Nat /\ DOMAIN names = 1..Len(names)
  OBVIOUS
<1>2. PICK run : /\ Runs("attrs", "any", r, names, Len(names), run)
                 /\ FoldLeft(LAMBDA x, f : SetField(x, f, UnmarshalBasic(TypeOf[f], x.rest)), r, names)
                      = run[Len(names)]
  BY <1>1, AttrsLoop
<1> QED BY <1>2, Zenon DEF AttrsAfter

LEMMA AttrsAfterConcat ==
  ASSUME NEW r, NEW s \in Seq(AttrNames), NEW t \in Seq(AttrNames)
  PROVE  AttrsAfter(r, s \o t) = AttrsAfter(AttrsAfter(r, s), t)
<1> DEFINE n == Len(s)
<1> DEFINE m == Len(t)
<1> DEFINE st == s \o t
<1>1. /\ n \in Nat /\ m \in Nat /\ n <= n + m /\ st \in Seq(AttrNames) /\ Len(st) = n + m
      /\ \A i \in 1..n : s[i] = st[i]
      /\ \A i \in 1..m : st[n + i] = t[i]
  BY ConcatProperties
<1> HIDE DEF n, m, st
<1>2. PICK a : Runs("attrs", "any", r, s, n, a) /\ AttrsAfter(r, s) = a[n]
  BY AttrsAfterRuns DEF n
<1>3. PICK b : Runs("attrs", "any", a[n], t, m, b) /\ AttrsAfter(a[n], t) = b[m]
  BY AttrsAfterRuns DEF m
<1>4. PICK c : Runs("attrs", "any", r, st, n + m, c) /\ AttrsAfter(r, st) = c[n + m]
  BY <1>1, AttrsAfterRuns
<1>5. c[n] = a[n]
  <2>1. n + m \in Nat
    BY <1>1
  <2> QED BY <1>1, <1>2, <1>4, <2>1, SameTurns
<1>6. c[n + m] = b[m]
  <2>1. Runs("attrs", "any", c[n], t, m, b)
    BY <1>3, <1>5
  <2>2. /\ n \in Nat /\ m \in Nat /\ Runs("attrs", "any", r, st, n + m, c)
        /\ \A i \in 1..m : st[n + i] = t[i]
    BY <1>1, <1>4
  <2>3. GoesOn("attrs", "any", r, st, t, n, m, c, b)
    BY <2>1, <2>2 DEF GoesOn
  <2> QED BY <2>3, MoreTurns
<1> QED BY <1>2, <1>3, <1>4, <1>6 DEF st

AttrTurn(r, f) == SetField(r, f, UnmarshalBasic(TypeOf[f], r.rest))

LEMMA AttrsAfterFew ==
  ASSUME NEW r
  PROVE  /\ AttrsAfter(r, <<>>) = r
         /\ \A f \in AttrNames : AttrsAfter(r, <<f>>) = AttrTurn(r, f)
         /\ \A f, g \in AttrNames : AttrsAfter(r, <<f, g>>) = AttrTurn(AttrTurn(r, f), g)
<1>1. AttrsAfter(r, <<>>) = r
  <2>1. <<>> \in Seq(AttrNames) /\ Len(<<>>) = 0
    OBVIOUS
  <2>2. PICK run : Runs("attrs", "any", r, <<>>, 0, run) /\ AttrsAfter(r, <<>>) = run[0]
    BY <2>1, AttrsAfterRuns
  <2> QED BY <2>2 DEF Runs
<1>2. ASSUME NEW f \in AttrNames PROVE AttrsAfter(r, <<f>>) = AttrTurn(r, f)
  <2>1. <<f>> \in Seq(AttrNames) /\ Len(<<f>>) = 1 /\ <<f>>[1] = f
    OBVIOUS
  <2>2. PICK run : Runs("attrs", "any", r, <<f>>, 1, run) /\ AttrsAfter(r, <<f>>) = run[1]
    BY <2>1, AttrsAfterRuns
  <2>3. 0 \in 0..(1 - 1) /\ 0 + 1 = 1
    OBVIOUS
  <2>4. run[0] = r /\ run[0 + 1] = Turn("attrs", "any", run[0], <<f>>[0 + 1])
    BY <2>2, <2>3 DEF Runs
  <2> QED BY <2>1, <2>2, <2>3, <2>4 DEF Turn, AttrTurn
<1>3. ASSUME NEW f \in AttrNames, NEW g \in AttrNames
      PROVE  AttrsAfter(r, <<f, g>>) = AttrTurn(AttrTurn(r, f), g)
  <2>1. <<f, g>> \in Seq(AttrNames) /\ Len(<<f, g>>) = 2 /\ <<f, g>>[1] = f /\ <<f, g>>[2] = g
    OBVIOUS
  <2>2. PICK run : Runs("attrs", "any", r, <<f, g>>, 2, run) /\ AttrsAfter(r, <<f, g>>) = run[2]
    BY <2>1, AttrsAfterRuns
  <2>3. 0 \in 0..(2 - 1) /\ 0 + 1 = 1 /\ 1 \in 0..(2 - 1) /\ 1 + 1 = 2
    OBVIOUS
  <2>4. /\ run[0] = r /\ run[0 + 1] = Turn("attrs", "any", run[0], <<f, g>>[0 + 1])
        /\ run[1 + 1] = Turn("attrs", "any", run[1], <<f, g>>[1 + 1])
    BY <2>2, <2>3 DEF Runs
  <2>5. \A x, h : Turn("attrs", "any", x, h) = AttrTurn(x, h)
    BY DEF Turn, AttrTurn
  <2> QED BY <2>1, <2>2, <2>3, <2>4, <2>5
<1> QED BY <1>1, <1>2, <1>3

\* The next field, if its flag is set.
AttrStep(flags, bit, f, r) == IF HasFlag(flags, bit) THEN AttrTurn(r, f) ELSE r

LEMMA AttrsUnrolled ==
  ASSUME NEW flags, NEW r
  PROVE  LET r1 == AttrStep(flags, AttrSize, "size", r)
             r2 == AttrStep(flags, AttrUIDGID, "uid", r1)
             r3 == AttrStep(flags, AttrUIDGID, "gid", r2)
             r4 == AttrStep(flags, AttrPermissions, "mode", r3)
             r5 == AttrStep(flags, AttrACmodTime, "atime", r4)
             r6 == AttrStep(flags, AttrACmodTime, "mtime", r5) IN
           AttrsAfter(r, FileStatFields(flags)) = AttrStep(flags, AttrExtended, "extended", r6)
<1> DEFINE c1 == HasFlag(flags, AttrSize)
<1> DEFINE c2 == HasFlag(flags, AttrUIDGID)
<1> DEFINE c3 == HasFlag(flags, AttrPermissions)
<1> DEFINE c4 == HasFlag(flags, AttrACmodTime)
<1> DEFINE c5 == HasFlag(flags, AttrExtended)
<1>1. /\ <<"size">> \in Seq(AttrNames) /\ <<"uid", "gid">> \in Seq(AttrNames)
      /\ <<"mode">> \in Seq(AttrNames) /\ <<"atime", "mtime">> \in Seq(AttrNames)
      /\ <<"extended">> \in Seq(AttrNames) /\ <<>> \in Seq(AttrNames)
      /\ "size" \in AttrNames /\ "uid" \in AttrNames /\ "gid" \in AttrNames /\ "mode" \in AttrNames
      /\ "atime" \in AttrNames /\ "mtime" \in AttrNames /\ "extended" \in AttrNames
  BY DEF AttrNames
<1> DEFINE wa == When(c1, <<"size">>)
<1> DEFINE wb == When(c2, <<"uid", "gid">>)
<1> DEFINE wc == When(c3, <<"mode">>)
<1> DEFINE wd == When(c4, <<"atime", "mtime">>)
<1> DEFINE we == When(c5, <<"extended">>)
<1>2. /\ wa \in Seq(AttrNames) /\ wb \in Seq(AttrNames) /\ wc \in Seq(AttrNames)
      /\ wd \in Seq(AttrNames) /\ we \in Seq(AttrNames)
  BY <1>1 DEF When
<1>3. FileStatFields(flags) = (((wa \o wb) \o wc) \o wd) \o we
  BY DEF FileStatFields
<1>4. \A x : /\ AttrsAfter(x, wa) = AttrStep(flags, AttrSize, "size", x)
             /\ AttrsAfter(x, wb) = AttrStep(flags, AttrUIDGID, "gid", AttrStep(flags, AttrUIDGID, "uid", x))
             /\ AttrsAfter(x, wc) = AttrStep(flags, AttrPermissions, "mode", x)
             /\ AttrsAfter(x, wd)
                  = AttrStep(flags, AttrACmodTime, "mtime", AttrStep(flags, AttrACmodTime, "atime", x))
             /\ AttrsAfter(x, we) = AttrStep(flags, AttrExtended, "extended", x)
  <2> TAKE x
  <2>1. /\ AttrsAfter(x, <<>>) = x
        /\ AttrsAfter(x, <<"size">>) = AttrTurn(x, "size")
        /\ AttrsAfter(x, <<"mode">>) = AttrTurn(x, "mode")
        /\ AttrsAfter(x, <<"extended">>) = AttrTurn(x, "extended")
        /\ AttrsAfter(x, <<"uid", "gid">>) = AttrTurn(AttrTurn(x, "uid"), "gid")
        /\ AttrsAfter(x, <<"atime", "mtime">>) = AttrTurn(AttrTurn(x, "atime"), "mtime")
    BY <1>1, AttrsAfterFew
  <2>2. AttrsAfter(x, wa) = AttrStep(flags, AttrSize, "size", x)
    BY <2>1 DEF When, AttrStep
  <2>3. AttrsAfter(x, wb) = AttrStep(flags, AttrUIDGID, "gid", AttrStep(flags, AttrUIDGID, "uid", x))
    BY <2>1 DEF When, AttrStep
  <2>4. AttrsAfter(x, wc) = AttrStep(flags, AttrPermissions, "mode", x)
    BY <2>1 DEF When, AttrStep
  <2>5. AttrsAfter(x, wd)
          = AttrStep(flags, AttrACmodTime, "mtime", AttrStep(flags, AttrACmodTime, "atime", x))
    BY <2>1 DEF When, AttrStep
  <2>6. AttrsAfter(x, we) = AttrStep(flags, AttrExtended, "extended", x)
    BY <2>1 DEF When, AttrStep
  <2> QED BY <2>2, <2>3, <2>4, <2>5, <2>6
<1> HIDE DEF wa, wb, wc, wd, we, c1, c2, c3, c4, c5
<1>5. \A s, t \in Seq(AttrNames) : s \o t \in Seq(AttrNames)
                                   /\ AttrsAfter(r, s \o t) = AttrsAfter(AttrsAfter(r, s), t)
  <2> TAKE s, t \in Seq(AttrNames)
  <2>1. s \o t \in Seq(AttrNames)
    OBVIOUS
  <2> QED BY <2>1, AttrsAfterConcat
<1>6. wa \o wb \in Seq(AttrNames) /\ AttrsAfter(r, wa \o wb) = AttrsAfter(AttrsAfter(r, wa), wb)
  BY <1>2, <1>5
<1> DEFINE wab == wa \o wb
<1> HIDE DEF wab
<1>7. wab \o wc \in Seq(AttrNames) /\ AttrsAfter(r, wab \o wc) = AttrsAfter(AttrsAfter(r, wab), wc)
  <2>1. wab \in Seq(AttrNames)
    BY <1>6 DEF wab
  <2> QED BY <1>2, <1>5, <2>1
<1> DEFINE wabc == wab \o wc
<1> HIDE DEF wabc
<1>8. wabc \o wd \in Seq(AttrNames) /\ AttrsAfter(r, wabc \o wd) = AttrsAfter(AttrsAfter(r, wabc), wd)
  <2>1. wabc \in Seq(AttrNames)
    BY <1>7 DEF wabc
  <2> QED BY <1>2, <1>5, <2>1
<1> DEFINE wabcd == wabc \o wd
<1> HIDE DEF wabcd
<1>9. AttrsAfter(r, wabcd \o we) = AttrsAfter(AttrsAfter(r, wabcd), we)
  <2>1. wabcd \in Seq(AttrNames)
    BY <1>8 DEF wabcd
  <2> QED BY <1>2, <1>5, <2>1
<1>10. FileStatFields(flags) = wabcd \o we
  BY <1>3 DEF wab, wabc, wabcd
<1>11. /\ AttrsAfter(r, wab) = AttrsAfter(AttrsAfter(r, wa), wb)
       /\ AttrsAfter(r, wabc) = AttrsAfter(AttrsAfter(r, wab), wc)
       /\ AttrsAfter(r, wabcd) = AttrsAfter(AttrsAfter(r, wabc), wd)
  BY <1>6, <1>7, <1>8 DEF wab, wabc, wabcd
<1> QED BY <1>4, <1>9, <1>10, <1>11

\* The fields of an ATTRS structure that its flags announce.
Announced(flags) == {f \in AttrNames : \E i \in DOMAIN FileStatFields(flags) : FileStatFields(flags)[i] = f}

Among(s, f) == \E i \in DOMAIN s : s[i] = f

LEMMA MemberOfConcat ==
  ASSUME NEW s \in Seq(AttrNames), NEW t \in Seq(AttrNames), NEW f, Among(s, f) \/ Among(t, f)
  PROVE  Among(s \o t, f)
<1>1. /\ Len(s) \in Nat /\ Len(t) \in Nat /\ DOMAIN s = 1..Len(s) /\ DOMAIN t = 1..Len(t)
      /\ DOMAIN (s \o t) = 1..(Len(s) + Len(t))
      /\ \A i \in 1..(Len(s) + Len(t)) : (s \o t)[i] = IF i <= Len(s) THEN s[i] ELSE t[i - Len(s)]
  BY ConcatProperties
<1>2. ASSUME NEW i \in DOMAIN s, s[i] = f PROVE \E j \in DOMAIN (s \o t) : (s \o t)[j] = f
  <2>1. i \in 1..(Len(s) + Len(t)) /\ i <= Len(s)
    BY <1>1
  <2>2. (s \o t)[i] = f
    BY <1>1, <1>2, <2>1
  <2> QED BY <1>1, <2>1, <2>2
<1>3. ASSUME NEW i \in DOMAIN t, t[i] = f PROVE \E j \in DOMAIN (s \o t) : (s \o t)[j] = f
  <2>1. i + Len(s) \in 1..(Len(s) + Len(t)) /\ ~ (i + Len(s) <= Len(s)) /\ (i + Len(s)) - Len(s) = i
    BY <1>1
  <2>2. (s \o t)[i + Len(s)] = f
    BY <1>1, <1>3, <2>1
  <2> QED BY <1>1, <2>1, <2>2
<1> QED BY <1>2, <1>3 DEF Among

LEMMA FlagsAnnounce ==
  ASSUME NEW flags
  PROVE  /\ HasFlag(flags, AttrSize) => "size" \in Announced(flags)
         /\ HasFlag(flags, AttrUIDGID) => "uid" \in Announced(flags) /\ "gid" \in Announced(flags)
         /\ HasFlag(flags, AttrPermissions) => "mode" \in Announced(flags)
         /\ HasFlag(flags, AttrACmodTime) => "atime" \in Announced(flags) /\ "mtime" \in Announced(flags)
         /\ HasFlag(flags, AttrExtended) => "extended" \in Announced(flags)
<1>1. /\ <<"size">> \in Seq(AttrNames) /\ <<"uid", "gid">> \in Seq(AttrNames)
      /\ <<"mode">> \in Seq(AttrNames) /\ <<"atime", "mtime">> \in Seq(AttrNames)
      /\ <<"extended">> \in Seq(AttrNames) /\ <<>> \in Seq(AttrNames)
      /\ "size" \in AttrNames /\ "uid" \in AttrNames /\ "gid" \in AttrNames /\ "mode" \in AttrNames
      /\ "atime" \in AttrNames /\ "mtime" \in AttrNames /\ "extended" \in AttrNames
  BY DEF AttrNames
<1> DEFINE wa == When(HasFlag(flags, AttrSize), <<"size">>)
<1> DEFINE wb == When(HasFlag(flags, AttrUIDGID), <<"uid", "gid">>)
<1> DEFINE wc == When(HasFlag(flags, AttrPermissions), <<"mode">>)
<1> DEFINE wd == When(HasFlag(flags, AttrACmodTime), <<"atime", "mtime">>)
<1> DEFINE we == When(HasFlag(flags, AttrExtended), <<"extended">>)
<1>2. /\ wa \in Seq(AttrNames) /\ wb \in Seq(AttrNames) /\ wc \in Seq(AttrNames)
      /\ wd \in Seq(AttrNames) /\ we \in Seq(AttrNames)
  BY <1>1 DEF When
<1>3. FileStatFields(flags) = (((wa \o wb) \o wc) \o wd) \o we
  BY DEF FileStatFields
<1>4. HasFlag(flags, AttrSize) => Among(wa, "size")
  <2>1. 1 \in DOMAIN <<"size">> /\ <<"size">>[1] = "size"
    OBVIOUS
  <2> QED BY <2>1 DEF When, Among
<1>5. HasFlag(flags, AttrUIDGID) => Among(wb, "uid") /\ Among(wb, "gid")
  <2>1. /\ 1 \in DOMAIN <<"uid", "gid">> /\ <<"uid", "gid">>[1] = "uid"
        /\ 2 \in DOMAIN <<"uid", "gid">> /\ <<"uid", "gid">>[2] = "gid"
    OBVIOUS
  <2> QED BY <2>1 DEF When, Among
<1>6. HasFlag(flags, AttrPermissions) => Among(wc, "mode")
  <2>1. 1 \in DOMAIN <<"mode">> /\ <<"mode">>[1] = "mode"
    OBVIOUS
  <2> QED BY <2>1 DEF When, Among
<1>7. HasFlag(flags, AttrACmodTime) => Among(wd, "atime") /\ Among(wd, "mtime")
  <2>1. /\ 1 \in DOMAIN <<"atime", "mtime">> /\ <<"atime", "mtime">>[1] = "atime"
        /\ 2 \in DOMAIN <<"atime", "mtime">> /\ <<"atime", "mtime">>[2] = "mtime"
    OBVIOUS
  <2> QED BY <2>1 DEF When, Among
<1>8. HasFlag(flags, AttrExtended) => Among(we, "extended")
  <2>1. 1 \in DOMAIN <<"extended">> /\ <<"extended">>[1] = "extended"
    OBVIOUS
  <2> QED BY <2>1 DEF When, Among
<1> HIDE DEF wa, wb, wc, wd, we
<1>9. \A s, t \in Seq(AttrNames) : /\ s \o t \in Seq(AttrNames)
                                   /\ \A f : Among(s, f) \/ Among(t, f) => Among(s \o t, f)
  <2> TAKE s, t \in Seq(AttrNames)
  <2>1. s \o t \in Seq(AttrNames)
    OBVIOUS
  <2>2. \A f : Among(s, f) \/ Among(t, f) => Among(s \o t, f)
    BY MemberOfConcat
  <2> QED BY <2>1, <2>2
<1> DEFINE wab == wa \o wb
<1> DEFINE wabc == wab \o wc
<1> DEFINE wabcd == wabc \o wd
<1> DEFINE all == wabcd \o we
<1>10. wab \in Seq(AttrNames) /\ \A f : Among(wa, f) \/ Among(wb, f) => Among(wab, f)
  BY <1>2, <1>9
<1>11. wabc \in Seq(AttrNames) /\ \A f : Among(wab, f) \/ Among(wc, f) => Among(wabc, f)
  <2> HIDE DEF wab
  <2> QED BY <1>2, <1>9, <1>10
<1>12. wabcd \in Seq(AttrNames) /\ \A f : Among(wabc, f) \/ Among(wd, f) => Among(wabcd, f)
  <2> HIDE DEF wabc
  <2> QED BY <1>2, <1>9, <1>11
<1>13. \A f : Among(wabcd, f) \/ Among(we, f) => Among(all, f)
  <2> HIDE DEF wabcd
  <2> QED BY <1>2, <1>9, <1>12
<1>14. FileStatFields(flags) = all
  BY <1>3
<1> HIDE DEF wab, wabc, wabcd, all
<1>15. \A f \in AttrNames : Among(all, f) => f \in Announced(flags)
  BY <1>14 DEF Announced, Among
<1> QED BY <1>1, <1>4, <1>5, <1>6, <1>7, <1>8, <1>10, <1>11, <1>12, <1>13, <1>15

\* Some fields have been read into r, and the bytes b were theirs and what is left.
FieldsRead(flags, b, r, done) ==
  \/ r = Short
  \/ \E fs \in FileStats, rest \in Seq(Bytes) :
       fs.flags = flags /\ r = Got(fs, rest) /\ b = FieldBytes(fs, done) \o rest

\* The bytes of some fields, when another one changes.
BytesKept(fs, f, v, done) == FieldBytes([fs EXCEPT ![f] = v], done) = FieldBytes(fs, done)

LEMMA OtherField ==
  ASSUME NEW S, NEW f, NEW done \in Seq(S), f \notin S, NEW fs, NEW v
  PROVE  BytesKept(fs, f, v, done)
<1> DEFINE fs2 == [fs EXCEPT ![f] = v]
<1> DEFINE x == [i \in DOMAIN done |-> MarshalBasic(TypeOf[done[i]], fs[done[i]])]
<1> DEFINE y == [i \in DOMAIN done |-> MarshalBasic(TypeOf[done[i]], fs2[done[i]])]
<1>0. \A g : g # f => fs2[g] = fs[g]
  OBVIOUS
<1> HIDE DEF fs2
<1>1. ASSUME NEW i \in DOMAIN done PROVE fs2[done[i]] = fs[done[i]]
  <2>1. done[i] \in S
    BY ElementOfSeq
  <2> QED BY <1>0, <2>1
<1>2. x = y
  BY <1>1
<1> HIDE DEF x, y
<1>3. FieldBytes(fs, done) = FlattenSeq(x) /\ FieldBytes(fs2, done) = FlattenSeq(y)
  BY DEF FieldBytes, x, y
<1> QED BY <1>2, <1>3 DEF fs2, BytesKept

\* The structure with the field in it is one again.
Stored(fs, f, v) ==
  LET fs2 == [fs EXCEPT ![f] = v] IN fs2 \in FileStats /\ fs2.flags = fs.flags /\ fs2[f] = v

LEMMA FieldStored ==
  ASSUME NEW fs \in FileStats, NEW f \in Announced(fs.flags), NEW v \in BasicValues(TypeOf[f])
  PROVE  Stored(fs, f, v)
<1> DEFINE fs2 == [fs EXCEPT ![f] = v]
<1> DEFINE R == [flags : Uint32, size : Uint32 \X Uint32, uid : Uint32, gid : Uint32, mode : Uint32,
                 atime : Uint32, mtime : Uint32, extended : Counted(Pairs)]
<1>1. f \in AttrNames /\ f # "flags"
  BY DEF Announced, AttrNames
<1>2. fs \in R /\ \A g \in AttrNames :
        (\A i \in DOMAIN FileStatFields(fs.flags) : FileStatFields(fs.flags)[i] # g) => fs[g] = NoAttrs[g]
  BY DEF FileStats
<1>3. fs2 \in R
  <2>1. /\ BasicValues("uint32") = Uint32 /\ BasicValues("uint64") = Uint32 \X Uint32
        /\ BasicValues("counted") = Counted(Pairs)
    BY DEF BasicValues
  <2>2. f \in {"size", "uid", "gid", "mode", "atime", "mtime", "extended"}
    BY <1>1 DEF AttrNames
  <2>3. CASE f = "size"
    BY <1>2, <2>1, <2>3, AttrTypes
  <2>4. CASE f = "extended"
    BY <1>2, <2>1, <2>4, AttrTypes
  <2>5. CASE f \in {"uid", "gid", "mode", "atime", "mtime"}
    BY <1>2, <2>1, <2>5, AttrTypes
  <2> QED BY <2>2, <2>3, <2>4, <2>5
<1>4. fs2.flags = fs.flags /\ fs2[f] = v /\ \A g \in AttrNames : g # f => fs2[g] = fs[g]
  BY <1>1, <1>2 DEF AttrNames
<1>5. \E i \in DOMAIN FileStatFields(fs.flags) : FileStatFields(fs.flags)[i] = f
  BY DEF Announced
<1> HIDE DEF fs2
<1>6. \A g \in AttrNames :
        (\A i \in DOMAIN FileStatFields(fs2.flags) : FileStatFields(fs2.flags)[i] # g) => fs2[g] = NoAttrs[g]
  BY <1>2, <1>4, <1>5
<1>7. fs2 \in FileStats
  BY <1>3, <1>6 DEF FileStats
<1> QED BY <1>4, <1>7 DEF fs2, Stored

LEMMA NextFieldRead ==
  ASSUME NEW flags, NEW b \in Seq(Bytes), NEW r, NEW S, NEW done \in Seq(S), S \subseteq AttrNames,
         NEW f \in Announced(flags), f \notin S, FieldsRead(flags, b, r, done)
  PROVE  FieldsRead(flags, b, AttrTurn(r, f), done \o <<f>>)
<1>1. CASE r = Short
  BY <1>1 DEF AttrTurn, SetField, Short, FieldsRead
<1>2. CASE r # Short
  <2>1. PICK fs \in FileStats, c \in Seq(Bytes) :
          fs.flags = flags /\ r = Got(fs, c) /\ b = FieldBytes(fs, done) \o c
    BY <1>2 DEF FieldsRead
  <2>2. f \in AttrNames /\ TypeOf[f] \in {"uint32", "uint64", "string", "counted"}
    BY AttrTypes DEF Announced, AttrNames
  <2> DEFINE u == UnmarshalBasic(TypeOf[f], c)
  <2>3. AttrTurn(r, f) = SetField(Got(fs, c), f, u)
    BY <2>1, GotFields DEF AttrTurn
  <2>4. CASE u = Short
    <3>1. SetField(Got(fs, c), f, Short) = Short
      BY DEF SetField, Short
    <3> QED BY <2>3, <2>4, <3>1 DEF FieldsRead
  <2>5. CASE u # Short
    <3>1. PICK v \in BasicValues(TypeOf[f]), rest \in Seq(Bytes) :
            u = Got(v, rest) /\ c = MarshalBasic(TypeOf[f], v) \o rest
      BY <2>1, <2>2, <2>5, BasicExact
    <3> DEFINE fs2 == [fs EXCEPT ![f] = v]
    <3>2. SetField(Got(fs, c), f, Got(v, rest)) = Got(fs2, rest)
      BY GotFields DEF SetField
    <3>3. fs2 \in FileStats /\ fs2.flags = flags /\ fs2[f] = v
      <4>1. f \in Announced(fs.flags)
        BY <2>1
      <4>2. v \in BasicValues(TypeOf[f])
        BY <3>1
      <4>3. Stored(fs, f, v)
        BY <4>1, <4>2, FieldStored
      <4> QED BY <2>1, <4>3 DEF Stored
    <3>4. FieldBytes(fs2, done) = FieldBytes(fs, done)
      <4>1. done \in Seq(S) /\ f \notin S
        OBVIOUS
      <4>2. BytesKept(fs, f, v, done)
        BY <4>1, OtherField
      <4> QED BY <4>2 DEF BytesKept
    <3> HIDE DEF fs2, u
    <3>5. done \in Seq(AttrNames) /\ <<f>> \in Seq(AttrNames)
      BY <2>2
    <3>6. FieldBytes(fs2, <<f>>) = MarshalBasic(TypeOf[f], v)
      BY <2>2, <3>3, FieldBytesFew
    <3>7. FieldBytes(fs2, done \o <<f>>) = FieldBytes(fs, done) \o MarshalBasic(TypeOf[f], v)
      BY <3>3, <3>4, <3>5, <3>6, FieldBytesJoin
    <3>8. FieldBytes(fs, done) \in Seq(Bytes) /\ MarshalBasic(TypeOf[f], v) \in Seq(Bytes)
      BY <2>1, <3>1, <3>5, FieldBytesBytes, BasicRoundTrip
    <3>9. (FieldBytes(fs, done) \o MarshalBasic(TypeOf[f], v)) \o rest
            = FieldBytes(fs, done) \o (MarshalBasic(TypeOf[f], v) \o rest)
      <4>1. rest \in Seq(Bytes)
        BY <3>1
      <4> QED BY <3>8, <4>1, Associative
    <3>10. b = FieldBytes(fs2, done \o <<f>>) \o rest
      BY <2>1, <3>1, <3>7, <3>9
    <3>11. AttrTurn(r, f) = Got(fs2, rest)
      BY <2>3, <3>1, <3>2
    <3> QED BY <3>1, <3>3, <3>10, <3>11 DEF FieldsRead
  <2> QED BY <2>4, <2>5
<1> QED BY <1>1, <1>2

\* The fields read so far are among S.
ReadAmong(flags, b, S, r, done) == S \subseteq AttrNames /\ done \in Seq(S) /\ FieldsRead(flags, b, r, done)

Maybe(flags, bit, f, done) == done \o When(HasFlag(flags, bit), <<f>>)

LEMMA MaybeRead ==
  ASSUME NEW flags, NEW b \in Seq(Bytes), NEW S, NEW r, NEW done, ReadAmong(flags, b, S, r, done),
         NEW bit, NEW f \in AttrNames, f \notin S, HasFlag(flags, bit) => f \in Announced(flags)
  PROVE  ReadAmong(flags, b, S \union {f}, AttrStep(flags, bit, f, r), Maybe(flags, bit, f, done))
<1>1. S \subseteq AttrNames /\ done \in Seq(S) /\ FieldsRead(flags, b, r, done)
  BY DEF ReadAmong
<1>2. S \union {f} \subseteq AttrNames
  BY <1>1
<1>3. done \in Seq(S \union {f}) /\ <<f>> \in Seq(S \union {f}) /\ done \o <<>> = done
  BY <1>1
<1>4. CASE HasFlag(flags, bit)
  <2>1. FieldsRead(flags, b, AttrTurn(r, f), done \o <<f>>)
    BY <1>1, <1>4, NextFieldRead
  <2>2. done \o <<f>> \in Seq(S \union {f})
    BY <1>3
  <2>3. Maybe(flags, bit, f, done) = done \o <<f>> /\ AttrStep(flags, bit, f, r) = AttrTurn(r, f)
    BY <1>4 DEF Maybe, When, AttrStep
  <2> QED BY <1>2, <2>1, <2>2, <2>3 DEF ReadAmong
<1>5. CASE ~ HasFlag(flags, bit)
  <2>1. Maybe(flags, bit, f, done) = done /\ AttrStep(flags, bit, f, r) = r
    BY <1>3, <1>5 DEF Maybe, When, AttrStep
  <2> QED BY <1>1, <1>2, <1>3, <2>1 DEF ReadAmong
<1> QED BY <1>4, <1>5

LEMMA TwoTogether ==
  ASSUME NEW All, NEW x \in All, NEW y \in All
  PROVE  <<x>> \o <<y>> = <<x, y>>
<1> DEFINE s == <<x>>
<1> DEFINE t == <<y>>
<1>1. s \in Seq(All) /\ t \in Seq(All) /\ Len(s) = 1 /\ Len(t) = 1 /\ s[1] = x /\ t[1] = y
  OBVIOUS
<1> HIDE DEF s, t
<1>2. /\ s \o t \in Seq(All) /\ Len(s \o t) = 2
      /\ (s \o t)[1] = x /\ (s \o t)[2] = y
  <2>1. /\ s \o t \in Seq(All) /\ Len(s \o t) = Len(s) + Len(t)
        /\ \A i \in 1..(Len(s) + Len(t)) : (s \o t)[i] = IF i <= Len(s) THEN s[i] ELSE t[i - Len(s)]
    BY <1>1, ConcatProperties
  <2>2. 1 \in 1..(Len(s) + Len(t)) /\ 2 \in 1..(Len(s) + Len(t)) /\ 2 - Len(s) = 1 /\ ~ (2 <= Len(s))
        /\ 1 <= Len(s)
    BY <1>1
  <2> QED BY <1>1, <2>1, <2>2
<1>3. <<x, y>> \in Seq(All) /\ Len(<<x, y>>) = 2 /\ <<x, y>>[1] = x /\ <<x, y>>[2] = y
  OBVIOUS
<1> DEFINE u == s \o t
<1> DEFINE w == <<x, y>>
<1> HIDE DEF u, w
<1>4. u \in Seq(All) /\ w \in Seq(All) /\ Len(u) = Len(w) /\ Len(u) = 2 /\ u[1] = w[1] /\ u[2] = w[2]
  BY <1>2, <1>3 DEF u, w
<1>5. \A i \in 1..Len(u) : u[i] = w[i]
  BY <1>4
<1>6. u = w
  BY <1>4, <1>5, SeqEqual
<1> QED BY <1>6 DEF u, w, s, t

\* The names one by one, as they are read, and together.
LEMMA MaybeTogether ==
  ASSUME NEW flags
  PROVE  LET d1 == Maybe(flags, AttrSize, "size", <<>>)
             d2 == Maybe(flags, AttrUIDGID, "uid", d1)
             d3 == Maybe(flags, AttrUIDGID, "gid", d2)
             d4 == Maybe(flags, AttrPermissions, "mode", d3)
             d5 == Maybe(flags, AttrACmodTime, "atime", d4)
             d6 == Maybe(flags, AttrACmodTime, "mtime", d5) IN
           Maybe(flags, AttrExtended, "extended", d6) = FileStatFields(flags)
<1> DEFINE c1 == HasFlag(flags, AttrSize)
<1> DEFINE c2 == HasFlag(flags, AttrUIDGID)
<1> DEFINE c3 == HasFlag(flags, AttrPermissions)
<1> DEFINE c4 == HasFlag(flags, AttrACmodTime)
<1> DEFINE c5 == HasFlag(flags, AttrExtended)
<1>1. /\ <<"size">> \in Seq(AttrNames) /\ <<"uid", "gid">> \in Seq(AttrNames)
      /\ <<"mode">> \in Seq(AttrNames) /\ <<"atime", "mtime">> \in Seq(AttrNames)
      /\ <<"extended">> \in Seq(AttrNames) /\ <<>> \in Seq(AttrNames)
      /\ <<"uid">> \in Seq(AttrNames) /\ <<"gid">> \in Seq(AttrNames)
      /\ <<"atime">> \in Seq(AttrNames) /\ <<"mtime">> \in Seq(AttrNames)
  BY DEF AttrNames
<1>2. <<"uid">> \o <<"gid">> = <<"uid", "gid">> /\ <<"atime">> \o <<"mtime">> = <<"atime", "mtime">>
  <2>1. "uid" \in AttrNames /\ "gid" \in AttrNames /\ "atime" \in AttrNames /\ "mtime" \in AttrNames
    BY DEF AttrNames
  <2> QED BY <2>1, TwoTogether
<1> DEFINE wa == When(c1, <<"size">>)
<1> DEFINE wu == When(c2, <<"uid">>)
<1> DEFINE wg == When(c2, <<"gid">>)
<1> DEFINE wb == When(c2, <<"uid", "gid">>)
<1> DEFINE wc == When(c3, <<"mode">>)
<1> DEFINE wt == When(c4, <<"atime">>)
<1> DEFINE wm == When(c4, <<"mtime">>)
<1> DEFINE wd == When(c4, <<"atime", "mtime">>)
<1> DEFINE we == When(c5, <<"extended">>)
<1>3. /\ wa \in Seq(AttrNames) /\ wu \in Seq(AttrNames) /\ wg \in Seq(AttrNames)
      /\ wc \in Seq(AttrNames) /\ wt \in Seq(AttrNames) /\ wm \in Seq(AttrNames)
  BY <1>1 DEF When
<1>4. wu \o wg = wb /\ wt \o wm = wd
  <2>1. <<>> \o <<>> = <<>>
    OBVIOUS
  <2> QED BY <1>2, <2>1 DEF When
<1>5. FileStatFields(flags) = (((wa \o wb) \o wc) \o wd) \o we
  BY DEF FileStatFields
<1> HIDE DEF wa, wu, wg, wb, wc, wt, wm, wd, we, c1, c2, c3, c4, c5
<1>6. <<>> \o wa = wa
  BY <1>3
<1>7. (wa \o wu) \o wg = wa \o wb
  <2>1. (wa \o wu) \o wg = wa \o (wu \o wg)
    BY <1>3
  <2> QED BY <1>4, <2>1, Zenon
<1> DEFINE w3 == (wa \o wb) \o wc
<1>8. w3 \in Seq(AttrNames)
  <2>0. (wa \o wu) \o wg \in Seq(AttrNames)
    BY <1>3
  <2>1. wa \o wb \in Seq(AttrNames)
    BY <1>7, <2>0, Zenon
  <2> QED BY <1>3, <2>1
<1> HIDE DEF w3
<1>9. (w3 \o wt) \o wm = w3 \o wd
  <2>1. (w3 \o wt) \o wm = w3 \o (wt \o wm)
    BY <1>3, <1>8
  <2> QED BY <1>4, <2>1, Zenon
<1> QED BY <1>5, <1>6, <1>7, <1>9 DEF Maybe, w3, wa, wu, wg, wb, wc, wt, wm, wd, we, c1, c2, c3, c4, c5

\* What the loop of UnmarshalFileStat starts with.
LEMMA NothingButFlags ==
  ASSUME NEW flags \in Uint32, NEW b \in Seq(Bytes)
  PROVE  ReadAmong(flags, b, {}, Got([NoAttrs EXCEPT !.flags = flags], b), <<>>)
<1> DEFINE fs == [NoAttrs EXCEPT !.flags = flags]
<1>1. /\ fs.flags = flags /\ \A g \in AttrNames : fs[g] = NoAttrs[g]
  BY DEF AttrNames, NoAttrs
<1>2. fs \in [flags : Uint32, size : Uint32 \X Uint32, uid : Uint32, gid : Uint32, mode : Uint32,
              atime : Uint32, mtime : Uint32, extended : Counted(Pairs)]
  <2>1. 0 \in Uint32
    BY DEF Uint32, Base
  <2>2. <<>> \in Seq(Pairs) /\ Len(<<>>) = 0
    OBVIOUS
  <2>3. <<>> \in Counted(Pairs)
    BY <2>1, <2>2 DEF Counted
  <2> QED BY <2>1, <2>3 DEF NoAttrs
<1>3. fs \in FileStats
  <2> HIDE DEF fs
  <2> QED BY <1>1, <1>2 DEF FileStats
<1>4. FieldBytes(fs, <<>>) = <<>>
  <2> HIDE DEF fs
  <2> QED BY <1>3, FieldBytesFew
<1>5. b = FieldBytes(fs, <<>>) \o b
  BY <1>4
<1>6. <<>> \in Seq({})
  OBVIOUS
<1> HIDE DEF fs
<1>7. Got(fs, b) = Got([NoAttrs EXCEPT !.flags = flags], b)
  BY DEF fs
<1>8. FieldsRead(flags, b, Got(fs, b), <<>>)
  BY <1>1, <1>3, <1>5 DEF FieldsRead
<1> QED BY <1>6, <1>7, <1>8 DEF ReadAmong

LEMMA AttrsRead ==
  ASSUME NEW flags \in Uint32, NEW b \in Seq(Bytes)
  PROVE  FieldsRead(flags, b, AttrsAfter(Got([NoAttrs EXCEPT !.flags = flags], b), FileStatFields(flags)),
                    FileStatFields(flags))
<1> DEFINE r0 == Got([NoAttrs EXCEPT !.flags = flags], b)
<1> DEFINE r1 == AttrStep(flags, AttrSize, "size", r0)
<1> DEFINE r2 == AttrStep(flags, AttrUIDGID, "uid", r1)
<1> DEFINE r3 == AttrStep(flags, AttrUIDGID, "gid", r2)
<1> DEFINE r4 == AttrStep(flags, AttrPermissions, "mode", r3)
<1> DEFINE r5 == AttrStep(flags, AttrACmodTime, "atime", r4)
<1> DEFINE r6 == AttrStep(flags, AttrACmodTime, "mtime", r5)
<1> DEFINE r7 == AttrStep(flags, AttrExtended, "extended", r6)
<1> DEFINE d1 == Maybe(flags, AttrSize, "size", <<>>)
<1> DEFINE d2 == Maybe(flags, AttrUIDGID, "uid", d1)
<1> DEFINE d3 == Maybe(flags, AttrUIDGID, "gid", d2)
<1> DEFINE d4 == Maybe(flags, AttrPermissions, "mode", d3)
<1> DEFINE d5 == Maybe(flags, AttrACmodTime, "atime", d4)
<1> DEFINE d6 == Maybe(flags, AttrACmodTime, "mtime", d5)
<1> DEFINE d7 == Maybe(flags, AttrExtended, "extended", d6)
<1>1. AttrsAfter(r0, FileStatFields(flags)) = r7
  BY AttrsUnrolled
<1>2. d7 = FileStatFields(flags)
  BY MaybeTogether
<1>3. ReadAmong(flags, b, {}, r0, <<>>)
  BY NothingButFlags
<1>4. "size" \in AttrNames /\ "uid" \in AttrNames /\ "gid" \in AttrNames /\ "mode" \in AttrNames
      /\ "atime" \in AttrNames /\ "mtime" \in AttrNames /\ "extended" \in AttrNames
  BY DEF AttrNames
<1> DEFINE S1 == {} \union {"size"}
<1> DEFINE S2 == S1 \union {"uid"}
<1> DEFINE S3 == S2 \union {"gid"}
<1> DEFINE S4 == S3 \union {"mode"}
<1> DEFINE S5 == S4 \union {"atime"}
<1> DEFINE S6 == S5 \union {"mtime"}
<1> DEFINE S7 == S6 \union {"extended"}
<1>5. "size" \notin {} /\ "uid" \notin S1 /\ "gid" \notin S2 /\ "mode" \notin S3 /\ "atime" \notin S4
      /\ "mtime" \notin S5 /\ "extended" \notin S6
  OBVIOUS
<1> HIDE DEF r0, r1, r2, r3, r4, r5, r6, r7, d1, d2, d3, d4, d5, d6, d7, S1, S2, S3, S4, S5, S6, S7
<1>11. ReadAmong(flags, b, S1, r1, d1)
  BY <1>3, <1>4, <1>5, FlagsAnnounce, MaybeRead DEF r1, d1, S1
<1>12. ReadAmong(flags, b, S2, r2, d2)
  BY <1>11, <1>4, <1>5, FlagsAnnounce, MaybeRead DEF r2, d2, S2
<1>13. ReadAmong(flags, b, S3, r3, d3)
  BY <1>12, <1>4, <1>5, FlagsAnnounce, MaybeRead DEF r3, d3, S3
<1>14. ReadAmong(flags, b, S4, r4, d4)
  BY <1>13, <1>4, <1>5, FlagsAnnounce, MaybeRead DEF r4, d4, S4
<1>15. ReadAmong(flags, b, S5, r5, d5)
  BY <1>14, <1>4, <1>5, FlagsAnnounce, MaybeRead DEF r5, d5, S5
<1>16. ReadAmong(flags, b, S6, r6, d6)
  BY <1>15, <1>4, <1>5, FlagsAnnounce, MaybeRead DEF r6, d6, S6
<1>17. ReadAmong(flags, b, S7, r7, d7)
  BY <1>16, <1>4, <1>5, FlagsAnnounce, MaybeRead DEF r7, d7, S7
<1> QED BY <1>1, <1>2, <1>17 DEF ReadAmong, r0

LEMMA FileStatsTyped ==
  ASSUME NEW fs \in FileStats
  PROVE  fs.flags \in Uint32
BY DEF FileStats

\* An ATTRS structure that decodes is in the bytes as it is encoded.
LEMMA AttrsExact ==
  ASSUME NEW b \in Seq(Bytes)
  PROVE  \/ UnmarshalAttrs(b) = Short
         \/ \E fs \in FileStats, rest \in Seq(Bytes) :
              UnmarshalAttrs(b) = Got(fs, rest) /\ b = MarshalFileStat(fs) \o rest
<1>1. CASE UnmarshalUint32Safe(b) = Short
  BY <1>1, ShortFields DEF UnmarshalAttrs, UnmarshalFileStat
<1>2. CASE UnmarshalUint32Safe(b) # Short
  <2>1. PICK flags \in Uint32, c \in Seq(Bytes) :
          UnmarshalUint32Safe(b) = Got(flags, c) /\ b = MarshalUint32(flags) \o c
    BY <1>2, Uint32Exact
  <2> DEFINE u == AttrsAfter(Got([NoAttrs EXCEPT !.flags = flags], c), FileStatFields(flags))
  <2>2. UnmarshalAttrs(b) = u
    <3>1. UnmarshalAttrs(b) = UnmarshalFileStat(Got(flags, c))
      BY <2>1 DEF UnmarshalAttrs
    <3>2. Got(flags, c).failed = FALSE /\ Got(flags, c).v = flags /\ Got(flags, c).rest = c
      BY GotFields
    <3>3. UnmarshalFileStat(Got(flags, c)) = u
      BY <3>2, Zenon DEF UnmarshalFileStat, AttrsAfter
    <3> QED BY <3>1, <3>3
  <2>3. FieldsRead(flags, c, u, FileStatFields(flags))
    BY <2>1, AttrsRead
  <2> HIDE DEF u
  <2>4. CASE u = Short
    BY <2>2, <2>4
  <2>5. CASE u # Short
    <3>1. PICK fs \in FileStats, rest \in Seq(Bytes) :
            fs.flags = flags /\ u = Got(fs, rest) /\ c = FieldBytes(fs, FileStatFields(flags)) \o rest
      BY <2>3, <2>5 DEF FieldsRead
    <3>2. MarshalFileStat(fs) = MarshalUint32(flags) \o FieldBytes(fs, FileStatFields(flags))
      BY <3>1 DEF MarshalFileStat, FieldBytes
    <3>3. MarshalUint32(flags) \in Seq(Bytes) /\ FieldBytes(fs, FileStatFields(flags)) \in Seq(Bytes)
      <4>1. FileStatFields(flags) \in Seq(AttrNames)
        BY FieldNames
      <4> QED BY <2>1, <3>1, <4>1, Uint32Bytes, FieldBytesBytes
    <3>4. (MarshalUint32(flags) \o FieldBytes(fs, FileStatFields(flags))) \o rest
            = MarshalUint32(flags) \o (FieldBytes(fs, FileStatFields(flags)) \o rest)
      <4>1. rest \in Seq(Bytes)
        BY <3>1
      <4> QED BY <3>3, <4>1, Associative
    <3> QED BY <2>1, <2>2, <3>1, <3>2, <3>4
  <2> QED BY <2>4, <2>5
<1> QED BY <1>1, <1>2

\* Attributes decoded behind other values.
AttrsReadIn(vs, b) ==
  \/ AndAttrs(Got(vs, b)) = Short
  \/ \E fs \in FileStats, rest \in Seq(Bytes) :
       AndAttrs(Got(vs, b)) = Got(Append(vs, fs), rest) /\ b = MarshalFileStat(fs) \o rest

LEMMA EveryAttrsRead ==
  \A vs : \A b \in Seq(Bytes) : AttrsReadIn(vs, b)
<1> TAKE vs
<1> TAKE b \in Seq(Bytes)
<1>1. AndAttrs(Got(vs, b)) = AndThen(Got(vs, b), UnmarshalAttrs(b))
  BY GotFields DEF AndAttrs
<1>2. CASE UnmarshalAttrs(b) = Short
  BY <1>1, <1>2, NothingAfterShort DEF AttrsReadIn
<1>3. CASE UnmarshalAttrs(b) # Short
  <2>1. PICK fs \in FileStats, rest \in Seq(Bytes) :
          UnmarshalAttrs(b) = Got(fs, rest) /\ b = MarshalFileStat(fs) \o rest
    BY <1>3, AttrsExact
  <2>2. AndThen(Got(vs, b), Got(fs, rest)) = Got(Append(vs, fs), rest)
    BY ThenGot
  <2> QED BY <1>1, <2>1, <2>2 DEF AttrsReadIn
<1> QED BY <1>2, <1>3

\* An entry decoded behind others.
EntryReads(vs, b) ==
  \/ UnmarshalEntry(Got(vs, b)) = Short
  \/ \E e \in Entries, rest \in Seq(Bytes) :
       UnmarshalEntry(Got(vs, b)) = Got(Append(vs, e), rest) /\ b = MarshalNameAttr(e) \o rest

LEMMA NoEntryAfterShort ==
  /\ AndAttrs(Short) = Short
  /\ \A r : AndEntry(r, Short) = Short
  /\ UnmarshalEntry(Short) = Short
BY ShortFields, NothingAfterShort DEF AndAttrs, AndEntry, UnmarshalEntry

LEMMA EveryEntryReads ==
  \A vs : \A b \in Seq(Bytes) : EntryReads(vs, b)
<1> TAKE vs
<1> TAKE b \in Seq(Bytes)
<1> DEFINE one == AndString(Got(<<>>, b))
<1> DEFINE two == AndString(one)
<1> DEFINE three == AndAttrs(two)
<1>1. UnmarshalEntry(Got(vs, b)) = AndEntry(Got(vs, b), three)
  BY GotFields DEF UnmarshalEntry
<1>2. CASE one = Short
  <2>1. three = Short
    BY <1>2, NothingAfterShort, NoEntryAfterShort
  <2> QED BY <1>1, <2>1, NoEntryAfterShort DEF EntryReads
<1>3. CASE one # Short
  <2>0. StringRead(<<>>, b)
    BY EveryStringRead
  <2>1. PICK x \in Texts, c \in Seq(Bytes) :
          one = Got(Append(<<>>, x), c) /\ b = MarshalString(x) \o c
    BY <1>3, <2>0 DEF StringRead
  <2> DEFINE vs1 == Append(<<>>, x)
  <2>2. one = Got(vs1, c)
    BY <2>1
  <2> HIDE DEF vs1, one
  <2>3. StringRead(vs1, c)
    BY EveryStringRead
  <2>4. CASE two = Short
    <3>1. three = Short
      BY <2>4, NoEntryAfterShort
    <3> QED BY <1>1, <3>1, NoEntryAfterShort DEF EntryReads
  <2>5. CASE two # Short
    <3>1. PICK y \in Texts, d \in Seq(Bytes) :
            two = Got(Append(vs1, y), d) /\ c = MarshalString(y) \o d
      BY <2>2, <2>3, <2>5 DEF StringRead
    <3> DEFINE vs2 == Append(vs1, y)
    <3>2. two = Got(vs2, d)
      BY <3>1
    <3> HIDE DEF vs2, two
    <3>3. AttrsReadIn(vs2, d)
      BY EveryAttrsRead
    <3>4. CASE three = Short
      BY <1>1, <3>4, NoEntryAfterShort DEF EntryReads
    <3>5. CASE three # Short
      <4>1. PICK fs \in FileStats, rest \in Seq(Bytes) :
              three = Got(Append(vs2, fs), rest) /\ d = MarshalFileStat(fs) \o rest
        BY <3>2, <3>3, <3>5 DEF AttrsReadIn
      <4> DEFINE all == Append(vs2, fs)
      <4> DEFINE e == [filename |-> x, longname |-> y, attrs |-> fs]
      <4>2. all[1] = x /\ all[2] = y /\ all[3] = fs
        <5> DEFINE All == Texts \union FileStats
        <5>1. x \in All /\ y \in All /\ fs \in All
          OBVIOUS
        <5> HIDE DEF All
        <5>2. LET t == Append(Append(Append(<<>>, x), y), fs) IN t[1] = x /\ t[2] = y /\ t[3] = fs
          BY <5>1, ThreeAppended
        <5> QED BY <5>2 DEF vs1, vs2
      <4>3. e \in Entries
        BY DEF Entries
      <4>4. AndEntry(Got(vs, b), three) = Got(Append(vs, e), rest)
        <5>1. three = Got(all, rest)
          BY <4>1
        <5> HIDE DEF three, all
        <5>2. AndEntry(Got(vs, b), Got(all, rest))
                = Got(Append(vs, [filename |-> all[1], longname |-> all[2], attrs |-> all[3]]), rest)
          BY GotFields DEF AndEntry
        <5> QED BY <4>2, <5>1, <5>2
      <4>5. MarshalNameAttr(e) = (MarshalString(x) \o MarshalString(y)) \o MarshalFileStat(fs)
        BY DEF MarshalNameAttr
      <4>6. b = MarshalNameAttr(e) \o rest
        <5> DEFINE sx == MarshalString(x)
        <5> DEFINE sy == MarshalString(y)
        <5> DEFINE sf == MarshalFileStat(fs)
        <5>1. sx \in Seq(Bytes) /\ sy \in Seq(Bytes) /\ sf \in Seq(Bytes)
          <6>1. sx \in Seq(Bytes) /\ sy \in Seq(Bytes)
            BY StringBytes
          <6>2. sf \in Seq(Bytes)
            BY EmptySeq, AttrsRoundTrip
          <6> QED BY <6>1, <6>2
        <5>2. b = sx \o c /\ c = sy \o d /\ d = sf \o rest
          BY <2>1, <3>1, <4>1
        <5>6. rest \in Seq(Bytes) /\ d \in Seq(Bytes)
          BY <3>1, <4>1
        <5>3. MarshalNameAttr(e) = (sx \o sy) \o sf
          BY <4>5
        <5> HIDE DEF sx, sy, sf, e
        <5>4. (sx \o sy) \o d = sx \o (sy \o d)
          <6>1. \A p, q, r \in Seq(Bytes) : (p \o q) \o r = p \o (q \o r)
            BY Associative
          <6>2. sx \in Seq(Bytes) /\ sy \in Seq(Bytes) /\ d \in Seq(Bytes)
            BY <5>1, <5>6
          <6> QED BY <6>2, Associative
        <5>5. ((sx \o sy) \o sf) \o rest = (sx \o sy) \o (sf \o rest)
          <6> DEFINE s == sx \o sy
          <6>1. s \in Seq(Bytes)
            BY <5>1, Concat
          <6> HIDE DEF s
          <6>2. (s \o sf) \o rest = s \o (sf \o rest)
            <7>1. \A p, q, r \in Seq(Bytes) : (p \o q) \o r = p \o (q \o r)
              BY Associative
            <7> QED BY <5>1, <5>6, <6>1, <7>1, Zenon
          <6> QED BY <6>2 DEF s
        <5> QED BY <5>2, <5>3, <5>4, <5>5
      <4> QED BY <1>1, <4>3, <4>4, <4>6 DEF EntryReads
    <3> QED BY <3>4, <3>5
  <2> QED BY <2>4, <2>5
<1> QED BY <1>2, <1>3

LEMMA NamesAdvances == Advances("names")
<1> SUFFICES ASSUME NEW b \in Seq(Bytes), NEW k \in Nat, NEW r, NEW i, ListRead("names", b, r, k)
             PROVE  ListRead("names", b, Turn("names", "any", r, i), k + 1)
  BY DEF Advances
<1>1. Turn("names", "any", r, i) = UnmarshalEntry(r)
  BY DEF Turn
<1>2. CASE r = Short
  BY <1>1, <1>2, NoEntryAfterShort, NotAdvanced
<1>3. CASE r # Short
  <2>1. PICK v \in Seq(Items("names")), c \in Seq(Bytes) :
          r = Got(v, c) /\ b = ItemBytes("names", v) \o c /\ Len(v) = k
    BY <1>3 DEF ListRead
  <2>2. EntryReads(v, c)
    BY EveryEntryReads
  <2>3. CASE UnmarshalEntry(Got(v, c)) = Short
    BY <1>1, <2>1, <2>3, NotAdvanced
  <2>4. CASE UnmarshalEntry(Got(v, c)) # Short
    <3>1. PICK x \in Entries, rest \in Seq(Bytes) :
            UnmarshalEntry(Got(v, c)) = Got(Append(v, x), rest) /\ c = MarshalNameAttr(x) \o rest
      BY <2>2, <2>4 DEF EntryReads
    <3>2. x \in Items("names") /\ Item("names", x) = MarshalNameAttr(x)
      BY DEF Items, Item
    <3>3. ListRead("names", b, Got(Append(v, x), rest), k + 1)
      BY <2>1, <3>1, <3>2, ListGrows
    <3> QED BY <1>1, <2>1, <3>1, <3>3
  <2> QED BY <2>3, <2>4
<1> QED BY <1>2, <1>3

LEMMA NamesExact ==
  ASSUME NEW n \in Nat, NEW b \in Seq(Bytes)
  PROVE  ListRead("names", b, UnmarshalEntries(Got(n, b)), n)
<1> DEFINE m == IF n > Len(b) THEN Len(b) + 1 ELSE n
<1>1. Len(b) \in Nat /\ m \in Nat
  OBVIOUS
<1>3. PICK run : /\ Runs("names", "any", Got(<<>>, b), [i \in 1..m |-> i], m, run)
                 /\ UnmarshalEntries(Got(n, b)) = run[m]
  BY <1>1, NamesTurns
<1>4. ListRead("names", b, run[m], m)
  <2> HIDE DEF m
  <2> QED BY <1>1, <1>3, ListExact, NamesAdvances
<1>5. ListRead("names", b, UnmarshalEntries(Got(n, b)), m)
  <2> HIDE DEF m
  <2> QED BY <1>3, <1>4, Zenon
<1> QED BY <1>5, CountIsRead

\* A listing that decodes is in the bytes as it is encoded.
LEMMA ListingExact ==
  ASSUME NEW b \in Seq(Bytes)
  PROVE  Exactly(UnmarshalEntries(UnmarshalUint32Safe(b)), b, "names")
<1>1. CASE UnmarshalUint32Safe(b) = Short
  BY <1>1, ShortFields DEF UnmarshalEntries, Exactly
<1>2. CASE UnmarshalUint32Safe(b) # Short
  <2>1. PICK n \in Uint32, c \in Seq(Bytes) :
          UnmarshalUint32Safe(b) = Got(n, c) /\ b = MarshalUint32(n) \o c
    BY <1>2, Uint32Exact
  <2>2. n \in Nat
    BY DEF Uint32
  <2>3. ListRead("names", c, UnmarshalEntries(Got(n, c)), n)
    BY <2>1, <2>2, NamesExact
  <2>4. CASE UnmarshalEntries(Got(n, c)) = Short
    BY <2>1, <2>4 DEF Exactly
  <2>5. CASE UnmarshalEntries(Got(n, c)) # Short
    <3>1. PICK v \in Seq(Items("names")), rest \in Seq(Bytes) :
            /\ UnmarshalEntries(Got(n, c)) = Got(v, rest) /\ c = ItemBytes("names", v) \o rest
            /\ Len(v) = n
      BY <2>3, <2>5 DEF ListRead
    <3>2. v \in Values("names")
      BY <3>1 DEF Items, Counted, Values
    <3>3. MarshalUint32(n) \in Seq(Bytes) /\ ItemBytes("names", v) \in Seq(Bytes)
      BY <3>1, Uint32Bytes, ItemsAreBytes
    <3>4. Marshal("names", v) = MarshalUint32(n) \o ItemBytes("names", v)
      BY <3>1 DEF Marshal, ItemBytes, Item
    <3>5. (MarshalUint32(n) \o ItemBytes("names", v)) \o rest
            = MarshalUint32(n) \o (ItemBytes("names", v) \o rest)
      <4>1. \A x, y, z \in Seq(Bytes) : (x \o y) \o z = x \o (y \o z)
        BY Associative
      <4>2. rest \in Seq(Bytes)
        BY <3>1
      <4> QED BY <3>3, <4>1, <4>2, Zenon
    <3>6. b = Marshal("names", v) \o rest
      BY <2>1, <3>1, <3>4, <3>5
    <3> QED BY <2>1, <3>1, <3>2, <3>6 DEF Exactly
  <2> QED BY <2>4, <2>5
<1> QED BY <1>1, <1>2

FieldTypes == {"uint32", "uint64", "string", "counted", "pairs", "attrs", "names"}

\* Whatever bytes arrive: a field that decodes has a value of its type, and its encoding is what
\* the field took off the bytes.  Otherwise the decoder has failed and nothing is left.
THEOREM FieldExact ==
  ASSUME NEW type \in FieldTypes, NEW b \in Seq(Bytes)
  PROVE  Exactly(Unmarshal(type, b), b, type)
<1>1. CASE type = "attrs"
  <2>1. Unmarshal(type, b) = UnmarshalAttrs(b) /\ Values(type) = FileStats
        /\ \A v : Marshal(type, v) = MarshalFileStat(v)
    BY <1>1 DEF Unmarshal, Values, Marshal
  <2>2. \/ UnmarshalAttrs(b) = Short
        \/ \E fs \in FileStats, rest \in Seq(Bytes) :
             UnmarshalAttrs(b) = Got(fs, rest) /\ b = MarshalFileStat(fs) \o rest
    BY AttrsExact
  <2> QED BY <2>1, <2>2 DEF Exactly
<1>2. CASE type = "names"
  <2>1. Unmarshal(type, b) = UnmarshalEntries(UnmarshalUint32Safe(b))
    BY <1>2 DEF Unmarshal
  <2> QED BY <1>2, <2>1, ListingExact
<1>3. CASE type = "pairs"
  <2>1. Unmarshal(type, b) = UnmarshalPairs(b)
    BY <1>3 DEF Unmarshal, UnmarshalBasic
  <2> QED BY <1>3, <2>1, PairsExact
<1>4. CASE type \in {"uint32", "uint64", "string", "counted"}
  <2>1. Unmarshal(type, b) = UnmarshalBasic(type, b) /\ Values(type) = BasicValues(type)
        /\ \A v : Marshal(type, v) = MarshalBasic(type, v)
    BY <1>4 DEF Unmarshal, Values, Marshal
  <2>2. \/ UnmarshalBasic(type, b) = Short
        \/ \E v \in BasicValues(type), rest \in Seq(Bytes) :
             UnmarshalBasic(type, b) = Got(v, rest) /\ b = MarshalBasic(type, v) \o rest
    BY <1>4, BasicExact
  <2> QED BY <2>1, <2>2 DEF Exactly
<1> QED BY <1>1, <1>2, <1>3, <1>4 DEF FieldTypes

-----------------------------------------------------------------------------
(* The first fields of a packet, read.                                     *)

LEMMA FlattenMore ==
  ASSUME NEW s \in Seq(Seq(Bytes)), NEW t \in Seq(Seq(Bytes)), Len(t) = Len(s) + 1,
         \A i \in 1..Len(s) : t[i] = s[i]
  PROVE  FlattenSeq(t) = FlattenSeq(s) \o t[Len(t)]
<1> DEFINE n == Len(s)
<1> DEFINE last == t[Len(t)]
<1>1. n \in Nat /\ Len(t) = n + 1 /\ last = t[n + 1] /\ last \in Seq(Bytes)
  OBVIOUS
<1> HIDE DEF n, last
<1>2. <<last>> \in Seq(Seq(Bytes)) /\ Len(<<last>>) = 1 /\ <<last>>[1] = last
  BY <1>1
<1> DEFINE u == s \o <<last>>
<1>3. /\ u \in Seq(Seq(Bytes)) /\ Len(u) = n + 1
      /\ \A i \in 1..(n + 1) : u[i] = IF i <= n THEN s[i] ELSE <<last>>[i - n]
  BY <1>1, <1>2, ConcatProperties DEF n
<1> HIDE DEF u
<1>4. \A i \in 1..(n + 1) : t[i] = u[i]
  <2>1. ASSUME NEW i \in 1..(n + 1) PROVE t[i] = u[i]
    <3>1. CASE i <= n
      <4>1. i \in 1..n
        BY <1>1, <3>1
      <4>2. t[i] = s[i]
        BY <4>1 DEF n
      <4> QED BY <1>3, <3>1, <4>2
    <3>2. CASE ~ (i <= n)
      <4>1. i = n + 1 /\ i - n = 1
        BY <1>1, <3>2
      <4> QED BY <1>1, <1>2, <1>3, <3>2, <4>1
    <3> QED BY <3>1, <3>2
  <2> QED BY <2>1
<1>5. t = u
  BY <1>1, <1>3, <1>4, SeqEqual
<1>6. FlattenSeq(u) = FlattenSeq(s) \o FlattenSeq(<<last>>)
  BY <1>2, FlattenParts DEF u
<1>7. FlattenSeq(<<last>>) = last
  BY <1>1, FlattenFew
<1> QED BY <1>5, <1>6, <1>7 DEF last

LEMMA MarshalledBytes ==
  ASSUME NEW type, NEW v \in Values(type)
  PROVE  Marshal(type, v) \in Seq(Bytes)
<1>1. CASE type = "pairs"
  BY <1>1, ExtensionsRoundTrip
<1>2. CASE type # "pairs"
  BY <1>2, FieldRoundTrip
<1> QED BY <1>1, <1>2

Distinct(layout) == \A i, j \in DOMAIN layout : layout[i] = layout[j] => i = j

\* The bytes of the first k fields.
FirstBytes(layout, k, vs) == FlattenSeq([i \in 1..k |-> Marshal(TypeOf[layout[i]], vs[layout[i]])])

\* The first k fields, with their types, and the bytes b are theirs and what is left.
ReadSoFar(layout, b, k, vs, left) ==
  /\ left \in Seq(Bytes)
  /\ \A i \in 1..k : layout[i] \in DOMAIN vs /\ vs[layout[i]] \in Values(TypeOf[layout[i]])
  /\ b = FirstBytes(layout, k, vs) \o left

LEMMA FirstAreBytes ==
  ASSUME NEW layout, NEW k \in Nat, NEW vs, \A i \in 1..k : vs[layout[i]] \in Values(TypeOf[layout[i]])
  PROVE  LET s == [i \in 1..k |-> Marshal(TypeOf[layout[i]], vs[layout[i]])] IN
           /\ s \in Seq(Seq(Bytes)) /\ Len(s) = k
           /\ FirstBytes(layout, k, vs) = FlattenSeq(s) /\ FlattenSeq(s) \in Seq(Bytes)
<1> DEFINE s == [i \in 1..k |-> Marshal(TypeOf[layout[i]], vs[layout[i]])]
<1>1. \A i \in 1..k : Marshal(TypeOf[layout[i]], vs[layout[i]]) \in Seq(Bytes)
  BY MarshalledBytes
<1>2. s \in [1..k -> Seq(Bytes)]
  BY <1>1
<1>3. s \in Seq(Seq(Bytes)) /\ Len(s) = k
  BY <1>2
<1>4. FirstBytes(layout, k, vs) = FlattenSeq(s)
  BY DEF FirstBytes
<1> HIDE DEF s
<1>5. PICK t : Tails(s, Len(s), t) /\ t[0] = FlattenSeq(s)
  BY <1>3, FlattenTails
<1>6. FlattenSeq(s) \in Seq(Bytes)
  <2>1. t \in [0..k -> Seq(Bytes)] /\ 0 \in 0..k
    BY <1>3, <1>5 DEF Tails
  <2> QED BY <1>5, <2>1
<1> QED BY <1>3, <1>4, <1>6 DEF s

\* Nothing of it changes with a field of another name.
LEMMA OthersKept ==
  ASSUME NEW layout, NEW b, NEW k \in Nat, NEW vs, NEW left, ReadSoFar(layout, b, k, vs, left),
         NEW f, \A i \in 1..k : layout[i] # f, NEW x
  PROVE  /\ ReadSoFar(layout, b, k, WithField(vs, f, x), left)
         /\ FirstBytes(layout, k, WithField(vs, f, x)) = FirstBytes(layout, k, vs)
<1> DEFINE ws == WithField(vs, f, x)
<1>1. \A i \in 1..k : layout[i] \in DOMAIN vs /\ vs[layout[i]] \in Values(TypeOf[layout[i]])
  BY DEF ReadSoFar
<1>2. \A i \in 1..k : layout[i] \in DOMAIN ws /\ ws[layout[i]] = vs[layout[i]]
  BY <1>1 DEF WithField
<1> HIDE DEF ws
<1>3. [i \in 1..k |-> Marshal(TypeOf[layout[i]], ws[layout[i]])]
        = [i \in 1..k |-> Marshal(TypeOf[layout[i]], vs[layout[i]])]
  BY <1>2
<1>4. FirstBytes(layout, k, ws) = FirstBytes(layout, k, vs)
  BY <1>3, Zenon DEF FirstBytes
<1> QED BY <1>1, <1>2, <1>4 DEF ReadSoFar, ws

\* One field more.
LEMMA OneFieldMore ==
  ASSUME NEW layout, Distinct(layout), NEW b, NEW k \in Nat, k + 1 \in DOMAIN layout,
         1..k \subseteq DOMAIN layout,
         NEW vs, NEW c, ReadSoFar(layout, b, k, vs, c),
         NEW v \in Values(TypeOf[layout[k + 1]]), NEW left \in Seq(Bytes),
         c = Marshal(TypeOf[layout[k + 1]], v) \o left
  PROVE  ReadSoFar(layout, b, k + 1, WithField(vs, layout[k + 1], v), left)
<1> DEFINE f == layout[k + 1]
<1> DEFINE ws == WithField(vs, f, v)
<1>1. \A i \in 1..k : layout[i] # f
  BY DEF Distinct
<1>2. f \in DOMAIN ws /\ ws[f] = v
  BY DEF WithField
<1> HIDE DEF f, ws
<1>3. ReadSoFar(layout, b, k, ws, c)
  BY <1>1, OthersKept DEF ws
<1> DEFINE s == [i \in 1..k |-> Marshal(TypeOf[layout[i]], ws[layout[i]])]
<1> DEFINE t == [i \in 1..(k + 1) |-> Marshal(TypeOf[layout[i]], ws[layout[i]])]
<1>4. \A i \in 1..k : layout[i] \in DOMAIN ws /\ ws[layout[i]] \in Values(TypeOf[layout[i]])
  BY <1>3 DEF ReadSoFar
<1>5. \A i \in 1..(k + 1) : layout[i] \in DOMAIN ws /\ ws[layout[i]] \in Values(TypeOf[layout[i]])
  <2>1. \A i \in 1..(k + 1) : i \in 1..k \/ i = k + 1
    OBVIOUS
  <2> QED BY <1>2, <1>4, <2>1 DEF f
<1>6. /\ s \in Seq(Seq(Bytes)) /\ Len(s) = k
      /\ FirstBytes(layout, k, ws) = FlattenSeq(s) /\ FlattenSeq(s) \in Seq(Bytes)
  BY <1>4, FirstAreBytes
<1>7. /\ t \in Seq(Seq(Bytes)) /\ Len(t) = k + 1
      /\ FirstBytes(layout, k + 1, ws) = FlattenSeq(t)
  <2>1. k + 1 \in Nat
    OBVIOUS
  <2> QED BY <1>5, <2>1, FirstAreBytes
<1>8. t[k + 1] = Marshal(TypeOf[f], v) /\ \A i \in 1..k : t[i] = s[i]
  <2>1. k + 1 \in 1..(k + 1) /\ \A i \in 1..k : i \in 1..(k + 1)
    OBVIOUS
  <2> QED BY <1>2, <2>1 DEF f
<1> HIDE DEF s, t
<1>9. FlattenSeq(t) = FlattenSeq(s) \o Marshal(TypeOf[f], v)
  BY <1>6, <1>7, <1>8, FlattenMore
<1>10. Marshal(TypeOf[f], v) \in Seq(Bytes)
  BY MarshalledBytes DEF f
<1>11. (FlattenSeq(s) \o Marshal(TypeOf[f], v)) \o left = FlattenSeq(s) \o (Marshal(TypeOf[f], v) \o left)
  <2>1. FlattenSeq(s) \in Seq(Bytes)
    BY <1>6
  <2> QED BY <1>10, <2>1, Associative
<1>12. b = FirstBytes(layout, k + 1, ws) \o left
  <2>1. b = FlattenSeq(s) \o c
    BY <1>3, <1>6 DEF ReadSoFar
  <2> QED BY <1>7, <1>9, <1>11, <2>1 DEF f
<1> QED BY <1>5, <1>12 DEF ReadSoFar, f, ws

-----------------------------------------------------------------------------
(* What each side reads, kind by kind.                                     *)

HandleKinds == {"readdir", "fstat", "close", "handle"}
PathKinds   == {"opendir", "lstat", "stat", "remove", "rmdir", "readlink", "realpath"}
OtherKinds  == {"init", "version", "open", "read", "write", "rename", "symlink", "mkdir", "setstat",
                "fsetstat", "status", "data", "name", "attrs", "statvfs", "posixrename", "hardlink",
                "statvfsReply"}
CommonKinds == HandleKinds \union PathKinds \union OtherKinds

\* The layouts the package reads.
LayoutOf(kind) ==
  CASE kind \in HandleKinds -> <<"id", "handle">>
    [] kind \in PathKinds -> <<"id", "path">>
    [] kind \in {"init", "version"} -> <<"version", "extensions">>
    [] kind = "open" -> <<"id", "path", "pflags", "attrs">>
    [] kind = "read" -> <<"id", "handle", "offset", "len">>
    [] kind = "write" -> <<"id", "handle", "offset", "data">>
    [] kind = "rename" -> <<"id", "oldpath", "newpath">>
    [] kind = "symlink" -> <<"id", "targetpath", "linkpath">>
    [] kind = "mkdir" -> <<"id", "path", "flags">>
    [] kind = "setstat" -> <<"id", "path", "attrs">>
    [] kind = "fsetstat" -> <<"id", "handle", "attrs">>
    [] kind = "status" -> <<"id", "code", "msg", "lang">>
    [] kind = "data" -> <<"id", "data">>
    [] kind = "name" -> <<"id", "names">>
    [] kind = "attrs" -> <<"id", "attrs">>
    [] kind = "statvfs" -> <<"id", "ext", "path">>
    [] kind \in {"posixrename", "hardlink"} -> <<"id", "ext", "oldpath", "newpath">>
    [] kind = "statvfsReply" -> <<"id">> \o StatVFS

LEMMA ReadTables ==
  /\ DOMAIN Read = CommonKinds
  /\ DOMAIN Sent = CommonKinds \union {"fsync"}
<1>1. DOMAIN Read = UNION {DOMAIN t : t \in Requests \union Replies}
  BY DEF Read, Combined
<1>2. DOMAIN Read = {"init"} \union IDKinds \union {"readlink", "realpath"} \union {"open", "read", "mkdir"}
        \union {"setstat", "fsetstat"} \union {"statvfs", "posixrename", "hardlink"} \union {"symlink"}
        \union {"rename", "write"} \union {"version", "handle", "status", "data", "name", "attrs",
                                           "statvfsReply"}
  BY <1>1, TableKinds, IDStringKinds, ReadKinds DEF Requests, Replies
<1>3. DOMAIN Sent = UNION {DOMAIN t : t \in SentTables}
  BY DEF Sent, SentTables, Combined
<1>4. DOMAIN Sent = {"init", "version"} \union IDKinds \union {"symlink", "hardlink"}
        \union {"readlink", "realpath"} \union {"name", "open", "read"}
        \union {"rename", "posixrename", "write"} \union {"mkdir", "setstat", "fsetstat"}
        \union {"handle", "status", "data", "statvfs", "statvfsReply", "attrs", "fsync"}
  BY <1>3, TableKinds, IDStringKinds DEF SentTables
<1> QED BY <1>2, <1>4 DEF CommonKinds, HandleKinds, PathKinds, OtherKinds, IDKinds

LEMMA ReadLayouts == \A kind \in CommonKinds : Read[kind].unmarshal = LayoutOf(kind)
<1>0. /\ \A layout : Both(layout).unmarshal = layout
      /\ \A layout : In(layout).unmarshal = layout
  BY Directions
<1>1. ASSUME NEW kind \in IDKinds PROVE Read[kind].unmarshal = LayoutOf(kind)
  <2>1. Read[kind] = IDString[kind]
    BY ReadTable, IDStringKinds DEF Requests
  <2>2. CASE kind \in {"readdir", "fstat", "close"}
    <3>1. LayoutOf(kind) = <<"id", "handle">>
      BY <2>2 DEF LayoutOf, HandleKinds, PathKinds
    <3> QED BY <1>0, <2>1, <2>2, <3>1, IDStringKinds
  <2>3. CASE kind \in {"opendir", "lstat", "stat", "remove", "rmdir"}
    <3>1. LayoutOf(kind) = <<"id", "path">>
      BY <2>3 DEF LayoutOf, HandleKinds, PathKinds
    <3> QED BY <1>0, <2>1, <2>3, <3>1, IDStringKinds
  <2> QED BY <2>2, <2>3 DEF IDKinds
<1>2. ASSUME NEW kind \in {"readlink", "realpath"} PROVE Read[kind].unmarshal = LayoutOf(kind)
  <2>1. Read[kind] = ReadlinkRealpath[kind]
    BY ReadTable, TableKinds DEF Requests
  <2>2. ReadlinkRealpath[kind] = Both(<<"id", "path">>) /\ LayoutOf(kind) = <<"id", "path">>
    BY DEF ReadlinkRealpath, LayoutOf, HandleKinds, PathKinds
  <2> QED BY <1>0, <2>1, <2>2
<1>3. /\ Read["init"] = Restrict(InitPacket, {"init"})["init"] /\ Read["version"] = RecvVersion["version"]
      /\ Read["open"] = OpenPacket["open"] /\ Read["read"] = ReadPacket["read"]
      /\ Read["write"] = Restrict(RenameWrite, {"rename", "write"})["write"]
      /\ Read["rename"] = Restrict(RenameWrite, {"rename", "write"})["rename"]
      /\ Read["symlink"] = Restrict(SymlinkHardlink, {"symlink"})["symlink"]
      /\ Read["mkdir"] = MkdirPacket["mkdir"]
      /\ Read["setstat"] = SetstatPackets["setstat"] /\ Read["fsetstat"] = SetstatPackets["fsetstat"]
  BY ReadTable, TableKinds, ReadKinds DEF Requests, Replies
<1>4. /\ Read["status"] = StatusReply["status"] /\ Read["data"] = DataReply["data"]
      /\ Read["name"] = ReadDirReply["name"] /\ Read["attrs"] = AttrsReply["attrs"]
      /\ Read["handle"] = HandleReply["handle"] /\ Read["statvfs"] = ExtendedPacket["statvfs"]
      /\ Read["posixrename"] = ExtendedPacket["posixrename"]
      /\ Read["hardlink"] = ExtendedPacket["hardlink"]
      /\ Read["statvfsReply"] = StatVFSReply["statvfsReply"]
  BY ReadTable, TableKinds, ReadKinds DEF Requests, Replies
<1>5. /\ Restrict(InitPacket, {"init"})["init"] = Both(<<"version", "extensions">>)
      /\ RecvVersion["version"] = In(<<"version", "extensions">>)
      /\ OpenPacket["open"] = Both(<<"id", "path", "pflags", "attrs">>)
      /\ ReadPacket["read"] = Both(<<"id", "handle", "offset", "len">>)
      /\ Restrict(RenameWrite, {"rename", "write"})["write"] = Both(<<"id", "handle", "offset", "data">>)
      /\ Restrict(RenameWrite, {"rename", "write"})["rename"] = Both(<<"id", "oldpath", "newpath">>)
      /\ Restrict(SymlinkHardlink, {"symlink"})["symlink"] = Both(<<"id", "targetpath", "linkpath">>)
      /\ MkdirPacket["mkdir"] = Both(<<"id", "path", "flags">>)
      /\ SetstatPackets["setstat"] = Both(<<"id", "path", "attrs">>)
      /\ SetstatPackets["fsetstat"] = Both(<<"id", "handle", "attrs">>)
  BY DEF Restrict, InitPacket, RecvVersion, OpenPacket, ReadPacket, RenameWrite, SymlinkHardlink,
         MkdirPacket, SetstatPackets
<1>6. /\ StatusReply["status"] = In(<<"id", "code", "msg", "lang">>)
      /\ DataReply["data"] = In(<<"id", "data">>)
      /\ ReadDirReply["name"] = In(<<"id", "names">>) /\ AttrsReply["attrs"] = In(<<"id", "attrs">>)
      /\ HandleReply["handle"] = In(<<"id", "handle">>)
      /\ ExtendedPacket["statvfs"] = In(<<"id", "ext", "path">>)
      /\ ExtendedPacket["posixrename"] = In(<<"id", "ext", "oldpath", "newpath">>)
      /\ ExtendedPacket["hardlink"] = In(<<"id", "ext", "oldpath", "newpath">>)
      /\ StatVFSReply["statvfsReply"] = In(<<"id">> \o StatVFS)
  BY DEF StatusReply, DataReply, ReadDirReply, AttrsReply, HandleReply, ExtendedPacket, StatVFSReply
<1>7. /\ Read["init"].unmarshal = LayoutOf("init") /\ Read["version"].unmarshal = LayoutOf("version")
      /\ Read["open"].unmarshal = LayoutOf("open") /\ Read["read"].unmarshal = LayoutOf("read")
      /\ Read["write"].unmarshal = LayoutOf("write") /\ Read["rename"].unmarshal = LayoutOf("rename")
      /\ Read["symlink"].unmarshal = LayoutOf("symlink") /\ Read["mkdir"].unmarshal = LayoutOf("mkdir")
      /\ Read["setstat"].unmarshal = LayoutOf("setstat")
      /\ Read["fsetstat"].unmarshal = LayoutOf("fsetstat")
  BY <1>0, <1>3, <1>5 DEF LayoutOf, HandleKinds, PathKinds
<1>8. /\ Read["status"].unmarshal = LayoutOf("status") /\ Read["data"].unmarshal = LayoutOf("data")
      /\ Read["name"].unmarshal = LayoutOf("name") /\ Read["attrs"].unmarshal = LayoutOf("attrs")
      /\ Read["handle"].unmarshal = LayoutOf("handle") /\ Read["statvfs"].unmarshal = LayoutOf("statvfs")
      /\ Read["posixrename"].unmarshal = LayoutOf("posixrename")
      /\ Read["hardlink"].unmarshal = LayoutOf("hardlink")
      /\ Read["statvfsReply"].unmarshal = LayoutOf("statvfsReply")
  <2>1. /\ LayoutOf("status") = <<"id", "code", "msg", "lang">> /\ LayoutOf("data") = <<"id", "data">>
        /\ LayoutOf("name") = <<"id", "names">> /\ LayoutOf("attrs") = <<"id", "attrs">>
        /\ LayoutOf("handle") = <<"id", "handle">> /\ LayoutOf("statvfs") = <<"id", "ext", "path">>
        /\ LayoutOf("posixrename") = <<"id", "ext", "oldpath", "newpath">>
        /\ LayoutOf("hardlink") = <<"id", "ext", "oldpath", "newpath">>
    BY DEF LayoutOf, HandleKinds, PathKinds
  <2> DEFINE v == <<"id">> \o StatVFS
  <2>2. LayoutOf("statvfsReply") = v
    BY DEF LayoutOf, HandleKinds, PathKinds
  <2>3. Read["statvfsReply"] = In(v)
    BY <1>4, <1>6
  <2> HIDE DEF v
  <2>4. Read["statvfsReply"].unmarshal = LayoutOf("statvfsReply")
    BY <1>0, <2>2, <2>3
  <2> QED BY <1>0, <1>4, <1>6, <2>1, <2>4
<1> QED BY <1>1, <1>2, <1>7, <1>8 DEF CommonKinds, HandleKinds, PathKinds, OtherKinds, IDKinds

\* Two packets whose fields or kinds only one side has.
LEMMA SentLayouts ==
  /\ \A kind \in CommonKinds : Sent[kind].marshal = LayoutOf(kind)
  /\ Sent["fsync"].marshal = <<"id", "ext", "handle">>
<1>1. ASSUME NEW kind \in CommonKinds PROVE Sent[kind].marshal = LayoutOf(kind)
  <2>1. kind \in DOMAIN Sent \intersect DOMAIN Read
    BY ReadTables
  <2>2. Sent[kind].marshal = Read[kind].unmarshal
    BY <2>1, LayoutsAgree DEF Agrees
  <2> QED BY <2>2, ReadLayouts
<1>2. Sent["fsync"].marshal = <<"id", "ext", "handle">>
  <2>1. Sent["fsync"] = FsyncPacket["fsync"]
    BY SentTable, TableKinds DEF SentTables
  <2>2. FsyncPacket["fsync"] = Out(<<"id", "ext", "handle">>)
    BY DEF FsyncPacket
  <2> QED BY <2>1, <2>2, Directions
<1> QED BY <1>1, <1>2

\* The layouts of sshfx: a mkdir has attributes, and two extensions more.
FxLayoutOf(kind) ==
  CASE kind = "mkdir" -> <<"id", "path", "attrs">>
    [] kind \in {"fsync", "fstatvfs"} -> <<"id", "ext", "handle">>
    [] OTHER -> LayoutOf(kind)

FxTables == {FxInitPacket, FxOpenPackets, FxHandleData, FxHandleAttrs, FxLstatSetstat,
             FxDirectories, FxLinks, FxExtended, FxReplies}
FxReplyTables == {FxVersionPacket, FxStatusHandleData, FxNameAttrs, FxStatVFSReply}
FxExtendedTables == {FxHardlink, FxPOSIXRename, FxFSync, FxStatVFS}

LEMMA FxTableKinds ==
  /\ DOMAIN FxInitPacket = {"init"} /\ DOMAIN FxOpenPackets = {"open", "opendir"}
  /\ DOMAIN FxHandleData = {"close", "read", "write"}
  /\ DOMAIN FxHandleAttrs = {"fstat", "fsetstat", "readdir"}
  /\ DOMAIN FxLstatSetstat = {"lstat", "setstat", "remove"}
  /\ DOMAIN FxDirectories = {"mkdir", "rmdir", "realpath", "stat"}
  /\ DOMAIN FxLinks = {"rename", "readlink", "symlink"}
  /\ DOMAIN FxVersionPacket = {"version"} /\ DOMAIN FxStatusHandleData = {"status", "handle", "data"}
  /\ DOMAIN FxNameAttrs = {"name", "attrs"} /\ DOMAIN FxStatVFSReply = {"statvfsReply"}
  /\ DOMAIN FxHardlink = {"hardlink"} /\ DOMAIN FxPOSIXRename = {"posixrename"}
  /\ DOMAIN FxFSync = {"fsync"} /\ DOMAIN FxStatVFS = {"statvfs", "fstatvfs"}
BY DEF FxInitPacket, FxOpenPackets, FxHandleData, FxHandleAttrs, FxLstatSetstat, FxDirectories, FxLinks,
       FxVersionPacket, FxStatusHandleData, FxNameAttrs, FxStatVFSReply, FxHardlink, FxPOSIXRename,
       FxFSync, FxStatVFS

LEMMA FxReplyTable ==
  /\ DOMAIN FxReplies = {"version", "status", "handle", "data", "name", "attrs", "statvfsReply"}
  /\ \A t \in FxReplyTables : \A kind \in DOMAIN t : FxReplies[kind] = t[kind]
<1>1. FxReplies = Combined(FxReplyTables)
  BY DEF FxReplies, FxReplyTables
<1>2. ASSUME NEW t \in FxReplyTables, NEW kind \in DOMAIN t PROVE FxReplies[kind] = t[kind]
  <2>1. \A u \in FxReplyTables : kind \in DOMAIN u => u = t
    BY FxTableKinds DEF FxReplyTables
  <2> QED BY <1>1, <2>1, CombinedAt
<1>3. DOMAIN FxReplies = UNION {DOMAIN t : t \in FxReplyTables}
  BY <1>1 DEF Combined
<1>4. DOMAIN FxReplies = {"version", "status", "handle", "data", "name", "attrs", "statvfsReply"}
  BY <1>3, FxTableKinds DEF FxReplyTables
<1> QED BY <1>2, <1>4

LEMMA FxExtendedTable ==
  /\ DOMAIN FxExtended = {"hardlink", "posixrename", "fsync", "statvfs", "fstatvfs"}
  /\ \A t \in FxExtendedTables : \A kind \in DOMAIN t : FxExtended[kind] = t[kind]
<1>1. FxExtended = Combined(FxExtendedTables)
  BY DEF FxExtended, FxExtendedTables
<1>2. ASSUME NEW t \in FxExtendedTables, NEW kind \in DOMAIN t PROVE FxExtended[kind] = t[kind]
  <2>1. \A u \in FxExtendedTables : kind \in DOMAIN u => u = t
    BY FxTableKinds DEF FxExtendedTables
  <2> QED BY <1>1, <2>1, CombinedAt
<1>3. DOMAIN FxExtended = UNION {DOMAIN t : t \in FxExtendedTables}
  BY <1>1 DEF Combined
<1>4. DOMAIN FxExtended = {"hardlink", "posixrename", "fsync", "statvfs", "fstatvfs"}
  BY <1>3, FxTableKinds DEF FxExtendedTables
<1> QED BY <1>2, <1>4

LEMMA FxTable ==
  /\ DOMAIN FxLayout = CommonKinds \union {"fsync", "fstatvfs"}
  /\ \A t \in FxTables : \A kind \in DOMAIN t : FxLayout[kind] = t[kind]
<1>1. FxLayout = Combined(FxTables)
  BY DEF FxLayout, FxTables
<1>2. ASSUME NEW t \in FxTables, NEW kind \in DOMAIN t PROVE FxLayout[kind] = t[kind]
  <2>1. \A u \in FxTables : kind \in DOMAIN u => u = t
    BY FxTableKinds, FxReplyTable, FxExtendedTable DEF FxTables
  <2> QED BY <1>1, <2>1, CombinedAt
<1>3. DOMAIN FxLayout = UNION {DOMAIN t : t \in FxTables}
  BY <1>1 DEF Combined
<1>4. DOMAIN FxLayout = {"init"} \union {"open", "opendir"} \union {"close", "read", "write"}
        \union {"fstat", "fsetstat", "readdir"} \union {"lstat", "setstat", "remove"}
        \union {"mkdir", "rmdir", "realpath", "stat"} \union {"rename", "readlink", "symlink"}
        \union {"hardlink", "posixrename", "fsync", "statvfs", "fstatvfs"}
        \union {"version", "status", "handle", "data", "name", "attrs", "statvfsReply"}
  BY <1>3, FxTableKinds, FxReplyTable, FxExtendedTable DEF FxTables
<1> QED BY <1>2, <1>4 DEF CommonKinds, HandleKinds, PathKinds, OtherKinds

LEMMA FxLayouts == \A kind \in CommonKinds \union {"fsync", "fstatvfs"} : FxLayout[kind] = FxLayoutOf(kind)
<1>1. /\ FxLayout["init"] = FxInitPacket["init"]
      /\ \A kind \in {"open", "opendir"} : FxLayout[kind] = FxOpenPackets[kind]
      /\ \A kind \in {"close", "read", "write"} : FxLayout[kind] = FxHandleData[kind]
      /\ \A kind \in {"fstat", "fsetstat", "readdir"} : FxLayout[kind] = FxHandleAttrs[kind]
      /\ \A kind \in {"lstat", "setstat", "remove"} : FxLayout[kind] = FxLstatSetstat[kind]
  BY FxTable, FxTableKinds DEF FxTables
<1>2. /\ \A kind \in {"mkdir", "rmdir", "realpath", "stat"} : FxLayout[kind] = FxDirectories[kind]
      /\ \A kind \in {"rename", "readlink", "symlink"} : FxLayout[kind] = FxLinks[kind]
      /\ \A kind \in DOMAIN FxReplies : FxLayout[kind] = FxReplies[kind]
      /\ \A kind \in DOMAIN FxExtended : FxLayout[kind] = FxExtended[kind]
  BY FxTable, FxTableKinds DEF FxTables
<1>3. /\ FxReplies["version"] = FxVersionPacket["version"]
      /\ \A kind \in {"status", "handle", "data"} : FxReplies[kind] = FxStatusHandleData[kind]
      /\ \A kind \in {"name", "attrs"} : FxReplies[kind] = FxNameAttrs[kind]
      /\ FxReplies["statvfsReply"] = FxStatVFSReply["statvfsReply"]
  BY FxReplyTable, FxTableKinds DEF FxReplyTables
<1>4. /\ FxExtended["hardlink"] = FxHardlink["hardlink"]
      /\ FxExtended["posixrename"] = FxPOSIXRename["posixrename"]
      /\ FxExtended["fsync"] = FxFSync["fsync"]
      /\ \A kind \in {"statvfs", "fstatvfs"} : FxExtended[kind] = FxStatVFS[kind]
  BY FxExtendedTable, FxTableKinds DEF FxExtendedTables
<1>5. /\ FxLayout["init"] = <<"version", "extensions">>
      /\ FxLayout["open"] = <<"id", "path", "pflags", "attrs">> /\ FxLayout["opendir"] = <<"id", "path">>
      /\ FxLayout["close"] = <<"id", "handle">> /\ FxLayout["read"] = <<"id", "handle", "offset", "len">>
      /\ FxLayout["write"] = <<"id", "handle", "offset", "data">>
  BY <1>1 DEF FxInitPacket, FxOpenPackets, FxHandleData
<1>6. /\ FxLayout["fstat"] = <<"id", "handle">> /\ FxLayout["fsetstat"] = <<"id", "handle", "attrs">>
      /\ FxLayout["readdir"] = <<"id", "handle">> /\ FxLayout["lstat"] = <<"id", "path">>
      /\ FxLayout["setstat"] = <<"id", "path", "attrs">> /\ FxLayout["remove"] = <<"id", "path">>
  BY <1>1 DEF FxHandleAttrs, FxLstatSetstat
<1>7. /\ FxLayout["mkdir"] = <<"id", "path", "attrs">> /\ FxLayout["rmdir"] = <<"id", "path">>
      /\ FxLayout["realpath"] = <<"id", "path">> /\ FxLayout["stat"] = <<"id", "path">>
      /\ FxLayout["rename"] = <<"id", "oldpath", "newpath">> /\ FxLayout["readlink"] = <<"id", "path">>
      /\ FxLayout["symlink"] = <<"id", "targetpath", "linkpath">>
  BY <1>2 DEF FxDirectories, FxLinks
<1>8. /\ FxReplies["version"] = <<"version", "extensions">>
      /\ FxReplies["status"] = <<"id", "code", "msg", "lang">> /\ FxReplies["handle"] = <<"id", "handle">>
      /\ FxReplies["data"] = <<"id", "data">> /\ FxReplies["name"] = <<"id", "names">>
      /\ FxReplies["attrs"] = <<"id", "attrs">>
  BY <1>3 DEF FxVersionPacket, FxStatusHandleData, FxNameAttrs
<1>9. FxReplies["statvfsReply"] = <<"id">> \o StatVFS
  BY <1>3 DEF FxStatVFSReply
<1>10. /\ FxExtended["hardlink"] = <<"id", "ext", "oldpath", "newpath">>
       /\ FxExtended["posixrename"] = <<"id", "ext", "oldpath", "newpath">>
       /\ FxExtended["fsync"] = <<"id", "ext", "handle">>
       /\ FxExtended["statvfs"] = <<"id", "ext", "path">>
       /\ FxExtended["fstatvfs"] = <<"id", "ext", "handle">>
  BY <1>4 DEF FxHardlink, FxPOSIXRename, FxFSync, FxStatVFS
<1>11. /\ \A kind \in DOMAIN FxReplies : FxLayout[kind] = FxReplies[kind]
       /\ \A kind \in DOMAIN FxExtended : FxLayout[kind] = FxExtended[kind]
       /\ {"version", "status", "handle", "data", "name", "attrs", "statvfsReply"} = DOMAIN FxReplies
       /\ {"hardlink", "posixrename", "fsync", "statvfs", "fstatvfs"} = DOMAIN FxExtended
  BY <1>2, FxReplyTable, FxExtendedTable
<1>12. /\ FxLayout["version"] = <<"version", "extensions">>
       /\ FxLayout["status"] = <<"id", "code", "msg", "lang">> /\ FxLayout["handle"] = <<"id", "handle">>
       /\ FxLayout["data"] = <<"id", "data">> /\ FxLayout["name"] = <<"id", "names">>
       /\ FxLayout["attrs"] = <<"id", "attrs">>
       /\ FxLayout["hardlink"] = <<"id", "ext", "oldpath", "newpath">>
       /\ FxLayout["posixrename"] = <<"id", "ext", "oldpath", "newpath">>
       /\ FxLayout["fsync"] = <<"id", "ext", "handle">>
       /\ FxLayout["statvfs"] = <<"id", "ext", "path">>
       /\ FxLayout["fstatvfs"] = <<"id", "ext", "handle">>
  BY <1>8, <1>10, <1>11
<1>13. \A kind \in HandleKinds \union PathKinds : FxLayout[kind] = FxLayoutOf(kind)
  <2>1. \A kind \in HandleKinds : FxLayoutOf(kind) = <<"id", "handle">>
    BY DEF FxLayoutOf, LayoutOf, HandleKinds, PathKinds
  <2>2. \A kind \in PathKinds : FxLayoutOf(kind) = <<"id", "path">>
    BY DEF FxLayoutOf, LayoutOf, HandleKinds, PathKinds
  <2> QED BY <1>5, <1>6, <1>7, <1>12, <2>1, <2>2 DEF HandleKinds, PathKinds
<1>14. \A kind \in {"init", "version", "open", "read", "write", "rename", "symlink", "mkdir", "setstat",
                    "fsetstat"} : FxLayout[kind] = FxLayoutOf(kind)
  <2>1. /\ FxLayoutOf("init") = <<"version", "extensions">>
        /\ FxLayoutOf("version") = <<"version", "extensions">>
        /\ FxLayoutOf("open") = <<"id", "path", "pflags", "attrs">>
        /\ FxLayoutOf("read") = <<"id", "handle", "offset", "len">>
        /\ FxLayoutOf("write") = <<"id", "handle", "offset", "data">>
    BY DEF FxLayoutOf, LayoutOf, HandleKinds, PathKinds
  <2>2. /\ FxLayoutOf("rename") = <<"id", "oldpath", "newpath">>
        /\ FxLayoutOf("symlink") = <<"id", "targetpath", "linkpath">>
        /\ FxLayoutOf("mkdir") = <<"id", "path", "attrs">>
        /\ FxLayoutOf("setstat") = <<"id", "path", "attrs">>
        /\ FxLayoutOf("fsetstat") = <<"id", "handle", "attrs">>
    BY DEF FxLayoutOf, LayoutOf, HandleKinds, PathKinds
  <2> QED BY <1>5, <1>6, <1>7, <1>12, <2>1, <2>2
<1>15. \A kind \in {"status", "data", "name", "attrs", "statvfs", "posixrename", "hardlink", "fsync",
                    "fstatvfs"} : FxLayout[kind] = FxLayoutOf(kind)
  BY <1>12 DEF FxLayoutOf, LayoutOf, HandleKinds, PathKinds
<1>16. FxLayout["statvfsReply"] = FxLayoutOf("statvfsReply")
  <2>1. FxLayoutOf("statvfsReply") = <<"id">> \o StatVFS
    BY DEF FxLayoutOf, LayoutOf, HandleKinds, PathKinds
  <2> QED BY <1>9, <1>11, <2>1
<1> QED BY <1>13, <1>14, <1>15, <1>16 DEF CommonKinds, OtherKinds

\* A layout that can be read back: typed fields, none twice, a word first, extensions last.
GoodLayout(layout) ==
  /\ ProperLayout(layout) /\ Distinct(layout)
  /\ Len(layout) > 0 /\ TypeOf[layout[1]] = "uint32"

LEMMA DistinctFew ==
  /\ \A a, b : a # b => Distinct(<<a, b>>)
  /\ \A a, b, c : a # b /\ a # c /\ b # c => Distinct(<<a, b, c>>)
  /\ \A a, b, c, d : a # b /\ a # c /\ a # d /\ b # c /\ b # d /\ c # d => Distinct(<<a, b, c, d>>)
<1>1. \A a, b : a # b => Distinct(<<a, b>>)
  BY DEF Distinct
<1>2. \A a, b, c : a # b /\ a # c /\ b # c => Distinct(<<a, b, c>>)
  BY DEF Distinct
<1>3. \A a, b, c, d : a # b /\ a # c /\ a # d /\ b # c /\ b # d /\ c # d => Distinct(<<a, b, c, d>>)
  BY DEF Distinct
<1> QED BY <1>1, <1>2, <1>3

LEMMA GoodFew ==
  ASSUME NEW a, TypeOf[a] = "uint32", a \in Fixed
  PROVE  /\ \A b \in Fixed : a # b => GoodLayout(<<a, b>>)
         /\ \A b, c \in Fixed : a # b /\ a # c /\ b # c => GoodLayout(<<a, b, c>>)
         /\ \A b, c, d \in Fixed : a # b /\ a # c /\ a # d /\ b # c /\ b # d /\ c # d
                                     => GoodLayout(<<a, b, c, d>>)
<1>1. /\ \A b : Len(<<a, b>>) > 0 /\ <<a, b>>[1] = a
      /\ \A b, c : Len(<<a, b, c>>) > 0 /\ <<a, b, c>>[1] = a
      /\ \A b, c, d : Len(<<a, b, c, d>>) > 0 /\ <<a, b, c, d>>[1] = a
  OBVIOUS
<1>2. \A b \in Fixed : a # b => GoodLayout(<<a, b>>)
  BY <1>1, ShortLayouts, DistinctFew DEF GoodLayout
<1>3. \A b, c \in Fixed : a # b /\ a # c /\ b # c => GoodLayout(<<a, b, c>>)
  BY <1>1, ShortLayouts, DistinctFew DEF GoodLayout
<1>4. \A b, c, d \in Fixed : a # b /\ a # c /\ a # d /\ b # c /\ b # d /\ c # d
                                     => GoodLayout(<<a, b, c, d>>)
  BY <1>1, ShortLayouts, DistinctFew DEF GoodLayout
<1> QED BY <1>2, <1>3, <1>4

LEMMA GoodReply == GoodLayout(<<"id">> \o StatVFS)
<1> DEFINE layout == <<"id">> \o StatVFS
<1>1. /\ StatVFS \in Seq(Fixed) /\ Len(StatVFS) = 11 /\ <<"id">> \in Seq(Fixed) /\ Len(<<"id">>) = 1
      /\ <<"id">>[1] = "id"
  <2>1. "id" \in Fixed
    BY FixedFields
  <2> QED BY <2>1, FixedFields DEF StatVFS
<1>2. /\ layout \in Seq(Fixed) /\ Len(layout) = 12 /\ DOMAIN layout = 1..12
      /\ \A i \in 1..12 : layout[i] = IF i <= 1 THEN "id" ELSE StatVFS[i - 1]
  <2>1. /\ layout \in Seq(Fixed) /\ Len(layout) = Len(<<"id">>) + Len(StatVFS)
        /\ \A i \in 1..(Len(<<"id">>) + Len(StatVFS)) :
             layout[i] = IF i <= Len(<<"id">>) THEN <<"id">>[i] ELSE StatVFS[i - Len(<<"id">>)]
    BY <1>1, ConcatProperties
  <2>2. Len(<<"id">>) + Len(StatVFS) = 12
    BY <1>1
  <2>3. \A i \in 1..12 : i <= 1 => i = 1
    OBVIOUS
  <2> HIDE DEF layout
  <2>4. DOMAIN layout = 1..12
    BY <2>1, <2>2
  <2>5. ASSUME NEW i \in 1..12 PROVE layout[i] = IF i <= 1 THEN "id" ELSE StatVFS[i - 1]
    BY <1>1, <2>1, <2>2, <2>3
  <2> QED BY <2>1, <2>2, <2>4, <2>5
<1> HIDE DEF layout
<1>3. \A i, j \in 1..11 : StatVFS[i] = StatVFS[j] => i = j
  BY DEF StatVFS
<1>4. \A i \in 1..11 : StatVFS[i] # "id"
  BY DEF StatVFS
<1>5. Distinct(layout)
  <2> SUFFICES ASSUME NEW i \in 1..12, NEW j \in 1..12, layout[i] = layout[j] PROVE i = j
    BY <1>2 DEF Distinct
  <2>1. i <= 1 => i = 1
    OBVIOUS
  <2>2. j <= 1 => j = 1
    OBVIOUS
  <2>3. ~ (i <= 1) => i - 1 \in 1..11
    OBVIOUS
  <2>4. ~ (j <= 1) => j - 1 \in 1..11
    OBVIOUS
  <2>5. CASE i <= 1 /\ j <= 1
    BY <2>1, <2>2, <2>5
  <2>6. CASE i <= 1 /\ ~ (j <= 1)
    BY <1>2, <1>4, <2>4, <2>6
  <2>7. CASE ~ (i <= 1) /\ j <= 1
    BY <1>2, <1>4, <2>3, <2>7
  <2>8. CASE ~ (i <= 1) /\ ~ (j <= 1)
    <3>1. StatVFS[i - 1] = StatVFS[j - 1]
      BY <1>2, <2>8
    <3>2. i - 1 = j - 1
      BY <1>3, <2>3, <2>4, <2>8, <3>1
    <3> QED BY <3>2
  <2> QED BY <2>5, <2>6, <2>7, <2>8
<1>6. layout[1] = "id"
  BY <1>2
<1>7. TypeOf["id"] = "uint32"
  BY DEF TypeOf
<1>8. ProperLayout(layout) /\ Len(layout) > 0
  BY <1>2, FixedLayout
<1>9. GoodLayout(layout)
  BY <1>5, <1>6, <1>7, <1>8 DEF GoodLayout
<1> QED BY <1>9 DEF layout

LEMMA GoodLayouts ==
  /\ \A kind \in CommonKinds : GoodLayout(LayoutOf(kind))
  /\ GoodLayout(<<"id", "path", "attrs">>) /\ GoodLayout(<<"id", "ext", "handle">>)
<1>1. TypeOf["id"] = "uint32" /\ "id" \in Fixed
  BY FixedFields DEF TypeOf
<1>2. /\ GoodLayout(<<"id", "handle">>) /\ GoodLayout(<<"id", "path">>) /\ GoodLayout(<<"id", "data">>)
      /\ GoodLayout(<<"id", "names">>) /\ GoodLayout(<<"id", "attrs">>)
  BY <1>1, GoodFew, FixedFields
<1>3. /\ GoodLayout(<<"id", "oldpath", "newpath">>) /\ GoodLayout(<<"id", "targetpath", "linkpath">>)
      /\ GoodLayout(<<"id", "path", "flags">>) /\ GoodLayout(<<"id", "path", "attrs">>)
      /\ GoodLayout(<<"id", "handle", "attrs">>) /\ GoodLayout(<<"id", "ext", "path">>)
      /\ GoodLayout(<<"id", "ext", "handle">>)
  BY <1>1, GoodFew, FixedFields
<1>4. /\ GoodLayout(<<"id", "path", "pflags", "attrs">>) /\ GoodLayout(<<"id", "handle", "offset", "len">>)
      /\ GoodLayout(<<"id", "handle", "offset", "data">>) /\ GoodLayout(<<"id", "code", "msg", "lang">>)
      /\ GoodLayout(<<"id", "ext", "oldpath", "newpath">>)
  BY <1>1, GoodFew, FixedFields
<1>5. GoodLayout(<<"version", "extensions">>)
  <2>1. TypeOf["version"] = "uint32"
    BY DEF TypeOf
  <2>2. Len(<<"version", "extensions">>) > 0 /\ <<"version", "extensions">>[1] = "version"
    OBVIOUS
  <2> QED BY <2>1, <2>2, InitLayout, DistinctFew DEF GoodLayout
<1>6. ASSUME NEW kind \in CommonKinds PROVE GoodLayout(LayoutOf(kind))
  <2>1. CASE kind \in HandleKinds
    <3>1. LayoutOf(kind) = <<"id", "handle">>
      BY <2>1 DEF LayoutOf, HandleKinds, PathKinds
    <3> QED BY <1>2, <3>1
  <2>2. CASE kind \in PathKinds
    <3>1. LayoutOf(kind) = <<"id", "path">>
      BY <2>2 DEF LayoutOf, HandleKinds, PathKinds
    <3> QED BY <1>2, <3>1
  <2>3. CASE kind \in {"init", "version", "data", "name", "attrs"}
    <3>1. /\ LayoutOf("init") = <<"version", "extensions">> /\ LayoutOf("version") = <<"version", "extensions">>
          /\ LayoutOf("data") = <<"id", "data">> /\ LayoutOf("name") = <<"id", "names">>
          /\ LayoutOf("attrs") = <<"id", "attrs">>
      BY DEF LayoutOf, HandleKinds, PathKinds
    <3> QED BY <1>2, <1>5, <2>3, <3>1
  <2>4. CASE kind \in {"rename", "symlink", "mkdir", "setstat", "fsetstat", "statvfs"}
    <3>1. /\ LayoutOf("rename") = <<"id", "oldpath", "newpath">>
          /\ LayoutOf("symlink") = <<"id", "targetpath", "linkpath">>
          /\ LayoutOf("mkdir") = <<"id", "path", "flags">> /\ LayoutOf("setstat") = <<"id", "path", "attrs">>
          /\ LayoutOf("fsetstat") = <<"id", "handle", "attrs">>
          /\ LayoutOf("statvfs") = <<"id", "ext", "path">>
      BY DEF LayoutOf, HandleKinds, PathKinds
    <3> QED BY <1>3, <2>4, <3>1
  <2>5. CASE kind \in {"open", "read", "write", "status", "posixrename", "hardlink"}
    <3>1. /\ LayoutOf("open") = <<"id", "path", "pflags", "attrs">>
          /\ LayoutOf("read") = <<"id", "handle", "offset", "len">>
          /\ LayoutOf("write") = <<"id", "handle", "offset", "data">>
          /\ LayoutOf("status") = <<"id", "code", "msg", "lang">>
          /\ LayoutOf("posixrename") = <<"id", "ext", "oldpath", "newpath">>
          /\ LayoutOf("hardlink") = <<"id", "ext", "oldpath", "newpath">>
      BY DEF LayoutOf, HandleKinds, PathKinds
    <3> QED BY <1>4, <2>5, <3>1
  <2>6. CASE kind = "statvfsReply"
    <3>1. LayoutOf("statvfsReply") = <<"id">> \o StatVFS
      BY DEF LayoutOf, HandleKinds, PathKinds
    <3> QED BY <2>6, <3>1, GoodReply
  <2> QED BY <2>1, <2>2, <2>3, <2>4, <2>5, <2>6 DEF CommonKinds, OtherKinds
<1> QED BY <1>3, <1>6

\* What each receiver reads of a kind can be read back.
LEMMA GoodTables ==
  /\ \A kind \in DOMAIN Read : GoodLayout(Read[kind].unmarshal)
  /\ \A kind \in DOMAIN Sent : GoodLayout(Sent[kind].marshal)
  /\ \A kind \in DOMAIN FxLayout : GoodLayout(FxLayout[kind])
<1>1. \A kind \in DOMAIN Read : GoodLayout(Read[kind].unmarshal)
  BY ReadTables, ReadLayouts, GoodLayouts
<1>2. \A kind \in DOMAIN Sent : GoodLayout(Sent[kind].marshal)
  BY ReadTables, SentLayouts, GoodLayouts
<1>3. ASSUME NEW kind \in DOMAIN FxLayout PROVE GoodLayout(FxLayout[kind])
  <2>1. kind \in CommonKinds \union {"fsync", "fstatvfs"} /\ FxLayout[kind] = FxLayoutOf(kind)
    BY FxTable, FxLayouts
  <2>2. CASE kind \in {"mkdir", "fsync", "fstatvfs"}
    BY <2>1, <2>2, GoodLayouts DEF FxLayoutOf
  <2>3. CASE kind \notin {"mkdir", "fsync", "fstatvfs"}
    BY <2>1, <2>3, GoodLayouts DEF FxLayoutOf
  <2> QED BY <2>2, <2>3
<1> QED BY <1>1, <1>2, <1>3

-----------------------------------------------------------------------------
(* A packet that decodes was in the bytes.                                 *)

LEMMA FieldTypesAll == \A f \in DOMAIN TypeOf : TypeOf[f] \in FieldTypes
BY DEF TypeOf, FieldTypes

\* The first k fields have been read, and of these the first sure ones are in the bytes.
PacketSoFar(layout, sure, b, r, k) ==
  \/ r = Short
  \/ \E vs, left : \E c \in Seq(Bytes) :
       /\ r = Got(vs, c) /\ (k <= sure => left = c)
       /\ ReadSoFar(layout, b, IF k <= sure THEN k ELSE sure, vs, left)

SureUpTo(kind, layout, sure) ==
  /\ GoodLayout(layout) /\ sure \in 0..Len(layout)
  /\ \A i \in 1..sure : layout[i] \notin Forgiven(kind)

LEMMA NothingRead ==
  ASSUME NEW layout, NEW sure \in Nat, NEW b \in Seq(Bytes)
  PROVE  PacketSoFar(layout, sure, b, Got(<<>>, b), 0)
<1>1. FirstBytes(layout, 0, <<>>) = <<>>
  <2>1. [i \in 1..0 |-> Marshal(TypeOf[layout[i]], <<>>[layout[i]])] = <<>>
    OBVIOUS
  <2>2. FlattenSeq(<<>>) = <<>>
    BY FlattenFew
  <2> QED BY <2>1, <2>2 DEF FirstBytes
<1>2. b = FirstBytes(layout, 0, <<>>) \o b
  BY <1>1
<1>3. ReadSoFar(layout, b, 0, <<>>, b)
  BY <1>2 DEF ReadSoFar
<1> QED BY <1>3 DEF PacketSoFar

LEMMA AndFieldCases ==
  ASSUME NEW vs, NEW c, NEW f, NEW u, NEW forgiven
  PROVE  /\ u.failed /\ ~ forgiven => AndField(Got(vs, c), f, u, forgiven) = Short
         /\ ~ (u.failed /\ ~ forgiven) => AndField(Got(vs, c), f, u, forgiven) = Got(WithField(vs, f, u.v), u.rest)
<1>1. Got(vs, c).failed = FALSE /\ Got(vs, c).v = vs
  BY GotFields
<1> QED BY <1>1 DEF AndField

LEMMA AndFieldFails ==
  ASSUME NEW vs, NEW c, NEW f, NEW u, NEW kind, u.failed, f \notin Forgiven(kind)
  PROVE  AndField(Got(vs, c), f, u, f \in Forgiven(kind)) = Short
BY DEF AndField

LEMMA PacketStep ==
  ASSUME NEW kind, NEW layout, NEW sure, SureUpTo(kind, layout, sure), NEW b, NEW r,
         NEW k \in 0..(Len(layout) - 1), PacketSoFar(layout, sure, b, r, k)
  PROVE  PacketSoFar(layout, sure, b, Turn("fields", kind, r, layout[k + 1]), k + 1)
<1> DEFINE f == layout[k + 1]
<1> DEFINE n == Len(layout)
<1>1. /\ layout \in Seq(DOMAIN TypeOf) /\ n \in Nat /\ DOMAIN layout = 1..n /\ k \in Nat /\ k + 1 \in 1..n
      /\ Distinct(layout) /\ sure \in Nat /\ sure <= n /\ k < n
  <2>1. layout \in Seq(DOMAIN TypeOf) /\ Distinct(layout) /\ sure \in 0..n
    BY DEF SureUpTo, GoodLayout, ProperLayout
  <2> QED BY <2>1
<1>2. f \in DOMAIN TypeOf /\ TypeOf[f] \in FieldTypes
  <2>1. f \in DOMAIN TypeOf
    BY <1>1
  <2> QED BY <2>1, FieldTypesAll
<1>3. Turn("fields", kind, r, f) = AndField(r, f, Unmarshal(TypeOf[f], r.rest), f \in Forgiven(kind))
  BY DEF Turn
<1> HIDE DEF n
<1>4. CASE r = Short
  <2>1. AndField(r, f, Unmarshal(TypeOf[f], r.rest), f \in Forgiven(kind)) = Short
    BY <1>4, ShortFields DEF AndField
  <2> QED BY <1>3, <2>1 DEF PacketSoFar
<1>5. CASE r # Short
  <2>1. PICK vs, left : \E c \in Seq(Bytes) :
          /\ r = Got(vs, c) /\ (k <= sure => left = c)
          /\ ReadSoFar(layout, b, IF k <= sure THEN k ELSE sure, vs, left)
    BY <1>5 DEF PacketSoFar
  <2>2. PICK c \in Seq(Bytes) :
          /\ r = Got(vs, c) /\ (k <= sure => left = c)
          /\ ReadSoFar(layout, b, IF k <= sure THEN k ELSE sure, vs, left)
    BY <2>1
  <2> DEFINE u == Unmarshal(TypeOf[f], c)
  <2>3. Turn("fields", kind, r, f) = AndField(Got(vs, c), f, u, f \in Forgiven(kind))
    <3>1. Got(vs, c).rest = c
      BY GotFields
    <3> QED BY <1>3, <2>2, <3>1
  <2>4. Exactly(u, c, TypeOf[f])
    BY <1>2, <2>2, FieldExact
  <2> HIDE DEF u, f
  <2>5. CASE k < sure
    <3>1. f \notin Forgiven(kind)
      <4>1. k + 1 \in 1..sure
        BY <1>1, <2>5
      <4> QED BY <4>1 DEF SureUpTo, f
    <3>2. CASE u = Short
      <4>1. u.failed
        BY <3>2, ShortFields
      <4>2. AndField(Got(vs, c), f, u, f \in Forgiven(kind)) = Short
        BY <3>1, <4>1, AndFieldFails
      <4> QED BY <2>3, <4>2 DEF PacketSoFar, f
    <3>3. CASE u # Short
      <4>1. PICK v \in Values(TypeOf[f]), rest \in Seq(Bytes) :
              u = Got(v, rest) /\ c = Marshal(TypeOf[f], v) \o rest
        BY <2>4, <3>3 DEF Exactly
      <4>2. u.failed = FALSE /\ u.v = v /\ u.rest = rest
        BY <4>1, GotFields
      <4>3. AndField(Got(vs, c), f, u, f \in Forgiven(kind)) = Got(WithField(vs, f, v), rest)
        BY <4>2, AndFieldCases
      <4>4. ReadSoFar(layout, b, k, vs, c)
        BY <1>1, <2>2, <2>5
      <4>5. ReadSoFar(layout, b, k + 1, WithField(vs, f, v), rest)
        <5>1. k + 1 \in DOMAIN layout /\ 1..k \subseteq DOMAIN layout
          BY <1>1
        <5>2. v \in Values(TypeOf[layout[k + 1]]) /\ c = Marshal(TypeOf[layout[k + 1]], v) \o rest
          BY <4>1 DEF f
        <5>3. ReadSoFar(layout, b, k + 1, WithField(vs, layout[k + 1], v), rest)
          BY <1>1, <4>1, <4>4, <5>1, <5>2, OneFieldMore
        <5> QED BY <5>3 DEF f
      <4>6. k + 1 <= sure
        BY <1>1, <2>5
      <4>7. Turn("fields", kind, r, f) = Got(WithField(vs, f, v), rest)
        BY <2>3, <4>3
      <4>8. PacketSoFar(layout, sure, b, Got(WithField(vs, f, v), rest), k + 1)
        BY <4>1, <4>5, <4>6 DEF PacketSoFar
      <4> QED BY <4>7, <4>8 DEF f
    <3> QED BY <3>2, <3>3
  <2>6. CASE ~ (k < sure)
    <3>1. ReadSoFar(layout, b, sure, vs, left)
      <4>1. k <= sure => k = sure
        BY <1>1, <2>6
      <4> QED BY <2>2, <4>1
    <3>2. \A i \in 1..sure : layout[i] # f
      <4>1. \A i \in 1..sure : i \in DOMAIN layout /\ i # k + 1
        BY <1>1, <2>6
      <4> QED BY <1>1, <4>1 DEF Distinct, f
    <3>3. u.rest \in Seq(Bytes)
      <4>1. CASE u = Short
        BY <4>1, ShortFields
      <4>2. CASE u # Short
        <5>1. PICK v \in Values(TypeOf[f]), rest \in Seq(Bytes) : u = Got(v, rest)
          BY <2>4, <4>2 DEF Exactly
        <5> QED BY <5>1, GotFields
      <4> QED BY <4>1, <4>2
    <3>4. ReadSoFar(layout, b, sure, WithField(vs, f, u.v), left)
      BY <1>1, <3>1, <3>2, OthersKept
    <3>5. ~ (k + 1 <= sure)
      BY <1>1, <2>6
    <3>6. PacketSoFar(layout, sure, b, Got(WithField(vs, f, u.v), u.rest), k + 1)
      BY <3>3, <3>4, <3>5 DEF PacketSoFar
    <3>7. PacketSoFar(layout, sure, b, Short, k + 1)
      BY DEF PacketSoFar
    <3>8. \/ AndField(Got(vs, c), f, u, f \in Forgiven(kind)) = Short
          \/ AndField(Got(vs, c), f, u, f \in Forgiven(kind)) = Got(WithField(vs, f, u.v), u.rest)
      BY AndFieldCases
    <3> QED BY <2>3, <3>6, <3>7, <3>8 DEF f
  <2> QED BY <2>5, <2>6
<1> QED BY <1>4, <1>5

\* Where the forgiven fields begin.
LEMMA SureLayout ==
  ASSUME NEW kind \in DOMAIN Read
  PROVE  LET layout == Read[kind].unmarshal
             sure == Len(SureFields(kind)) IN
           /\ SureUpTo(kind, layout, sure)
           /\ DOMAIN SureFields(kind) = 1..sure
           /\ \A i \in 1..sure : SureFields(kind)[i] = layout[i]
<1> DEFINE layout == Read[kind].unmarshal
<1>1. GoodLayout(layout)
  BY GoodTables
<1>2. CASE kind = "status"
  <2>1. layout = <<"id", "code", "msg", "lang">>
    <3>1. LayoutOf("status") = <<"id", "code", "msg", "lang">>
      BY DEF LayoutOf, HandleKinds, PathKinds
    <3> QED BY <1>2, <3>1, ReadTables, ReadLayouts
  <2>2. SureFields(kind) = <<"id", "code">>
    BY <1>2 DEF SureFields
  <2>3. Forgiven(kind) = {"msg", "lang"}
    BY <1>2 DEF Forgiven
  <2> HIDE DEF layout
  <2>4. Len(SureFields(kind)) = 2 /\ DOMAIN SureFields(kind) = 1..2 /\ Len(layout) = 4
    BY <2>1, <2>2
  <2>5. \A i \in 1..2 : SureFields(kind)[i] = layout[i] /\ layout[i] \notin Forgiven(kind)
    BY <2>1, <2>2, <2>3
  <2> QED BY <1>1, <2>4, <2>5 DEF SureUpTo, layout
<1>3. CASE kind # "status"
  <2>1. SureFields(kind) = layout
    BY <1>3 DEF SureFields
  <2>2. Forgiven(kind) = {}
    BY <1>3 DEF Forgiven
  <2>3. layout \in Seq(DOMAIN TypeOf)
    BY <1>1 DEF GoodLayout, ProperLayout
  <2> HIDE DEF layout
  <2> QED BY <1>1, <2>1, <2>2, <2>3 DEF SureUpTo, layout
<1> QED BY <1>2, <1>3

\* What a packet of the package says is what its bytes say: encoding the fields it cannot lack
\* gives the bytes it begins with, however the bytes came about.
THEOREM PacketExact ==
  ASSUME NEW kind \in DOMAIN Read, NEW b \in Seq(Bytes)
  PROVE  LET u == UnmarshalPacket(kind, b) IN
           \/ u = Short
           \/ /\ ~ u.failed
              /\ MarshalFields(SureFields(kind), u.v) \in Seq(Bytes)
              /\ \E left \in Seq(Bytes) : b = MarshalFields(SureFields(kind), u.v) \o left
<1> DEFINE layout == Read[kind].unmarshal
<1> DEFINE n == Len(layout)
<1> DEFINE sure == Len(SureFields(kind))
<1>1. /\ SureUpTo(kind, layout, sure) /\ DOMAIN SureFields(kind) = 1..sure
      /\ \A i \in 1..sure : SureFields(kind)[i] = layout[i]
  BY SureLayout
<1>2. layout \in Seq(DOMAIN TypeOf) /\ n \in Nat /\ sure \in Nat /\ sure <= n
  <2>1. layout \in Seq(DOMAIN TypeOf) /\ sure \in 0..n
    BY <1>1 DEF SureUpTo, GoodLayout, ProperLayout
  <2> QED BY <2>1
<1>3. PICK run : /\ Runs("fields", kind, Got(<<>>, b), layout, n, run)
                 /\ UnmarshalPacket(kind, b) = run[n]
  BY <1>2, PacketRuns
<1> HIDE DEF layout, n, sure
<1> DEFINE S == {k \in Nat : k <= n => PacketSoFar(layout, sure, b, run[k], k)}
<1>4. 0 \in S
  <2>1. PacketSoFar(layout, sure, b, Got(<<>>, b), 0)
    BY <1>2, NothingRead
  <2> QED BY <1>3, <2>1 DEF Runs
<1>5. ASSUME NEW k \in Nat, k \in S PROVE k + 1 \in S
  <2> SUFFICES ASSUME k + 1 <= n PROVE PacketSoFar(layout, sure, b, run[k + 1], k + 1)
    OBVIOUS
  <2>1. k \in 0..(n - 1) /\ k <= n
    BY <1>2
  <2>2. run[k + 1] = Turn("fields", kind, run[k], layout[k + 1])
    BY <1>3, <2>1 DEF Runs
  <2>3. PacketSoFar(layout, sure, b, run[k], k)
    BY <1>5, <2>1
  <2>4. k \in 0..(Len(layout) - 1)
    BY <2>1 DEF n
  <2>5. PacketSoFar(layout, sure, b, Turn("fields", kind, run[k], layout[k + 1]), k + 1)
    BY <1>1, <2>3, <2>4, PacketStep
  <2> QED BY <2>2, <2>5
<1>6. n \in S
  <2> HIDE DEF S
  <2> QED BY <1>2, <1>4, <1>5, SetInduction
<1>7. PacketSoFar(layout, sure, b, run[n], n)
  BY <1>2, <1>6
<1>8. CASE run[n] = Short
  BY <1>3, <1>8
<1>9. CASE run[n] # Short
  <2>1. PICK vs, left : \E c \in Seq(Bytes) :
          run[n] = Got(vs, c) /\ ReadSoFar(layout, b, IF n <= sure THEN n ELSE sure, vs, left)
    BY <1>7, <1>9 DEF PacketSoFar
  <2>2. ReadSoFar(layout, b, sure, vs, left)
    <3>1. n <= sure => n = sure
      BY <1>2
    <3> QED BY <2>1, <3>1
  <2>3. FirstBytes(layout, sure, vs) \in Seq(Bytes)
    <3>1. \A i \in 1..sure : vs[layout[i]] \in Values(TypeOf[layout[i]])
      BY <2>2 DEF ReadSoFar
    <3>2. /\ FirstBytes(layout, sure, vs) = FlattenSeq([i \in 1..sure |-> Marshal(TypeOf[layout[i]], vs[layout[i]])])
          /\ FlattenSeq([i \in 1..sure |-> Marshal(TypeOf[layout[i]], vs[layout[i]])]) \in Seq(Bytes)
      BY <1>2, <3>1, FirstAreBytes
    <3> QED BY <3>2
  <2>4. FirstBytes(layout, sure, vs) = MarshalFields(SureFields(kind), vs)
    <3> DEFINE sf == SureFields(kind)
    <3>1. DOMAIN sf = 1..sure /\ \A i \in 1..sure : sf[i] = layout[i]
      BY <1>1
    <3> HIDE DEF sf
    <3>2. [i \in DOMAIN sf |-> Marshal(TypeOf[sf[i]], vs[sf[i]])]
            = [i \in 1..sure |-> Marshal(TypeOf[layout[i]], vs[layout[i]])]
      BY <3>1
    <3>3. FirstBytes(layout, sure, vs) = MarshalFields(sf, vs)
      BY <3>2, Zenon DEF FirstBytes, MarshalFields
    <3> QED BY <3>3 DEF sf
  <2>5. UnmarshalPacket(kind, b).v = vs /\ UnmarshalPacket(kind, b).failed = FALSE
    BY <1>3, <2>1, GotFields
  <2>6. left \in Seq(Bytes) /\ b = MarshalFields(SureFields(kind), vs) \o left
    BY <2>2, <2>4 DEF ReadSoFar
  <2> QED BY <2>3, <2>4, <2>5, <2>6
<1> QED BY <1>8, <1>9

-----------------------------------------------------------------------------
(* The two decoders agree: a Buffer holds what the functions of the        *)
(* package return, or has failed where they fail.                          *)

FxFailed(buf) == \E z : buf = Broken(z)

Alike(buf, u) ==
  \/ \E v : \E rest \in Seq(Bytes) : buf = Got(v, rest) /\ u = Got(v, rest)
  \/ FxFailed(buf) /\ u = Short

LEMMA RecordExcept ==
  ASSUME NEW a, NEW b, NEW w, NEW y, NEW x, x = [v |-> a, rest |-> b, failed |-> y]
  PROVE  /\ [x EXCEPT !.v = w] = [v |-> w, rest |-> b, failed |-> y]
         /\ [x EXCEPT !.rest = w] = [v |-> a, rest |-> w, failed |-> y]
OBVIOUS

LEMMA GotExcept ==
  ASSUME NEW v, NEW b, NEW w
  PROVE  [Got(v, b) EXCEPT !.v = w] = Got(w, b) /\ [Got(v, b) EXCEPT !.rest = w] = Got(v, w)
<1>1. PICK y : y = FALSE
  OBVIOUS
<1>2. \A c, d : Got(c, d) = [v |-> c, rest |-> d, failed |-> y]
  BY <1>1 DEF Got
<1> QED BY <1>2, RecordExcept

LEMMA GotRest ==
  \A v, b, w : [Got(v, b) EXCEPT !.rest = w] = Got(v, w)
<1> TAKE v, b, w
<1>1. [Got(v, b) EXCEPT !.rest = w] = Got(v, w)
  BY GotExcept
<1> QED BY <1>1

LEMMA GotValue ==
  \A v, b, w : [Got(v, b) EXCEPT !.v = w] = Got(w, b)
<1> TAKE v, b, w
<1>1. [Got(v, b) EXCEPT !.v = w] = Got(w, b)
  BY GotExcept
<1> QED BY <1>1

LEMMA BrokenFields ==
  ASSUME NEW buf, FxFailed(buf)
  PROVE  /\ buf.failed = TRUE /\ buf.rest = <<>>
         /\ \A v : FxFailed([buf EXCEPT !.v = v])
<1>1. PICK z : buf = Broken(z)
  BY DEF FxFailed
<1>2. buf.failed = TRUE /\ buf.rest = <<>>
  BY <1>1 DEF Broken
<1>3. ASSUME NEW v PROVE [buf EXCEPT !.v = v] = Broken(v)
  <2>1. PICK y : y = TRUE
    OBVIOUS
  <2>2. \A c : Broken(c) = [v |-> c, rest |-> <<>>, failed |-> y]
    BY <2>1 DEF Broken
  <2> QED BY <1>1, <2>2, RecordExcept
<1> QED BY <1>2, <1>3 DEF FxFailed

LEMMA BufferIsGot ==
  \A v, b : Got(v, b) = [v |-> v, rest |-> b, failed |-> FALSE]
BY DEF Got

LEMMA NumbersBroken ==
  ASSUME NEW buf, FxFailed(buf)
  PROVE  ConsumeUint32(buf) = Broken(0) /\ ConsumeUint64(buf) = Broken(<<0, 0>>)
         /\ ConsumeByteSlice(buf) = Broken(<<>>)
<1>1. buf.failed = TRUE
  BY BrokenFields
<1>2. ConsumeUint32(buf) = Broken(0) /\ ConsumeUint64(buf) = Broken(<<0, 0>>)
  BY <1>1 DEF ConsumeUint32, ConsumeUint64
<1>3. Broken(0).failed = TRUE
  BY DEF Broken
<1>4. TakeLength(Broken(0)) = Broken(<<>>)
  BY <1>3 DEF TakeLength
<1> QED BY <1>2, <1>4 DEF ConsumeByteSlice

LEMMA BrokenIsFailed == \A z : FxFailed(Broken(z))
BY DEF FxFailed

LEMMA Uint32Alike ==
  ASSUME NEW x, NEW c \in Seq(Bytes)
  PROVE  Alike(ConsumeUint32(Got(x, c)), UnmarshalUint32Safe(c))
<1>1. Got(x, c).failed = FALSE /\ Got(x, c).rest = c
  BY GotFields
<1>2. CASE Len(c) < WordLen
  <2>1. ConsumeUint32(Got(x, c)) = Broken(0) /\ UnmarshalUint32Safe(c) = Short
    BY <1>1, <1>2 DEF ConsumeUint32, UnmarshalUint32Safe
  <2> QED BY <2>1, BrokenIsFailed DEF Alike
<1>3. CASE ~ (Len(c) < WordLen)
  <2>1. PICK v \in Uint32, rest \in Seq(Bytes) :
          /\ UnmarshalUint32Safe(c) = Got(v, rest)
          /\ v = c[1] * Base + c[2] /\ rest = Drop(c, WordLen)
    BY <1>3, Uint32Exact
  <2>2. ConsumeUint32(Got(x, c)) = [v |-> c[1] * Base + c[2], rest |-> Drop(c, WordLen), failed |-> FALSE]
    BY <1>1, <1>3 DEF ConsumeUint32
  <2>3. ConsumeUint32(Got(x, c)) = Got(v, rest)
    BY <2>1, <2>2, BufferIsGot
  <2> QED BY <2>1, <2>3 DEF Alike
<1> QED BY <1>2, <1>3

LEMMA Uint64Alike ==
  ASSUME NEW x, NEW c \in Seq(Bytes)
  PROVE  Alike(ConsumeUint64(Got(x, c)), UnmarshalUint64Safe(c))
<1>1. Got(x, c).failed = FALSE /\ Got(x, c).rest = c
  BY GotFields
<1>2. CASE Len(c) < 2 * WordLen
  <2>1. ConsumeUint64(Got(x, c)) = Broken(<<0, 0>>) /\ UnmarshalUint64Safe(c) = Short
    BY <1>1, <1>2 DEF ConsumeUint64, UnmarshalUint64Safe
  <2> QED BY <2>1, BrokenIsFailed DEF Alike
<1>3. CASE ~ (Len(c) < 2 * WordLen)
  <2>1. PICK v \in Uint32 \X Uint32, rest \in Seq(Bytes) :
          /\ UnmarshalUint64Safe(c) = Got(v, rest)
          /\ rest = Drop(c, 2 * WordLen)
          /\ v = <<c[1] * Base + c[2], c[3] * Base + c[4]>>
    BY <1>3, Uint64Exact
  <2> DEFINE d == Drop(c, WordLen)
  <2>2. /\ Len(c) \in Nat /\ Len(c) >= 4 /\ WordLen = 2
        /\ d \in Seq(Bytes) /\ Len(d) = Len(c) - 2
    <3>1. Len(c) \in Nat /\ Len(c) >= 4 /\ WordLen = 2
      BY <1>3 DEF WordLen
    <3>2. WordLen \in 0..Len(c)
      BY <3>1
    <3> QED BY <3>1, <3>2, SplitBytes
  <2>3. /\ d[1] = c[3] /\ d[2] = c[4] /\ Drop(d, WordLen) = Drop(c, 2 * WordLen)
    <3>1. WordLen \in Nat /\ WordLen + WordLen <= Len(c) /\ WordLen + WordLen = 2 * WordLen
      BY <2>2
    <3>2. /\ \A i \in 1..(Len(c) - WordLen) : Drop(c, WordLen)[i] = c[WordLen + i]
          /\ Drop(Drop(c, WordLen), WordLen) = Drop(c, WordLen + WordLen)
      BY <3>1, DropTwice
    <3>3. 1 \in 1..(Len(c) - WordLen) /\ 2 \in 1..(Len(c) - WordLen) /\ WordLen + 1 = 3 /\ WordLen + 2 = 4
      BY <2>2
    <3> QED BY <3>1, <3>2, <3>3
  <2>4. ConsumeUint32(Got(x, c)) = Got(c[1] * Base + c[2], d)
    BY <1>1, <2>2 DEF ConsumeUint32, Got
  <2>5. ConsumeUint32([Got(x, c) EXCEPT !.rest = Drop(Got(x, c).rest, WordLen)])
          = Got(c[3] * Base + c[4], Drop(c, 2 * WordLen))
    <3>1. [Got(x, c) EXCEPT !.rest = Drop(Got(x, c).rest, WordLen)] = Got(x, d)
      <4>1. Drop(Got(x, c).rest, WordLen) = d
        BY <1>1
      <4> HIDE DEF d
      <4>2. [Got(x, c) EXCEPT !.rest = d] = Got(x, d)
        BY GotRest, Zenon
      <4> QED BY <4>1, <4>2, Zenon
    <3>2. Got(x, d).failed = FALSE /\ Got(x, d).rest = d
      BY GotFields
    <3>3. ConsumeUint32(Got(x, d)) = Got(d[1] * Base + d[2], Drop(d, WordLen))
      <4>1. ~ (Len(d) < WordLen)
        BY <2>2
      <4> HIDE DEF d
      <4> QED BY <3>2, <4>1 DEF ConsumeUint32, Got
    <3> QED BY <2>3, <3>1, <3>3
  <2>6. ConsumeUint64(Got(x, c))
          = PairWith(Got(c[1] * Base + c[2], d), Got(c[3] * Base + c[4], Drop(c, 2 * WordLen)))
    BY <1>1, <1>3, <2>4, <2>5 DEF ConsumeUint64
  <2>7. \A h, l, e, r : PairWith(Got(h, e), Got(l, r)) = Got(<<h, l>>, r)
    <3> TAKE h, l, e, r
    <3>1. Got(h, e).v = h /\ Got(l, r).v = l
      BY GotFields
    <3> DEFINE low == Got(l, r)
    <3> DEFINE pair == <<Got(h, e).v, low.v>>
    <3>2. pair = <<h, l>>
      BY <3>1
    <3> HIDE DEF pair
    <3>3. [low EXCEPT !.v = pair] = Got(pair, r)
      BY GotExcept
    <3>4. PairWith(Got(h, e), low) = [low EXCEPT !.v = pair]
      BY Zenon DEF PairWith, pair
    <3> QED BY <3>2, <3>3, <3>4, Zenon
  <2>8. ConsumeUint64(Got(x, c)) = Got(v, rest)
    BY <2>1, <2>6, <2>7
  <2> QED BY <2>1, <2>8 DEF Alike
<1> QED BY <1>2, <1>3

LEMMA StringAlike ==
  ASSUME NEW x, NEW c \in Seq(Bytes)
  PROVE  Alike(ConsumeByteSlice(Got(x, c)), UnmarshalStringSafe(c))
<1> DEFINE n == ConsumeUint32(Got(x, c))
<1> DEFINE u == UnmarshalUint32Safe(c)
<1>1. Alike(n, u)
  BY Uint32Alike
<1>2. ConsumeByteSlice(Got(x, c)) = TakeLength(n) /\ UnmarshalStringSafe(c) = TakeCounted(u)
  BY DEF ConsumeByteSlice, UnmarshalStringSafe
<1>3. CASE u = Short
  <2>1. Got(0, c).failed = FALSE /\ Short.failed = TRUE
    BY GotFields, ShortFields
  <2>2. FxFailed(n)
    <3>1. \A v, rest : Got(v, rest) # Short
      BY GotFields, ShortFields
    <3> HIDE DEF n, u
    <3> QED BY <1>1, <1>3, <3>1 DEF Alike
  <2>3. n.failed = TRUE
    BY <2>2, BrokenFields
  <2> HIDE DEF n, u
  <2>4. TakeLength(n) = Broken(<<>>) /\ TakeCounted(u) = Short
    BY <1>3, <2>1, <2>3 DEF TakeLength, TakeCounted
  <2> QED BY <1>2, <2>4, BrokenIsFailed DEF Alike
<1>4. CASE u # Short
  <2>1. PICK v \in Uint32, rest \in Seq(Bytes) : u = Got(v, rest)
    BY <1>4, Uint32Exact
  <2>2. n = Got(v, rest)
    <3> HIDE DEF n, u
    <3> QED BY <1>1, <1>4, <2>1 DEF Alike
  <2> HIDE DEF n, u
  <2>3. Got(v, rest).v = v /\ Got(v, rest).rest = rest /\ Got(v, rest).failed = FALSE
    BY GotFields
  <2>4. v \in Nat /\ Len(rest) \in Nat
    BY <2>1 DEF Uint32
  <2>5. CASE v > Len(rest)
    <3>1. TakeLength(n) = Broken(<<>>) /\ TakeCounted(u) = Short
      BY <2>1, <2>2, <2>3, <2>4, <2>5 DEF TakeLength, TakeCounted
    <3> QED BY <1>2, <3>1, BrokenIsFailed DEF Alike
  <2>6. CASE ~ (v > Len(rest))
    <3>1. /\ TakeLength(n) = Got(SubSeq(rest, 1, v), Drop(rest, v))
          /\ TakeCounted(u) = Got(SubSeq(rest, 1, v), Drop(rest, v))
      <4>1. TakeCounted(u) = Got(SubSeq(rest, 1, v), Drop(rest, v))
        BY <2>1, <2>3, <2>6 DEF TakeCounted
      <4>2. ~ (Len(rest) < v)
        BY <2>4, <2>6
      <4>3. TakeLength(n) = [v |-> SubSeq(rest, 1, v), rest |-> Drop(rest, v), failed |-> FALSE]
        BY <2>2, <2>3, <4>2 DEF TakeLength
      <4> QED BY <4>1, <4>3, BufferIsGot
    <3>2. Drop(rest, v) \in Seq(Bytes)
      <4>1. v \in 0..Len(rest)
        BY <2>4, <2>6
      <4> QED BY <2>1, <4>1, SplitBytes
    <3> QED BY <1>2, <3>1, <3>2 DEF Alike
  <2> QED BY <2>5, <2>6
<1> QED BY <1>3, <1>4

LEMMA AlikeCases ==
  ASSUME NEW buf, NEW u, Alike(buf, u)
  PROVE  \/ /\ FxFailed(buf) /\ u = Short /\ u.failed = TRUE /\ u.rest = <<>>
            /\ buf.failed = TRUE /\ buf.rest = <<>>
         \/ \E v : \E rest \in Seq(Bytes) :
              /\ buf = Got(v, rest) /\ u = Got(v, rest)
              /\ u.failed = FALSE /\ u.rest = rest /\ u.v = v
<1>1. CASE FxFailed(buf) /\ u = Short
  BY <1>1, BrokenFields, ShortFields
<1>2. CASE \E v : \E rest \in Seq(Bytes) : buf = Got(v, rest) /\ u = Got(v, rest)
  BY <1>2, GotFields
<1> QED BY <1>1, <1>2 DEF Alike

LEMMA JoinedAlike ==
  ASSUME NEW x, NEW c, NEW buf, NEW u, Alike(buf, u)
  PROVE  Alike(Joined(x, buf), AndThen(Got(x, c), u))
<1>1. CASE FxFailed(buf) /\ u = Short
  <2>1. \A v : FxFailed([buf EXCEPT !.v = v])
    BY <1>1, BrokenFields
  <2>2. FxFailed(Joined(x, buf))
    BY <2>1, Zenon DEF Joined
  <2>3. AndThen(Got(x, c), u) = Short
    BY <1>1, NothingAfterShort
  <2> QED BY <2>2, <2>3 DEF Alike
<1>2. CASE ~ (FxFailed(buf) /\ u = Short)
  <2>1. PICK v : \E rest \in Seq(Bytes) : buf = Got(v, rest) /\ u = Got(v, rest)
    BY <1>2 DEF Alike
  <2>2. PICK rest \in Seq(Bytes) : buf = Got(v, rest) /\ u = Got(v, rest)
    BY <2>1
  <2>3. AndThen(Got(x, c), u) = Got(Append(x, v), rest)
    BY <2>2, ThenGot
  <2>4. buf.v = v
    BY <2>2, GotFields
  <2>5. [Got(v, rest) EXCEPT !.v = Append(x, v)] = Got(Append(x, v), rest)
    BY GotValue, Zenon
  <2>6. Joined(x, buf) = Got(Append(x, v), rest)
    BY <2>2, <2>4, <2>5, Zenon DEF Joined
  <2> QED BY <2>2, <2>3, <2>6 DEF Alike
<1> QED BY <1>1, <1>2

LEMMA JoinStringAlike ==
  \A buf, u : Alike(buf, u) => Alike(JoinString(buf), AndString(u))
<1> TAKE buf, u
<1> HAVE Alike(buf, u)
<1>1. CASE FxFailed(buf) /\ u = Short
  <2>1. ConsumeByteSlice(buf) = Broken(<<>>)
    BY <1>1, NumbersBroken
  <2>2. Alike(ConsumeByteSlice(buf), Short)
    BY <2>1, BrokenIsFailed DEF Alike
  <2>3. Alike(Joined(buf.v, ConsumeByteSlice(buf)), AndThen(Got(buf.v, <<>>), Short))
    BY <2>2, JoinedAlike
  <2>4. AndThen(Got(buf.v, <<>>), Short) = Short /\ AndString(u) = Short
    BY <1>1, NothingAfterShort
  <2> QED BY <2>3, <2>4 DEF JoinString
<1>2. CASE ~ (FxFailed(buf) /\ u = Short)
  <2>1. PICK v : \E rest \in Seq(Bytes) :
          buf = Got(v, rest) /\ u = Got(v, rest) /\ u.rest = rest /\ u.v = v
    BY <1>2, AlikeCases
  <2>2. PICK rest \in Seq(Bytes) : buf = Got(v, rest) /\ u = Got(v, rest) /\ u.rest = rest /\ u.v = v
    BY <2>1
  <2>3. Alike(ConsumeByteSlice(Got(v, rest)), UnmarshalStringSafe(rest))
    BY <2>2, StringAlike
  <2>4. Alike(Joined(v, ConsumeByteSlice(Got(v, rest))), AndThen(Got(v, rest), UnmarshalStringSafe(rest)))
    BY <2>3, JoinedAlike
  <2> QED BY <2>2, <2>4 DEF JoinString, AndString
<1> QED BY <1>1, <1>2

LEMMA FreshGot == \A v, b : Fresh(Got(v, b)) = Got(<<>>, b)
<1> TAKE v, b
<1>1. [Got(v, b) EXCEPT !.v = <<>>] = Got(<<>>, b)
  BY GotExcept
<1> QED BY <1>1, Zenon DEF Fresh

LEMMA FreshBroken == \A buf : FxFailed(buf) => FxFailed(Fresh(buf))
<1> TAKE buf
<1> HAVE FxFailed(buf)
<1>1. \A v : FxFailed([buf EXCEPT !.v = v])
  BY BrokenFields
<1> QED BY <1>1, Zenon DEF Fresh

\* What is broken stays broken.
LEMMA JoinedBroken ==
  \A x, buf : FxFailed(buf) => FxFailed(Joined(x, buf))
<1> TAKE x, buf
<1> HAVE FxFailed(buf)
<1>1. \A v : FxFailed([buf EXCEPT !.v = v])
  BY BrokenFields
<1> QED BY <1>1, Zenon DEF Joined

LEMMA JoinStringBroken ==
  \A buf : FxFailed(buf) => FxFailed(JoinString(buf))
<1> TAKE buf
<1> HAVE FxFailed(buf)
<1>1. ConsumeByteSlice(buf) = Broken(<<>>)
  BY NumbersBroken
<1> QED BY <1>1, BrokenIsFailed, JoinedBroken DEF JoinString

LEMMA ConsumePairAlike ==
  \A buf, u : Alike(buf, u) => Alike(FxConsumePair(buf), UnmarshalPair(u))
<1> TAKE buf, u
<1> HAVE Alike(buf, u)
<1> DEFINE two == JoinString(JoinString(Fresh(buf)))
<1>1. FxConsumePair(buf) = Joined(buf.v, two)
  BY DEF FxConsumePair
<1>2. CASE FxFailed(buf) /\ u = Short
  <2>1. FxFailed(two)
    BY <1>2, FreshBroken, JoinStringBroken
  <2>2. FxFailed(FxConsumePair(buf))
    BY <1>1, <2>1, JoinedBroken
  <2> QED BY <1>2, <2>2, NothingAfterShort DEF Alike
<1>3. CASE ~ (FxFailed(buf) /\ u = Short)
  <2>1. PICK v : \E rest \in Seq(Bytes) :
          buf = Got(v, rest) /\ u = Got(v, rest) /\ u.rest = rest /\ u.v = v
    BY <1>3, AlikeCases
  <2>2. PICK rest \in Seq(Bytes) : buf = Got(v, rest) /\ u = Got(v, rest) /\ u.rest = rest /\ u.v = v
    BY <2>1
  <2>3. Alike(Fresh(buf), Got(<<>>, rest))
    BY <2>2, FreshGot DEF Alike
  <2>4. Alike(two, AndString(AndString(Got(<<>>, rest))))
    BY <2>3, JoinStringAlike
  <2>5. UnmarshalPair(u) = AndThen(Got(v, rest), AndString(AndString(Got(<<>>, rest))))
    BY <2>2 DEF UnmarshalPair
  <2>6. buf.v = v
    BY <2>2
  <2> HIDE DEF two
  <2>7. Alike(Joined(v, two), AndThen(Got(v, rest), AndString(AndString(Got(<<>>, rest)))))
    BY <2>4, JoinedAlike
  <2> QED BY <1>1, <2>5, <2>6, <2>7
<1> QED BY <1>2, <1>3

-----------------------------------------------------------------------------
(* Loops in lockstep.                                                      *)

LEMMA FxCountedLoop ==
  ASSUME NEW base, NEW n \in Nat, NEW seq, DOMAIN seq = 1..n
  PROVE  \E run : /\ Runs("fxcounted", "any", base, seq, n, run)
                  /\ FoldLeft(LAMBDA acc, i : IF acc.failed THEN acc ELSE FxConsumePair(acc), base, seq)
                       = run[n]
<1> DEFINE P(it) == it = [s \in SUBSET (1..n) |->
                            IF s = {} THEN base
                            ELSE IF it[s \ {Max(s)}].failed THEN it[s \ {Max(s)}]
                                 ELSE FxConsumePair(it[s \ {Max(s)}])]
<1>1. \A it : P(it) <=> Iterates("fxcounted", "any", base, seq, n, it)
  BY DEF Iterates, Turn
<1>2. P(CHOOSE it : P(it))
  BY <1>1, IterationExists
<1>3. FoldLeft(LAMBDA acc, i : IF acc.failed THEN acc ELSE FxConsumePair(acc), base, seq)
        = (CHOOSE it : P(it))[1..n]
  BY Zenon DEF FoldLeft, MapThenFoldSet
<1> HIDE DEF P
<1>4. PICK it : /\ P(it)
                /\ FoldLeft(LAMBDA acc, i : IF acc.failed THEN acc ELSE FxConsumePair(acc), base, seq)
                     = it[1..n]
  BY <1>2, <1>3, Zenon
<1>5. P(it)
  BY <1>4, Zenon
<1>6. PICK run : Runs("fxcounted", "any", base, seq, n, run) /\ run[n] = it[1..n]
  BY <1>1, <1>5, RunOfIteration
<1> QED BY <1>4, <1>6, Zenon

LEMMA FxNamesLoop ==
  ASSUME NEW base, NEW n \in Nat, NEW seq, DOMAIN seq = 1..n
  PROVE  \E run : /\ Runs("fxnames", "any", base, seq, n, run)
                  /\ FoldLeft(LAMBDA acc, i : IF acc.failed THEN acc ELSE FxConsumeEntry(acc), base, seq)
                       = run[n]
<1> DEFINE P(it) == it = [s \in SUBSET (1..n) |->
                            IF s = {} THEN base
                            ELSE IF it[s \ {Max(s)}].failed THEN it[s \ {Max(s)}]
                                 ELSE FxConsumeEntry(it[s \ {Max(s)}])]
<1>1. \A it : P(it) <=> Iterates("fxnames", "any", base, seq, n, it)
  BY DEF Iterates, Turn
<1>2. P(CHOOSE it : P(it))
  BY <1>1, IterationExists
<1>3. FoldLeft(LAMBDA acc, i : IF acc.failed THEN acc ELSE FxConsumeEntry(acc), base, seq)
        = (CHOOSE it : P(it))[1..n]
  BY Zenon DEF FoldLeft, MapThenFoldSet
<1> HIDE DEF P
<1>4. PICK it : /\ P(it)
                /\ FoldLeft(LAMBDA acc, i : IF acc.failed THEN acc ELSE FxConsumeEntry(acc), base, seq)
                     = it[1..n]
  BY <1>2, <1>3, Zenon
<1>5. P(it)
  BY <1>4, Zenon
<1>6. PICK run : Runs("fxnames", "any", base, seq, n, run) /\ run[n] = it[1..n]
  BY <1>1, <1>5, RunOfIteration
<1> QED BY <1>4, <1>6, Zenon

LEMMA FxPairsLoop ==
  ASSUME NEW base, NEW n \in Nat, NEW seq, DOMAIN seq = 1..n
  PROVE  \E run : /\ Runs("fxpairs", "any", base, seq, n, run)
                  /\ FoldLeft(LAMBDA acc, i : IF acc.rest = <<>> THEN acc ELSE FxConsumePair(acc), base, seq)
                       = run[n]
<1> DEFINE P(it) == it = [s \in SUBSET (1..n) |->
                            IF s = {} THEN base
                            ELSE IF it[s \ {Max(s)}].rest = <<>> THEN it[s \ {Max(s)}]
                                 ELSE FxConsumePair(it[s \ {Max(s)}])]
<1>1. \A it : P(it) <=> Iterates("fxpairs", "any", base, seq, n, it)
  BY DEF Iterates, Turn
<1>2. P(CHOOSE it : P(it))
  BY <1>1, IterationExists
<1>3. FoldLeft(LAMBDA acc, i : IF acc.rest = <<>> THEN acc ELSE FxConsumePair(acc), base, seq)
        = (CHOOSE it : P(it))[1..n]
  BY Zenon DEF FoldLeft, MapThenFoldSet
<1> HIDE DEF P
<1>4. PICK it : /\ P(it)
                /\ FoldLeft(LAMBDA acc, i : IF acc.rest = <<>> THEN acc ELSE FxConsumePair(acc), base, seq)
                     = it[1..n]
  BY <1>2, <1>3, Zenon
<1>5. P(it)
  BY <1>4, Zenon
<1>6. PICK run : Runs("fxpairs", "any", base, seq, n, run) /\ run[n] = it[1..n]
  BY <1>1, <1>5, RunOfIteration
<1> QED BY <1>4, <1>6, Zenon

LEMMA FxAttrsLoop ==
  ASSUME NEW base, NEW n \in Nat, NEW seq, DOMAIN seq = 1..n
  PROVE  \E run : /\ Runs("fxattrs", "any", base, seq, n, run)
                  /\ FoldLeft(LAMBDA acc, f : FxConsumeField(acc, f[1], f[2]), base, seq) = run[n]
<1> DEFINE P(it) == it = [s \in SUBSET (1..n) |->
                            IF s = {} THEN base
                            ELSE FxConsumeField(it[s \ {Max(s)}], seq[Max(s)][1], seq[Max(s)][2])]
<1>1. \A it : P(it) <=> Iterates("fxattrs", "any", base, seq, n, it)
  BY DEF Iterates, Turn
<1>2. P(CHOOSE it : P(it))
  BY <1>1, IterationExists
<1>3. FoldLeft(LAMBDA acc, f : FxConsumeField(acc, f[1], f[2]), base, seq) = (CHOOSE it : P(it))[1..n]
  BY Zenon DEF FoldLeft, MapThenFoldSet
<1> HIDE DEF P
<1>4. PICK it : /\ P(it)
                /\ FoldLeft(LAMBDA acc, f : FxConsumeField(acc, f[1], f[2]), base, seq) = it[1..n]
  BY <1>2, <1>3, Zenon
<1>5. P(it)
  BY <1>4, Zenon
<1>6. PICK run : Runs("fxattrs", "any", base, seq, n, run) /\ run[n] = it[1..n]
  BY <1>1, <1>5, RunOfIteration
<1> QED BY <1>4, <1>6, Zenon

LEMMA FxFieldsLoop ==
  ASSUME NEW base, NEW n \in Nat, NEW seq, DOMAIN seq = 1..n
  PROVE  \E run : /\ Runs("fxfields", "any", base, seq, n, run)
                  /\ FoldLeft(LAMBDA r, f : FieldOf(r, f, FxUnmarshal(TypeOf[f], r.buf)), base, seq) = run[n]
<1> DEFINE P(it) == it = [s \in SUBSET (1..n) |->
                            IF s = {} THEN base
                            ELSE FieldOf(it[s \ {Max(s)}], seq[Max(s)],
                                         FxUnmarshal(TypeOf[seq[Max(s)]], it[s \ {Max(s)}].buf))]
<1>1. \A it : P(it) <=> Iterates("fxfields", "any", base, seq, n, it)
  BY DEF Iterates, Turn
<1>2. P(CHOOSE it : P(it))
  BY <1>1, IterationExists
<1>3. FoldLeft(LAMBDA r, f : FieldOf(r, f, FxUnmarshal(TypeOf[f], r.buf)), base, seq) = (CHOOSE it : P(it))[1..n]
  BY Zenon DEF FoldLeft, MapThenFoldSet
<1> HIDE DEF P
<1>4. PICK it : /\ P(it)
                /\ FoldLeft(LAMBDA r, f : FieldOf(r, f, FxUnmarshal(TypeOf[f], r.buf)), base, seq) = it[1..n]
  BY <1>2, <1>3, Zenon
<1>5. P(it)
  BY <1>4, Zenon
<1>6. PICK run : Runs("fxfields", "any", base, seq, n, run) /\ run[n] = it[1..n]
  BY <1>1, <1>5, RunOfIteration
<1> QED BY <1>4, <1>6, Zenon

Lockstep(loop, fxloop) ==
  \A buf, u, i : Alike(buf, u) => Alike(Turn(fxloop, "any", buf, i), Turn(loop, "any", u, i))

LEMMA LoopsAlike ==
  ASSUME NEW loop, NEW fxloop, Lockstep(loop, fxloop), NEW base, NEW fxbase, Alike(fxbase, base),
         NEW is, NEW n \in Nat, NEW run, NEW fxrun,
         Runs(loop, "any", base, is, n, run), Runs(fxloop, "any", fxbase, is, n, fxrun)
  PROVE  Alike(fxrun[n], run[n])
<1> DEFINE S == {k \in Nat : k <= n => Alike(fxrun[k], run[k])}
<1>1. 0 \in S
  BY DEF Runs
<1>2. ASSUME NEW k \in Nat, k \in S PROVE k + 1 \in S
  <2> SUFFICES ASSUME k + 1 <= n PROVE Alike(fxrun[k + 1], run[k + 1])
    OBVIOUS
  <2>1. k \in 0..(n - 1) /\ k <= n
    OBVIOUS
  <2>2. Alike(fxrun[k], run[k])
    BY <1>2, <2>1
  <2>3. run[k + 1] = Turn(loop, "any", run[k], is[k + 1])
    BY <2>1 DEF Runs
  <2>4. fxrun[k + 1] = Turn(fxloop, "any", fxrun[k], is[k + 1])
    BY <2>1 DEF Runs
  <2>5. Alike(Turn(fxloop, "any", fxrun[k], is[k + 1]), Turn(loop, "any", run[k], is[k + 1]))
    BY <2>2 DEF Lockstep
  <2> QED BY <2>3, <2>4, <2>5
<1>3. n \in S
  <2> HIDE DEF S
  <2> QED BY <1>1, <1>2, SetInduction
<1> QED BY <1>3

LEMMA CountBroken ==
  ASSUME NEW buf, FxFailed(ConsumeUint32(buf))
  PROVE  ConsumeUint32(buf) = Broken(0)
<1> DEFINE r == [v |-> buf.rest[1] * Base + buf.rest[2], rest |-> Drop(buf.rest, WordLen), failed |-> FALSE]
<1>1. ConsumeUint32(buf) = Broken(0) \/ ConsumeUint32(buf) = r
  BY DEF ConsumeUint32
<1>2. r.failed = FALSE
  OBVIOUS
<1>3. ConsumeUint32(buf).failed = TRUE
  BY BrokenFields
<1> QED BY <1>1, <1>2, <1>3

\* A count, read by either.
LEMMA CountAlike ==
  ASSUME NEW buf, NEW u, Alike(buf, u)
  PROVE  \/ ConsumeUint32(buf) = Broken(0) /\ UnmarshalUint32Safe(u.rest) = Short
         \/ \E n \in Uint32, c \in Seq(Bytes) :
              ConsumeUint32(buf) = Got(n, c) /\ UnmarshalUint32Safe(u.rest) = Got(n, c)
<1>1. CASE FxFailed(buf) /\ u = Short
  <2>1. ConsumeUint32(buf) = Broken(0)
    BY <1>1, NumbersBroken
  <2>2. UnmarshalUint32Safe(<<>>) = Short
    BY DEF UnmarshalUint32Safe, WordLen
  <2> QED BY <1>1, <2>1, <2>2, ShortFields
<1>2. CASE ~ (FxFailed(buf) /\ u = Short)
  <2>1. PICK v : \E rest \in Seq(Bytes) :
          buf = Got(v, rest) /\ u = Got(v, rest) /\ u.rest = rest /\ u.v = v
    BY <1>2, AlikeCases
  <2>2. PICK rest \in Seq(Bytes) : buf = Got(v, rest) /\ u = Got(v, rest) /\ u.rest = rest /\ u.v = v
    BY <2>1
  <2>3. Alike(ConsumeUint32(Got(v, rest)), UnmarshalUint32Safe(rest))
    BY <2>2, Uint32Alike
  <2> DEFINE w == UnmarshalUint32Safe(rest)
  <2> DEFINE x == ConsumeUint32(Got(v, rest))
  <2>4. CASE FxFailed(x)
    <3>1. x = Broken(0)
      BY <2>4, CountBroken
    <3>2. w = Short
      <4>1. x.failed = TRUE
        BY <2>4, BrokenFields
      <4>2. \A a, b : Got(a, b).failed = FALSE
        BY GotFields
      <4> HIDE DEF x, w
      <4> QED BY <2>3, <4>1, <4>2 DEF Alike, x, w
    <3> QED BY <2>2, <3>1, <3>2
  <2>5. CASE ~ FxFailed(x)
    <3>1. PICK a : \E c : x = Got(a, c) /\ w = Got(a, c)
      BY <2>3, <2>5 DEF Alike
    <3>2. PICK c : x = Got(a, c) /\ w = Got(a, c)
      BY <3>1
    <3>3. w # Short
      BY <3>2, GotFields, ShortFields
    <3>4. PICK n \in Uint32, d \in Seq(Bytes) : w = Got(n, d)
      BY <2>2, <3>3, Uint32Exact
    <3>5. x = Got(n, d)
      BY <3>2, <3>4
    <3> QED BY <2>2, <3>4, <3>5
  <2> QED BY <2>4, <2>5
<1> QED BY <1>1, <1>2

TurnsFor(n, c) == [i \in 1..(IF n > Len(c) THEN Len(c) + 1 ELSE n) |-> i]

LEMMA TurnsForCount ==
  ASSUME NEW n \in Uint32, NEW c \in Seq(Bytes)
  PROVE  \E m \in Nat : TurnsFor(n, c) = [i \in 1..m |-> i] /\ DOMAIN TurnsFor(n, c) = 1..m
<1>1. n \in Nat /\ Len(c) \in Nat
  BY DEF Uint32
<1>2. PICK m \in Nat : m = IF n > Len(c) THEN Len(c) + 1 ELSE n
  BY <1>1
<1> QED BY <1>2 DEF TurnsFor

LEMMA PairsLockstep == Lockstep("counted", "fxcounted") /\ Lockstep("pairs", "fxpairs")
<1> SUFFICES ASSUME NEW buf, NEW u, NEW i, Alike(buf, u)
             PROVE  /\ Alike(Turn("fxcounted", "any", buf, i), Turn("counted", "any", u, i))
                    /\ Alike(Turn("fxpairs", "any", buf, i), Turn("pairs", "any", u, i))
  BY DEF Lockstep
<1>1. /\ Turn("counted", "any", u, i) = UnmarshalPair(u)
      /\ Turn("fxcounted", "any", buf, i) = IF buf.failed THEN buf ELSE FxConsumePair(buf)
      /\ Turn("pairs", "any", u, i) = IF u.failed \/ u.rest = <<>> THEN u ELSE UnmarshalPair(u)
      /\ Turn("fxpairs", "any", buf, i) = IF buf.rest = <<>> THEN buf ELSE FxConsumePair(buf)
  BY DEF Turn
<1>2. Alike(FxConsumePair(buf), UnmarshalPair(u))
  BY ConsumePairAlike
<1>3. CASE FxFailed(buf) /\ u = Short
  <2>1. buf.failed = TRUE /\ buf.rest = <<>> /\ u.failed = TRUE
    BY <1>3, BrokenFields, ShortFields
  <2>2. UnmarshalPair(u) = Short
    BY <1>3, NothingAfterShort
  <2>3. /\ Turn("counted", "any", u, i) = Short /\ Turn("fxcounted", "any", buf, i) = buf
        /\ Turn("pairs", "any", u, i) = Short /\ Turn("fxpairs", "any", buf, i) = buf
    BY <1>1, <1>3, <2>1, <2>2
  <2> QED BY <1>3, <2>3
<1>4. CASE ~ (FxFailed(buf) /\ u = Short)
  <2>1. PICK v : \E rest \in Seq(Bytes) :
          buf = Got(v, rest) /\ u = Got(v, rest)
    BY <1>4 DEF Alike
  <2>2. buf = u /\ buf.failed = FALSE
    BY <2>1, GotFields
  <2> QED BY <1>1, <1>2, <2>2
<1> QED BY <1>3, <1>4

LEMMA CountedAlike ==
  \A buf, u : Alike(buf, u) =>
    Alike(Repeat(FxConsumePair, ConsumeUint32(buf)), UnmarshalCounted(UnmarshalUint32Safe(u.rest)))
<1> TAKE buf, u
<1> HAVE Alike(buf, u)
<1>1. CASE ConsumeUint32(buf) = Broken(0) /\ UnmarshalUint32Safe(u.rest) = Short
  <2>1. UnmarshalCounted(Short) = Short
    BY ShortFields DEF UnmarshalCounted
  <2> DEFINE n == IF Broken(0).v > Len(Broken(0).rest) THEN Len(Broken(0).rest) + 1 ELSE Broken(0).v
  <2>2. n = 0
    BY DEF Broken
  <2>3. Repeat(FxConsumePair, Broken(0))
          = FoldLeft(LAMBDA acc, i : IF acc.failed THEN acc ELSE FxConsumePair(acc), Fresh(Broken(0)),
                     [i \in 1..n |-> i])
    BY Zenon DEF Repeat
  <2> HIDE DEF n
  <2>4. Repeat(FxConsumePair, Broken(0))
          = FoldLeft(LAMBDA acc, i : IF acc.failed THEN acc ELSE FxConsumePair(acc), Fresh(Broken(0)),
                     [i \in 1..0 |-> i])
    BY <2>2, <2>3, Zenon
  <2>5. 0 \in Nat /\ DOMAIN [i \in 1..0 |-> i] = 1..0
    OBVIOUS
  <2>6. PICK run : /\ Runs("fxcounted", "any", Fresh(Broken(0)), [i \in 1..0 |-> i], 0, run)
                   /\ FoldLeft(LAMBDA acc, i : IF acc.failed THEN acc ELSE FxConsumePair(acc),
                               Fresh(Broken(0)), [i \in 1..0 |-> i]) = run[0]
    BY <2>5, FxCountedLoop, Zenon
  <2>7. Repeat(FxConsumePair, Broken(0)) = run[0]
    BY <2>4, <2>6, Zenon
  <2>8. run[0] = Fresh(Broken(0))
    BY <2>6 DEF Runs
  <2>9. FxFailed(Fresh(Broken(0)))
    BY FreshBroken, BrokenIsFailed
  <2>10. FxFailed(Repeat(FxConsumePair, Broken(0)))
    BY <2>7, <2>8, <2>9, Zenon
  <2>11. Repeat(FxConsumePair, ConsumeUint32(buf)) = Repeat(FxConsumePair, Broken(0))
    BY <1>1, Zenon
  <2> QED BY <1>1, <2>1, <2>10, <2>11, Zenon DEF Alike
<1>2. CASE \E n \in Uint32, c \in Seq(Bytes) :
             ConsumeUint32(buf) = Got(n, c) /\ UnmarshalUint32Safe(u.rest) = Got(n, c)
  <2>1. PICK n \in Uint32, c \in Seq(Bytes) :
          ConsumeUint32(buf) = Got(n, c) /\ UnmarshalUint32Safe(u.rest) = Got(n, c)
    BY <1>2
  <2>2. Got(n, c).v = n /\ Got(n, c).rest = c /\ Got(n, c).failed = FALSE /\ Fresh(Got(n, c)) = Got(<<>>, c)
    BY GotFields, FreshGot
  <2> DEFINE turns == TurnsFor(Got(n, c).v, Got(n, c).rest)
  <2>3. Repeat(FxConsumePair, Got(n, c))
          = FoldLeft(LAMBDA acc, i : IF acc.failed THEN acc ELSE FxConsumePair(acc), Fresh(Got(n, c)), turns)
    BY Zenon DEF Repeat, TurnsFor
  <2>4. UnmarshalCounted(Got(n, c))
          = FoldLeft(LAMBDA r, i : UnmarshalPair(r), Got(<<>>, Got(n, c).rest), turns)
    BY <2>2, Zenon DEF UnmarshalCounted, TurnsFor
  <2>5. turns = TurnsFor(n, c)
    BY <2>2, Zenon
  <2> HIDE DEF turns
  <2>6. PICK m \in Nat : turns = [i \in 1..m |-> i] /\ DOMAIN turns = 1..m
    BY <2>1, <2>5, TurnsForCount
  <2>7. PICK run : /\ Runs("counted", "any", Got(<<>>, c), turns, m, run)
                   /\ FoldLeft(LAMBDA r, i : UnmarshalPair(r), Got(<<>>, c), turns) = run[m]
    BY <2>6, CountedLoop, Zenon
  <2>8. PICK fxrun : /\ Runs("fxcounted", "any", Got(<<>>, c), turns, m, fxrun)
                     /\ FoldLeft(LAMBDA acc, i : IF acc.failed THEN acc ELSE FxConsumePair(acc),
                                 Got(<<>>, c), turns) = fxrun[m]
    BY <2>6, FxCountedLoop, Zenon
  <2>9. UnmarshalCounted(Got(n, c)) = run[m] /\ Repeat(FxConsumePair, Got(n, c)) = fxrun[m]
    BY <2>2, <2>3, <2>4, <2>7, <2>8, Zenon
  <2>10. Runs("counted", "any", Got(<<>>, c), turns, m, run)
    BY <2>7, Zenon
  <2>11. Runs("fxcounted", "any", Got(<<>>, c), turns, m, fxrun)
    BY <2>8, Zenon
  <2>12. Alike(Got(<<>>, c), Got(<<>>, c))
    BY <2>1 DEF Alike
  <2>13. Alike(fxrun[m], run[m])
    BY <2>6, <2>10, <2>11, <2>12, PairsLockstep, LoopsAlike
  <2>14. /\ Repeat(FxConsumePair, ConsumeUint32(buf)) = Repeat(FxConsumePair, Got(n, c))
         /\ UnmarshalCounted(UnmarshalUint32Safe(u.rest)) = UnmarshalCounted(Got(n, c))
    BY <2>1, Zenon
  <2> QED BY <2>9, <2>13, <2>14, Zenon
<1> QED BY <1>1, <1>2, CountAlike

LEMMA PairsAlike ==
  \A x : \A c \in Seq(Bytes) : Alike(FxUnmarshal("pairs", Got(x, c)), Unmarshal("pairs", c))
<1> TAKE x
<1> TAKE c \in Seq(Bytes)
<1>1. Got(x, c).rest = c /\ Fresh(Got(x, c)) = Got(<<>>, c)
  BY GotFields, FreshGot
<1>2. Len(c) \in Nat /\ DOMAIN [i \in 1..Len(c) |-> i] = 1..Len(c)
  OBVIOUS
<1>3. FxUnmarshal("pairs", Got(x, c))
        = FoldLeft(LAMBDA acc, i : IF acc.rest = <<>> THEN acc ELSE FxConsumePair(acc),
                   Fresh(Got(x, c)), [i \in 1..Len(Got(x, c).rest) |-> i])
  BY Zenon DEF FxUnmarshal
<1>4. PICK fxrun : /\ Runs("fxpairs", "any", Got(<<>>, c), [i \in 1..Len(c) |-> i], Len(c), fxrun)
                   /\ FoldLeft(LAMBDA acc, i : IF acc.rest = <<>> THEN acc ELSE FxConsumePair(acc),
                               Got(<<>>, c), [i \in 1..Len(c) |-> i]) = fxrun[Len(c)]
  BY <1>2, FxPairsLoop, Zenon
<1>5. FxUnmarshal("pairs", Got(x, c)) = fxrun[Len(c)]
  BY <1>1, <1>3, <1>4, Zenon
<1>6. PICK run : /\ Runs("pairs", "any", Got(<<>>, c), [i \in 1..Len(c) |-> i], Len(c), run)
                 /\ UnmarshalPairs(c) = run[Len(c)]
  BY <1>2, PairsRuns
<1>7. Unmarshal("pairs", c) = UnmarshalPairs(c)
  BY DEF Unmarshal, UnmarshalBasic
<1>8. Runs("fxpairs", "any", Got(<<>>, c), [i \in 1..Len(c) |-> i], Len(c), fxrun)
  BY <1>4, Zenon
<1>9. Alike(Got(<<>>, c), Got(<<>>, c))
  BY DEF Alike
<1>10. Alike(fxrun[Len(c)], run[Len(c)])
  BY <1>2, <1>6, <1>8, <1>9, PairsLockstep, LoopsAlike
<1> QED BY <1>5, <1>6, <1>7, <1>10, Zenon

\* Reading from nothing.
LEMMA NothingToRead ==
  /\ UnmarshalUint32Safe(<<>>) = Short /\ UnmarshalUint64Safe(<<>>) = Short
  /\ UnmarshalStringSafe(<<>>) = Short
<1>1. UnmarshalUint32Safe(<<>>) = Short /\ UnmarshalUint64Safe(<<>>) = Short
  BY DEF UnmarshalUint32Safe, UnmarshalUint64Safe, WordLen
<1>2. TakeCounted(Short) = Short
  BY ShortFields DEF TakeCounted
<1> QED BY <1>1, <1>2 DEF UnmarshalStringSafe

LEMMA BasicAlike ==
  ASSUME NEW type \in {"uint32", "uint64", "string", "counted"}, NEW buf, NEW u, Alike(buf, u)
  PROVE  Alike(FxConsumeBasic(type, buf), UnmarshalBasic(type, u.rest))
<1>1. CASE type = "counted"
  <2>1. FxConsumeBasic(type, buf) = Repeat(FxConsumePair, ConsumeUint32(buf))
    BY <1>1, Zenon DEF FxConsumeBasic
  <2>2. UnmarshalBasic(type, u.rest) = UnmarshalCounted(UnmarshalUint32Safe(u.rest))
    BY <1>1 DEF UnmarshalBasic
  <2>3. Alike(Repeat(FxConsumePair, ConsumeUint32(buf)), UnmarshalCounted(UnmarshalUint32Safe(u.rest)))
    BY CountedAlike, Zenon
  <2> QED BY <2>1, <2>2, <2>3, Zenon
<1>2. CASE type # "counted"
  <2>1. /\ type = "uint32" => /\ FxConsumeBasic(type, buf) = ConsumeUint32(buf)
                              /\ UnmarshalBasic(type, u.rest) = UnmarshalUint32Safe(u.rest)
        /\ type = "uint64" => /\ FxConsumeBasic(type, buf) = ConsumeUint64(buf)
                              /\ UnmarshalBasic(type, u.rest) = UnmarshalUint64Safe(u.rest)
        /\ type = "string" => /\ FxConsumeBasic(type, buf) = ConsumeByteSlice(buf)
                              /\ UnmarshalBasic(type, u.rest) = UnmarshalStringSafe(u.rest)
    <3>1. type = "uint32" => /\ FxConsumeBasic(type, buf) = ConsumeUint32(buf)
                             /\ UnmarshalBasic(type, u.rest) = UnmarshalUint32Safe(u.rest)
      BY DEF FxConsumeBasic, UnmarshalBasic
    <3>2. type = "uint64" => /\ FxConsumeBasic(type, buf) = ConsumeUint64(buf)
                             /\ UnmarshalBasic(type, u.rest) = UnmarshalUint64Safe(u.rest)
      BY DEF FxConsumeBasic, UnmarshalBasic
    <3>3. type = "string" => /\ FxConsumeBasic(type, buf) = ConsumeByteSlice(buf)
                             /\ UnmarshalBasic(type, u.rest) = UnmarshalStringSafe(u.rest)
      BY DEF FxConsumeBasic, UnmarshalBasic
    <3> QED BY <3>1, <3>2, <3>3
  <2>2. CASE FxFailed(buf) /\ u = Short
    <3>1. /\ FxFailed(ConsumeUint32(buf)) /\ FxFailed(ConsumeUint64(buf)) /\ FxFailed(ConsumeByteSlice(buf))
      BY <2>2, NumbersBroken, BrokenIsFailed
    <3>2. u.rest = <<>>
      BY <2>2, ShortFields
    <3> QED BY <1>2, <2>1, <3>1, <3>2, NothingToRead DEF Alike
  <2>3. CASE ~ (FxFailed(buf) /\ u = Short)
    <3>1. PICK v : \E rest \in Seq(Bytes) : buf = Got(v, rest) /\ u = Got(v, rest)
      BY <2>3 DEF Alike
    <3>2. PICK rest \in Seq(Bytes) : buf = Got(v, rest) /\ u = Got(v, rest)
      BY <3>1
    <3>3. u.rest = rest
      BY <3>2, GotFields
    <3>4. /\ Alike(ConsumeUint32(Got(v, rest)), UnmarshalUint32Safe(rest))
          /\ Alike(ConsumeUint64(Got(v, rest)), UnmarshalUint64Safe(rest))
          /\ Alike(ConsumeByteSlice(Got(v, rest)), UnmarshalStringSafe(rest))
      BY <3>2, Uint32Alike, Uint64Alike, StringAlike
    <3> QED BY <1>2, <2>1, <3>2, <3>3, <3>4
  <2> QED BY <2>2, <2>3
<1> QED BY <1>1, <1>2

-----------------------------------------------------------------------------
(* Attributes, with both decoders.                                         *)

\* The attributes read so far, with the flags they began with.
FlagsAlike(acc, r, flags) ==
  \/ FxFailed(acc) /\ r = Short
  \/ \E v : \E rest \in Seq(Bytes) :
       /\ acc = Got(v, rest) /\ r = Got(v, rest)
       /\ "flags" \in DOMAIN v /\ v.flags = flags

BasicFields == {f \in AttrNames : TypeOf[f] \in {"uint32", "uint64", "string", "counted"}}

LEMMA AttrsAreBasic == AttrNames \subseteq BasicFields
BY AttrTypes DEF AttrNames, BasicFields

LEMMA FlagsStay ==
  ASSUME NEW v, NEW f, NEW w, "flags" \in DOMAIN v, f # "flags"
  PROVE  "flags" \in DOMAIN [v EXCEPT ![f] = w] /\ [v EXCEPT ![f] = w].flags = v.flags
OBVIOUS

LEMMA AttrStepAlike ==
  \A acc, r, flags, bit : \A f \in AttrNames :
    FlagsAlike(acc, r, flags) => FlagsAlike(FxConsumeField(acc, bit, f), AttrStep(flags, bit, f, r), flags)
<1> TAKE acc, r, flags, bit
<1> TAKE f \in AttrNames
<1> HAVE FlagsAlike(acc, r, flags)
<1> DEFINE x == FxConsumeBasic(TypeOf[f], acc)
<1> DEFINE u == UnmarshalBasic(TypeOf[f], r.rest)
<1>1. f # "flags" /\ TypeOf[f] \in {"uint32", "uint64", "string", "counted"}
  BY AttrsAreBasic DEF AttrNames, BasicFields
<1>2. Alike(acc, r)
  BY DEF FlagsAlike, Alike
<1>3. Alike(x, u)
  BY <1>1, <1>2, BasicAlike
<1>4. AttrTurn(r, f) = SetField(r, f, u)
  BY DEF AttrTurn
<1>5. FxConsumeField(acc, bit, f) = IF ~ HasFlag(acc.v.flags, bit) THEN acc ELSE PutField(acc.v, f, x)
  BY DEF FxConsumeField
<1>6. AttrStep(flags, bit, f, r) = IF HasFlag(flags, bit) THEN SetField(r, f, u) ELSE r
  BY <1>4 DEF AttrStep
<1> HIDE DEF x, u
<1>7. CASE FxFailed(acc) /\ r = Short
  <2>1. FxFailed(x)
    <3>1. r.rest = <<>> /\ \A a, b : Got(a, b) # Short
      BY <1>7, ShortFields, GotFields
    <3>2. u = Short \/ \E a, b : u = Got(a, b) /\ x = Got(a, b)
      BY <1>3 DEF Alike
    <3>3. u = Short
      <4>1. CASE TypeOf[f] = "counted"
        <5>1. u = UnmarshalCounted(Short)
          BY <3>1, <4>1, NothingToRead DEF u, UnmarshalBasic
        <5> QED BY <5>1, ShortFields DEF UnmarshalCounted
      <4>2. CASE TypeOf[f] # "counted"
        BY <1>1, <3>1, <4>2, NothingToRead DEF u, UnmarshalBasic
      <4> QED BY <4>1, <4>2
    <3> QED BY <1>3, <3>1, <3>3 DEF Alike
  <2>2. \A w : FxFailed([x EXCEPT !.v = w])
    BY <2>1, BrokenFields
  <2>3. FxFailed(PutField(acc.v, f, x))
    BY <2>2, Zenon DEF PutField
  <2>4. FxFailed(FxConsumeField(acc, bit, f))
    BY <1>5, <1>7, <2>3
  <2>5. SetField(r, f, u) = Short
    BY <1>7, ShortFields DEF SetField
  <2>6. AttrStep(flags, bit, f, r) = Short
    BY <1>6, <1>7, <2>5
  <2> QED BY <2>4, <2>6 DEF FlagsAlike
<1>8. CASE ~ (FxFailed(acc) /\ r = Short)
  <2>1. PICK v : \E rest \in Seq(Bytes) :
          acc = Got(v, rest) /\ r = Got(v, rest) /\ "flags" \in DOMAIN v /\ v.flags = flags
    BY <1>8 DEF FlagsAlike
  <2>2. PICK rest \in Seq(Bytes) :
          acc = Got(v, rest) /\ r = Got(v, rest) /\ "flags" \in DOMAIN v /\ v.flags = flags
    BY <2>1
  <2>3. acc.v = v /\ r.v = v /\ r.failed = FALSE
    BY <2>2, GotFields
  <2>4. CASE ~ HasFlag(flags, bit)
    <3>1. FxConsumeField(acc, bit, f) = acc /\ AttrStep(flags, bit, f, r) = r
      BY <1>5, <1>6, <2>2, <2>3, <2>4
    <3> QED BY <3>1
  <2>5. CASE HasFlag(flags, bit)
    <3>1. FxConsumeField(acc, bit, f) = PutField(v, f, x) /\ AttrStep(flags, bit, f, r) = SetField(r, f, u)
      BY <1>5, <1>6, <2>2, <2>3, <2>5
    <3>2. CASE FxFailed(x) /\ u = Short
      <4>1. \A w : FxFailed([x EXCEPT !.v = w])
        BY <3>2, BrokenFields
      <4>2. FxFailed(PutField(v, f, x))
        BY <4>1, Zenon DEF PutField
      <4>3. SetField(r, f, u) = Short
        BY <3>2, ShortFields DEF SetField
      <4> QED BY <3>1, <4>2, <4>3 DEF FlagsAlike
    <3>3. CASE ~ (FxFailed(x) /\ u = Short)
      <4>1. PICK a : \E b \in Seq(Bytes) : x = Got(a, b) /\ u = Got(a, b)
        BY <1>3, <3>3 DEF Alike
      <4>2. PICK b \in Seq(Bytes) : x = Got(a, b) /\ u = Got(a, b)
        BY <4>1
      <4>3. x.v = a /\ u.v = a /\ u.rest = b /\ u.failed = FALSE
        BY <4>2, GotFields
      <4> DEFINE w == [v EXCEPT ![f] = a]
      <4>4. SetField(r, f, u) = Got(w, b)
        BY <2>3, <4>3 DEF SetField
      <4>5. "flags" \in DOMAIN w /\ w.flags = flags
        BY <1>1, <2>2, FlagsStay
      <4>6. PutField(v, f, x) = [x EXCEPT !.v = [v EXCEPT ![f] = a]]
        BY <4>3, Zenon DEF PutField
      <4>8. PutField(v, f, x) = [x EXCEPT !.v = w]
        BY <4>6, Zenon DEF w
      <4> HIDE DEF w
      <4>7. [Got(a, b) EXCEPT !.v = w] = Got(w, b)
        BY GotValue, Zenon
      <4>9. PutField(v, f, x) = Got(w, b)
        BY <4>2, <4>7, <4>8, Zenon
      <4>10. b \in Seq(Bytes)
        BY <4>2
      <4> QED BY <3>1, <4>4, <4>5, <4>9, <4>10 DEF FlagsAlike
    <3> QED BY <3>2, <3>3
  <2> QED BY <2>4, <2>5
<1> QED BY <1>7, <1>8

\* The seven turns of the loop of FxUnmarshalByFlags.
FxFieldList == <<<<AttrSize, "size">>, <<AttrUIDGID, "uid">>, <<AttrUIDGID, "gid">>,
                 <<AttrPermissions, "mode">>, <<AttrACmodTime, "atime">>,
                 <<AttrACmodTime, "mtime">>, <<AttrExtended, "extended">>>>

LEMMA FxListed ==
  /\ Len(FxFieldList) = 7 /\ DOMAIN FxFieldList = 1..7
  /\ FxFieldList[1] = <<AttrSize, "size">> /\ FxFieldList[2] = <<AttrUIDGID, "uid">>
  /\ FxFieldList[3] = <<AttrUIDGID, "gid">> /\ FxFieldList[4] = <<AttrPermissions, "mode">>
  /\ FxFieldList[5] = <<AttrACmodTime, "atime">> /\ FxFieldList[6] = <<AttrACmodTime, "mtime">>
  /\ FxFieldList[7] = <<AttrExtended, "extended">>
BY DEF FxFieldList

LEMMA FxUnrolled ==
  ASSUME NEW acc
  PROVE  LET a1 == FxConsumeField(acc, AttrSize, "size")
             a2 == FxConsumeField(a1, AttrUIDGID, "uid")
             a3 == FxConsumeField(a2, AttrUIDGID, "gid")
             a4 == FxConsumeField(a3, AttrPermissions, "mode")
             a5 == FxConsumeField(a4, AttrACmodTime, "atime")
             a6 == FxConsumeField(a5, AttrACmodTime, "mtime") IN
           FoldLeft(LAMBDA x, f : FxConsumeField(x, f[1], f[2]), acc, FxFieldList)
             = FxConsumeField(a6, AttrExtended, "extended")
<1>0. PICK n \in Nat : n = 7
  OBVIOUS
<1>1. n \in Nat /\ DOMAIN FxFieldList = 1..n
  BY <1>0, FxListed
<1>2. PICK run : /\ Runs("fxattrs", "any", acc, FxFieldList, n, run)
                 /\ FoldLeft(LAMBDA x, f : FxConsumeField(x, f[1], f[2]), acc, FxFieldList) = run[n]
  BY <1>1, FxAttrsLoop, Zenon
<1>3. Runs("fxattrs", "any", acc, FxFieldList, n, run)
  BY <1>2, Zenon
<1>4. run[0] = acc /\ \A k \in 0..6 : run[k + 1] = FxConsumeField(run[k], FxFieldList[k + 1][1], FxFieldList[k + 1][2])
  <2>1. run[0] = acc /\ \A k \in 0..(7 - 1) : run[k + 1] = Turn("fxattrs", "any", run[k], FxFieldList[k + 1])
    BY <1>0, <1>3 DEF Runs
  <2>2. \A r, f : Turn("fxattrs", "any", r, f) = FxConsumeField(r, f[1], f[2])
    BY DEF Turn
  <2> QED BY <2>1, <2>2
<1>5. /\ run[1] = FxConsumeField(acc, AttrSize, "size")
      /\ run[2] = FxConsumeField(run[1], AttrUIDGID, "uid")
      /\ run[3] = FxConsumeField(run[2], AttrUIDGID, "gid")
      /\ run[4] = FxConsumeField(run[3], AttrPermissions, "mode")
      /\ run[5] = FxConsumeField(run[4], AttrACmodTime, "atime")
      /\ run[6] = FxConsumeField(run[5], AttrACmodTime, "mtime")
      /\ run[7] = FxConsumeField(run[6], AttrExtended, "extended")
  <2>1. /\ run[0 + 1] = FxConsumeField(run[0], FxFieldList[0 + 1][1], FxFieldList[0 + 1][2])
        /\ run[1 + 1] = FxConsumeField(run[1], FxFieldList[1 + 1][1], FxFieldList[1 + 1][2])
        /\ run[2 + 1] = FxConsumeField(run[2], FxFieldList[2 + 1][1], FxFieldList[2 + 1][2])
        /\ run[3 + 1] = FxConsumeField(run[3], FxFieldList[3 + 1][1], FxFieldList[3 + 1][2])
        /\ run[4 + 1] = FxConsumeField(run[4], FxFieldList[4 + 1][1], FxFieldList[4 + 1][2])
        /\ run[5 + 1] = FxConsumeField(run[5], FxFieldList[5 + 1][1], FxFieldList[5 + 1][2])
        /\ run[6 + 1] = FxConsumeField(run[6], FxFieldList[6 + 1][1], FxFieldList[6 + 1][2])
    BY <1>4
  <2> QED BY <1>4, <2>1, FxListed
<1>6. FoldLeft(LAMBDA x, f : FxConsumeField(x, f[1], f[2]), acc, FxFieldList) = run[7]
  BY <1>0, <1>2, Zenon
<1> HIDE DEF FxFieldList
<1> QED BY <1>5, <1>6, Zenon

LEMMA ByFlagsAlike ==
  \A buf, u : Alike(buf, u) => Alike(FxUnmarshalByFlags(ConsumeUint32(buf)), UnmarshalAttrs(u.rest))
<1> TAKE buf, u
<1> HAVE Alike(buf, u)
<1> DEFINE count == ConsumeUint32(buf)
<1> DEFINE flags == count.v
<1> DEFINE acc == [count EXCEPT !.v = [NoAttrs EXCEPT !.flags = count.v]]
<1>1. FxUnmarshalByFlags(count) = FoldLeft(LAMBDA x, f : FxConsumeField(x, f[1], f[2]), acc, FxFieldList)
  BY Zenon DEF FxUnmarshalByFlags, FxFieldList
<1> DEFINE a1 == FxConsumeField(acc, AttrSize, "size")
<1> DEFINE a2 == FxConsumeField(a1, AttrUIDGID, "uid")
<1> DEFINE a3 == FxConsumeField(a2, AttrUIDGID, "gid")
<1> DEFINE a4 == FxConsumeField(a3, AttrPermissions, "mode")
<1> DEFINE a5 == FxConsumeField(a4, AttrACmodTime, "atime")
<1> DEFINE a6 == FxConsumeField(a5, AttrACmodTime, "mtime")
<1> DEFINE a7 == FxConsumeField(a6, AttrExtended, "extended")
<1> HIDE DEF acc
<1>2. FxUnmarshalByFlags(count) = a7
  <2>1. FoldLeft(LAMBDA x, f : FxConsumeField(x, f[1], f[2]), acc, FxFieldList) = a7
    BY FxUnrolled, Zenon
  <2> QED BY <1>1, <2>1, Zenon
<1> DEFINE r0 == IF UnmarshalUint32Safe(u.rest).failed THEN Short
                 ELSE Got([NoAttrs EXCEPT !.flags = flags], UnmarshalUint32Safe(u.rest).rest)
<1>3. FlagsAlike(acc, r0, flags)
  <2>1. CASE count = Broken(0) /\ UnmarshalUint32Safe(u.rest) = Short
    <3>1. FxFailed(count)
      BY <2>1, BrokenIsFailed
    <3>2. \A v : FxFailed([count EXCEPT !.v = v])
      BY <3>1, BrokenFields
    <3>3. FxFailed(acc)
      BY <3>2, Zenon DEF acc
    <3> QED BY <2>1, <3>3, ShortFields DEF FlagsAlike
  <2>2. CASE \E n \in Uint32, c \in Seq(Bytes) :
               count = Got(n, c) /\ UnmarshalUint32Safe(u.rest) = Got(n, c)
    <3>1. PICK n \in Uint32, c \in Seq(Bytes) : count = Got(n, c) /\ UnmarshalUint32Safe(u.rest) = Got(n, c)
      BY <2>2
    <3> DEFINE w == [NoAttrs EXCEPT !.flags = count.v]
    <3>2. "flags" \in DOMAIN w /\ w.flags = count.v
      BY DEF NoAttrs
    <3>3. acc = [count EXCEPT !.v = w]
      BY Zenon DEF acc
    <3>4. r0 = Got(w, c)
      BY <3>1, GotFields
    <3> HIDE DEF w, count
    <3>5. [Got(n, c) EXCEPT !.v = w] = Got(w, c)
      BY GotValue, Zenon
    <3>6. acc = Got(w, c)
      BY <3>1, <3>3, <3>5, Zenon
    <3> HIDE DEF r0
    <3> QED BY <3>1, <3>2, <3>4, <3>6 DEF FlagsAlike
  <2> QED BY <2>1, <2>2, CountAlike
<1> DEFINE r1 == AttrStep(flags, AttrSize, "size", r0)
<1> DEFINE r2 == AttrStep(flags, AttrUIDGID, "uid", r1)
<1> DEFINE r3 == AttrStep(flags, AttrUIDGID, "gid", r2)
<1> DEFINE r4 == AttrStep(flags, AttrPermissions, "mode", r3)
<1> DEFINE r5 == AttrStep(flags, AttrACmodTime, "atime", r4)
<1> DEFINE r6 == AttrStep(flags, AttrACmodTime, "mtime", r5)
<1> DEFINE r7 == AttrStep(flags, AttrExtended, "extended", r6)
<1> HIDE DEF flags, r0
<1>4. AttrsAfter(r0, FileStatFields(flags)) = r7
  BY AttrsUnrolled
<1>5. UnmarshalAttrs(u.rest) = r7
  <2>1. CASE count = Broken(0) /\ UnmarshalUint32Safe(u.rest) = Short
    <3>1. r0 = Short /\ UnmarshalAttrs(u.rest) = Short
      BY <2>1, ShortFields DEF r0, UnmarshalAttrs, UnmarshalFileStat
    <3>2. \A bit, f : AttrStep(flags, bit, f, Short) = Short
      <4>1. \A f, w : SetField(Short, f, w) = Short
        BY ShortFields DEF SetField
      <4>2. \A f : AttrTurn(Short, f) = Short
        BY <4>1, Zenon DEF AttrTurn
      <4> QED BY <4>2 DEF AttrStep
    <3> QED BY <3>1, <3>2
  <2>2. CASE \E n \in Uint32, c \in Seq(Bytes) :
               count = Got(n, c) /\ UnmarshalUint32Safe(u.rest) = Got(n, c)
    <3>1. PICK n \in Uint32, c \in Seq(Bytes) : count = Got(n, c) /\ UnmarshalUint32Safe(u.rest) = Got(n, c)
      BY <2>2
    <3>2. flags = n /\ Got(n, c).v = n /\ Got(n, c).rest = c /\ Got(n, c).failed = FALSE
      BY <3>1, GotFields DEF flags
    <3>3. UnmarshalFileStat(Got(n, c)) = AttrsAfter(Got([NoAttrs EXCEPT !.flags = n], c), FileStatFields(n))
      <4>1. UnmarshalFileStat(Got(n, c))
              = AttrsAfter(Got([NoAttrs EXCEPT !.flags = Got(n, c).v], Got(n, c).rest), FileStatFields(Got(n, c).v))
        BY <3>2, Zenon DEF UnmarshalFileStat, AttrsAfter
      <4> QED BY <3>2, <4>1, Zenon
    <3>4. r0 = Got([NoAttrs EXCEPT !.flags = n], c)
      BY <3>1, <3>2 DEF r0
    <3>5. UnmarshalAttrs(u.rest) = AttrsAfter(r0, FileStatFields(flags))
      <4>1. UnmarshalAttrs(u.rest) = UnmarshalFileStat(Got(n, c))
        BY <3>1, Zenon DEF UnmarshalAttrs
      <4> QED BY <3>2, <3>3, <3>4, <4>1, Zenon
    <3> QED BY <1>4, <3>5
  <2> QED BY <2>1, <2>2, CountAlike
<1> HIDE DEF count
<1>6. FlagsAlike(a7, r7, flags)
  <2>0. \A x, r, bit : \A f \in AttrNames :
          FlagsAlike(x, r, flags) => FlagsAlike(FxConsumeField(x, bit, f), AttrStep(flags, bit, f, r), flags)
    BY AttrStepAlike
  <2>1. /\ "size" \in AttrNames /\ "uid" \in AttrNames /\ "gid" \in AttrNames /\ "mode" \in AttrNames
        /\ "atime" \in AttrNames /\ "mtime" \in AttrNames /\ "extended" \in AttrNames
    BY DEF AttrNames
  <2>2. FlagsAlike(a1, r1, flags)
    BY <1>3, <2>0, <2>1
  <2> HIDE DEF a1, r1
  <2>3. FlagsAlike(a2, r2, flags)
    BY <2>2, <2>0, <2>1
  <2> HIDE DEF a2, r2
  <2>4. FlagsAlike(a3, r3, flags)
    BY <2>3, <2>0, <2>1
  <2> HIDE DEF a3, r3
  <2>5. FlagsAlike(a4, r4, flags)
    BY <2>4, <2>0, <2>1
  <2> HIDE DEF a4, r4
  <2>6. FlagsAlike(a5, r5, flags)
    BY <2>5, <2>0, <2>1
  <2> HIDE DEF a5, r5
  <2>7. FlagsAlike(a6, r6, flags)
    BY <2>6, <2>0, <2>1
  <2> HIDE DEF a6, r6
  <2> QED BY <2>7, <2>0, <2>1
<1> HIDE DEF a7, r7
<1>7. Alike(a7, r7)
  BY <1>6 DEF FlagsAlike, Alike
<1> QED BY <1>2, <1>5, <1>7 DEF count

LEMMA JoinAttrsAlike ==
  \A buf, u : Alike(buf, u) => Alike(JoinAttrs(buf), AndAttrs(u))
<1> TAKE buf, u
<1> HAVE Alike(buf, u)
<1> DEFINE x == FxUnmarshalByFlags(ConsumeUint32(buf))
<1> DEFINE w == UnmarshalAttrs(u.rest)
<1>1. Alike(x, w)
  BY ByFlagsAlike
<1>2. JoinAttrs(buf) = Joined(buf.v, x) /\ AndAttrs(u) = AndThen(u, w)
  BY DEF JoinAttrs, AndAttrs
<1>3. CASE FxFailed(buf) /\ u = Short
  <2>1. UnmarshalAttrs(<<>>) = Short
    BY NothingToRead, ShortFields DEF UnmarshalAttrs, UnmarshalFileStat
  <2>2. w = Short
    BY <1>3, <2>1, ShortFields
  <2>3. \A a, b : Got(a, b) # Short
    BY GotFields, ShortFields
  <2> HIDE DEF x, w
  <2>4. FxFailed(x)
    BY <1>1, <2>2, <2>3 DEF Alike
  <2>5. FxFailed(JoinAttrs(buf))
    BY <1>2, <2>4, JoinedBroken
  <2>6. AndAttrs(u) = Short
    BY <1>2, <1>3, NothingAfterShort
  <2> QED BY <2>5, <2>6 DEF Alike
<1>4. CASE ~ (FxFailed(buf) /\ u = Short)
  <2>1. PICK v : \E rest \in Seq(Bytes) : buf = Got(v, rest) /\ u = Got(v, rest)
    BY <1>4 DEF Alike
  <2>2. PICK rest \in Seq(Bytes) : buf = Got(v, rest) /\ u = Got(v, rest)
    BY <2>1
  <2>3. buf.v = v
    BY <2>2, GotFields
  <2> HIDE DEF x, w
  <2>4. Alike(Joined(v, x), AndThen(Got(v, rest), w))
    BY <1>1, JoinedAlike
  <2> QED BY <1>2, <2>2, <2>3, <2>4
<1> QED BY <1>3, <1>4

FxEntry(v) == [filename |-> v[1], longname |-> v[2], attrs |-> v[3]]

LEMMA JoinEntryAlike ==
  \A vs, c, e, w : Alike(e, w) => Alike(JoinEntry(vs, e), AndEntry(Got(vs, c), w))
<1> TAKE vs, c, e, w
<1> HAVE Alike(e, w)
<1>1. CASE FxFailed(e) /\ w = Short
  <2>1. \A v : FxFailed([e EXCEPT !.v = v])
    BY <1>1, BrokenFields
  <2>2. FxFailed(JoinEntry(vs, e))
    BY <2>1, Zenon DEF JoinEntry
  <2>3. AndEntry(Got(vs, c), w) = Short
    BY <1>1, ShortFields DEF AndEntry
  <2> QED BY <2>2, <2>3 DEF Alike
<1>2. CASE ~ (FxFailed(e) /\ w = Short)
  <2>1. PICK v : \E rest \in Seq(Bytes) : e = Got(v, rest) /\ w = Got(v, rest)
    BY <1>2 DEF Alike
  <2>2. PICK rest \in Seq(Bytes) : e = Got(v, rest) /\ w = Got(v, rest)
    BY <2>1
  <2> DEFINE vs1 == Append(vs, FxEntry(v))
  <2>3. AndEntry(Got(vs, c), w) = Got(vs1, rest)
    BY <2>2, GotFields DEF AndEntry, FxEntry
  <2>4. e.v = v
    BY <2>2, GotFields
  <2>5. JoinEntry(vs, e) = [e EXCEPT !.v = Append(vs, FxEntry(e.v))]
    BY Zenon DEF JoinEntry, FxEntry
  <2>6. JoinEntry(vs, e) = [Got(v, rest) EXCEPT !.v = vs1]
    BY <2>2, <2>4, <2>5, Zenon DEF vs1
  <2> HIDE DEF vs1
  <2>7. [Got(v, rest) EXCEPT !.v = vs1] = Got(vs1, rest)
    BY GotValue, Zenon
  <2>8. JoinEntry(vs, e) = Got(vs1, rest)
    BY <2>6, <2>7, Zenon
  <2> QED BY <2>2, <2>3, <2>8 DEF Alike
<1> QED BY <1>1, <1>2

LEMMA JoinAttrsBroken ==
  \A buf : FxFailed(buf) => FxFailed(JoinAttrs(buf))
<1> TAKE buf
<1> HAVE FxFailed(buf)
<1>1. Alike(buf, Short)
  BY DEF Alike
<1>2. Alike(JoinAttrs(buf), AndAttrs(Short))
  BY <1>1, JoinAttrsAlike
<1>3. AndAttrs(Short) = Short
  BY NothingAfterShort DEF AndAttrs
<1>4. \A a, b : Got(a, b) # Short
  BY GotFields, ShortFields
<1> QED BY <1>2, <1>3, <1>4 DEF Alike

LEMMA ConsumeEntryAlike ==
  \A buf, u : Alike(buf, u) => Alike(FxConsumeEntry(buf), UnmarshalEntry(u))
<1> TAKE buf, u
<1> HAVE Alike(buf, u)
<1> DEFINE three == JoinAttrs(JoinString(JoinString(Fresh(buf))))
<1>1. FxConsumeEntry(buf) = JoinEntry(buf.v, three)
  BY DEF FxConsumeEntry
<1>2. CASE FxFailed(buf) /\ u = Short
  <2>1. FxFailed(three)
    BY <1>2, FreshBroken, JoinStringBroken, JoinAttrsBroken
  <2> HIDE DEF three
  <2>2. \A v : FxFailed([three EXCEPT !.v = v])
    BY <2>1, BrokenFields
  <2>3. FxFailed(JoinEntry(buf.v, three))
    BY <2>2, Zenon DEF JoinEntry
  <2>4. UnmarshalEntry(u) = Short
    BY <1>2, ShortFields DEF UnmarshalEntry, AndEntry
  <2> QED BY <1>1, <2>3, <2>4 DEF Alike
<1>3. CASE ~ (FxFailed(buf) /\ u = Short)
  <2>1. PICK v : \E rest \in Seq(Bytes) : buf = Got(v, rest) /\ u = Got(v, rest)
    BY <1>3 DEF Alike
  <2>2. PICK rest \in Seq(Bytes) : buf = Got(v, rest) /\ u = Got(v, rest)
    BY <2>1
  <2>3. Alike(Fresh(buf), Got(<<>>, rest))
    BY <2>2, FreshGot DEF Alike
  <2> DEFINE w == AndAttrs(AndString(AndString(Got(<<>>, rest))))
  <2>4. Alike(three, w)
    BY <2>3, JoinStringAlike, JoinAttrsAlike
  <2>5. UnmarshalEntry(u) = AndEntry(Got(v, rest), w)
    BY <2>2, GotFields DEF UnmarshalEntry
  <2>6. buf.v = v
    BY <2>2, GotFields
  <2> HIDE DEF three, w
  <2>7. Alike(JoinEntry(v, three), AndEntry(Got(v, rest), w))
    BY <2>4, JoinEntryAlike
  <2> QED BY <1>1, <2>5, <2>6, <2>7
<1> QED BY <1>2, <1>3

LEMMA NamesLockstep == Lockstep("names", "fxnames")
<1> SUFFICES ASSUME NEW buf, NEW u, NEW i, Alike(buf, u)
             PROVE  Alike(Turn("fxnames", "any", buf, i), Turn("names", "any", u, i))
  BY DEF Lockstep
<1>1. /\ Turn("names", "any", u, i) = UnmarshalEntry(u)
      /\ Turn("fxnames", "any", buf, i) = IF buf.failed THEN buf ELSE FxConsumeEntry(buf)
  BY DEF Turn
<1>2. Alike(FxConsumeEntry(buf), UnmarshalEntry(u))
  BY ConsumeEntryAlike
<1>3. CASE FxFailed(buf) /\ u = Short
  <2>1. buf.failed = TRUE
    BY <1>3, BrokenFields
  <2>2. UnmarshalEntry(u) = Short
    BY <1>3, ShortFields DEF UnmarshalEntry, AndEntry
  <2>3. Turn("names", "any", u, i) = Short /\ Turn("fxnames", "any", buf, i) = buf
    BY <1>1, <2>1, <2>2
  <2> QED BY <1>3, <2>3
<1>4. CASE ~ (FxFailed(buf) /\ u = Short)
  <2>1. PICK v : \E rest \in Seq(Bytes) : buf = Got(v, rest) /\ u = Got(v, rest)
    BY <1>4 DEF Alike
  <2>2. buf.failed = FALSE
    BY <2>1, GotFields
  <2> QED BY <1>1, <1>2, <2>2
<1> QED BY <1>3, <1>4

LEMMA NamesAlike ==
  \A buf, u : Alike(buf, u) =>
    Alike(Repeat(FxConsumeEntry, ConsumeUint32(buf)), UnmarshalEntries(UnmarshalUint32Safe(u.rest)))
<1> TAKE buf, u
<1> HAVE Alike(buf, u)
<1>1. CASE ConsumeUint32(buf) = Broken(0) /\ UnmarshalUint32Safe(u.rest) = Short
  <2>1. UnmarshalEntries(Short) = Short
    BY ShortFields DEF UnmarshalEntries
  <2> DEFINE n == IF Broken(0).v > Len(Broken(0).rest) THEN Len(Broken(0).rest) + 1 ELSE Broken(0).v
  <2>2. n = 0
    BY DEF Broken
  <2>3. Repeat(FxConsumeEntry, Broken(0))
          = FoldLeft(LAMBDA acc, i : IF acc.failed THEN acc ELSE FxConsumeEntry(acc), Fresh(Broken(0)),
                     [i \in 1..n |-> i])
    BY Zenon DEF Repeat
  <2> HIDE DEF n
  <2>4. Repeat(FxConsumeEntry, Broken(0))
          = FoldLeft(LAMBDA acc, i : IF acc.failed THEN acc ELSE FxConsumeEntry(acc), Fresh(Broken(0)),
                     [i \in 1..0 |-> i])
    BY <2>2, <2>3, Zenon
  <2>5. 0 \in Nat /\ DOMAIN [i \in 1..0 |-> i] = 1..0
    OBVIOUS
  <2>6. PICK run : /\ Runs("fxnames", "any", Fresh(Broken(0)), [i \in 1..0 |-> i], 0, run)
                   /\ FoldLeft(LAMBDA acc, i : IF acc.failed THEN acc ELSE FxConsumeEntry(acc),
                               Fresh(Broken(0)), [i \in 1..0 |-> i]) = run[0]
    BY <2>5, FxNamesLoop, Zenon
  <2>7. Repeat(FxConsumeEntry, Broken(0)) = run[0]
    BY <2>4, <2>6, Zenon
  <2>8. run[0] = Fresh(Broken(0))
    BY <2>6 DEF Runs
  <2>9. FxFailed(Fresh(Broken(0)))
    BY FreshBroken, BrokenIsFailed
  <2>10. FxFailed(Repeat(FxConsumeEntry, Broken(0)))
    BY <2>7, <2>8, <2>9, Zenon
  <2>11. Repeat(FxConsumeEntry, ConsumeUint32(buf)) = Repeat(FxConsumeEntry, Broken(0))
    BY <1>1, Zenon
  <2> QED BY <1>1, <2>1, <2>10, <2>11, Zenon DEF Alike
<1>2. CASE \E n \in Uint32, c \in Seq(Bytes) :
             ConsumeUint32(buf) = Got(n, c) /\ UnmarshalUint32Safe(u.rest) = Got(n, c)
  <2>1. PICK n \in Uint32, c \in Seq(Bytes) :
          ConsumeUint32(buf) = Got(n, c) /\ UnmarshalUint32Safe(u.rest) = Got(n, c)
    BY <1>2
  <2>2. Got(n, c).v = n /\ Got(n, c).rest = c /\ Got(n, c).failed = FALSE /\ Fresh(Got(n, c)) = Got(<<>>, c)
    BY GotFields, FreshGot
  <2> DEFINE turns == TurnsFor(Got(n, c).v, Got(n, c).rest)
  <2>3. Repeat(FxConsumeEntry, Got(n, c))
          = FoldLeft(LAMBDA acc, i : IF acc.failed THEN acc ELSE FxConsumeEntry(acc), Fresh(Got(n, c)), turns)
    BY Zenon DEF Repeat, TurnsFor
  <2>4. UnmarshalEntries(Got(n, c))
          = FoldLeft(LAMBDA r, i : UnmarshalEntry(r), Got(<<>>, Got(n, c).rest), turns)
    BY <2>2, Zenon DEF UnmarshalEntries, TurnsFor
  <2>5. turns = TurnsFor(n, c)
    BY <2>2, Zenon
  <2> HIDE DEF turns
  <2>6. PICK m \in Nat : turns = [i \in 1..m |-> i] /\ DOMAIN turns = 1..m
    BY <2>1, <2>5, TurnsForCount
  <2>7. PICK run : /\ Runs("names", "any", Got(<<>>, c), turns, m, run)
                   /\ FoldLeft(LAMBDA r, i : UnmarshalEntry(r), Got(<<>>, c), turns) = run[m]
    BY <2>6, NamesLoop, Zenon
  <2>8. PICK fxrun : /\ Runs("fxnames", "any", Got(<<>>, c), turns, m, fxrun)
                     /\ FoldLeft(LAMBDA acc, i : IF acc.failed THEN acc ELSE FxConsumeEntry(acc),
                                 Got(<<>>, c), turns) = fxrun[m]
    BY <2>6, FxNamesLoop, Zenon
  <2>9. UnmarshalEntries(Got(n, c)) = run[m] /\ Repeat(FxConsumeEntry, Got(n, c)) = fxrun[m]
    BY <2>2, <2>3, <2>4, <2>7, <2>8, Zenon
  <2>10. Runs("names", "any", Got(<<>>, c), turns, m, run)
    BY <2>7, Zenon
  <2>11. Runs("fxnames", "any", Got(<<>>, c), turns, m, fxrun)
    BY <2>8, Zenon
  <2>12. Alike(Got(<<>>, c), Got(<<>>, c))
    BY <2>1 DEF Alike
  <2>13. Alike(fxrun[m], run[m])
    BY <2>6, <2>10, <2>11, <2>12, NamesLockstep, LoopsAlike
  <2>14. /\ Repeat(FxConsumeEntry, ConsumeUint32(buf)) = Repeat(FxConsumeEntry, Got(n, c))
         /\ UnmarshalEntries(UnmarshalUint32Safe(u.rest)) = UnmarshalEntries(Got(n, c))
    BY <2>1, Zenon
  <2> QED BY <2>9, <2>13, <2>14, Zenon
<1> QED BY <1>1, <1>2, CountAlike

\* The decoders of the two packages agree on every field: on the same bytes they give the same
\* value and leave the same bytes, or both fail.
THEOREM DecodersAgree ==
  ASSUME NEW type \in FieldTypes, NEW x, NEW c \in Seq(Bytes)
  PROVE  Alike(FxUnmarshal(type, Got(x, c)), Unmarshal(type, c))
<1>0. Alike(Got(x, c), Got(x, c)) /\ Got(x, c).rest = c
  BY GotFields DEF Alike
<1>1. CASE type = "pairs"
  BY <1>1, PairsAlike
<1>2. CASE type = "attrs"
  <2>1. FxUnmarshal(type, Got(x, c)) = FxUnmarshalByFlags(ConsumeUint32(Got(x, c)))
    BY <1>2, Zenon DEF FxUnmarshal
  <2>2. Unmarshal(type, c) = UnmarshalAttrs(c)
    BY <1>2 DEF Unmarshal
  <2>3. Alike(FxUnmarshalByFlags(ConsumeUint32(Got(x, c))), UnmarshalAttrs(Got(x, c).rest))
    BY <1>0, ByFlagsAlike, Zenon
  <2> QED BY <1>0, <2>1, <2>2, <2>3, Zenon
<1>3. CASE type = "names"
  <2>1. FxUnmarshal(type, Got(x, c)) = Repeat(FxConsumeEntry, ConsumeUint32(Got(x, c)))
    BY <1>3, Zenon DEF FxUnmarshal
  <2>2. Unmarshal(type, c) = UnmarshalEntries(UnmarshalUint32Safe(c))
    BY <1>3 DEF Unmarshal
  <2>3. Alike(Repeat(FxConsumeEntry, ConsumeUint32(Got(x, c))),
              UnmarshalEntries(UnmarshalUint32Safe(Got(x, c).rest)))
    BY <1>0, NamesAlike, Zenon
  <2> QED BY <1>0, <2>1, <2>2, <2>3, Zenon
<1>4. CASE type \in {"uint32", "uint64", "string", "counted"}
  <2>0. type # "pairs" /\ type # "attrs" /\ type # "names"
    BY <1>4
  <2>1. FxUnmarshal(type, Got(x, c)) = FxConsumeBasic(type, Got(x, c))
    BY <2>0, Zenon DEF FxUnmarshal
  <2>2. Unmarshal(type, c) = UnmarshalBasic(type, c)
    BY <2>0 DEF Unmarshal
  <2>3. Alike(FxConsumeBasic(type, Got(x, c)), UnmarshalBasic(type, Got(x, c).rest))
    BY <1>0, <1>4, BasicAlike
  <2> QED BY <1>0, <2>1, <2>2, <2>3, Zenon
<1> QED BY <1>1, <1>2, <1>3, <1>4 DEF FieldTypes

-----------------------------------------------------------------------------
(* Packets of the second encoding.                                         *)

\* What is broken stays broken.
LEMMA FieldBroken ==
  ASSUME NEW type \in FieldTypes, NEW buf, FxFailed(buf)
  PROVE  FxFailed(FxUnmarshal(type, buf))
<1>0. Alike(buf, Short) /\ Short.rest = <<>> /\ \A a, b : Got(a, b) # Short
  BY GotFields, ShortFields DEF Alike
<1>1. CASE type = "pairs"
  <2>1. FxUnmarshal(type, buf) = FoldLeft(LAMBDA acc, i : IF acc.rest = <<>> THEN acc ELSE FxConsumePair(acc),
                                          Fresh(buf), [i \in 1..Len(buf.rest) |-> i])
    BY <1>1, Zenon DEF FxUnmarshal
  <2>2. buf.rest = <<>>
    BY BrokenFields
  <2>3. PICK n \in Nat : n = 0 /\ n = Len(buf.rest)
    BY <2>2
  <2>4. DOMAIN [i \in 1..n |-> i] = 1..n
    OBVIOUS
  <2>5. PICK run : /\ Runs("fxpairs", "any", Fresh(buf), [i \in 1..n |-> i], n, run)
                   /\ FoldLeft(LAMBDA acc, i : IF acc.rest = <<>> THEN acc ELSE FxConsumePair(acc),
                               Fresh(buf), [i \in 1..n |-> i]) = run[n]
    BY <2>4, FxPairsLoop, Zenon
  <2>6. FxUnmarshal(type, buf) = run[n]
    BY <2>1, <2>3, <2>5, Zenon
  <2>7. Runs("fxpairs", "any", Fresh(buf), [i \in 1..n |-> i], n, run)
    BY <2>5, Zenon
  <2>8. run[n] = Fresh(buf)
    BY <2>3, <2>7 DEF Runs
  <2> QED BY <2>6, <2>8, FreshBroken
<1>2. CASE type = "attrs"
  <2>1. FxUnmarshal(type, buf) = FxUnmarshalByFlags(ConsumeUint32(buf))
    BY <1>2, Zenon DEF FxUnmarshal
  <2>2. Alike(FxUnmarshalByFlags(ConsumeUint32(buf)), UnmarshalAttrs(Short.rest))
    BY <1>0, ByFlagsAlike, Zenon
  <2>3. UnmarshalAttrs(<<>>) = Short
    BY NothingToRead, ShortFields DEF UnmarshalAttrs, UnmarshalFileStat
  <2>4. Alike(FxUnmarshal(type, buf), Short)
    BY <1>0, <2>1, <2>2, <2>3, Zenon
  <2> QED BY <1>0, <2>4 DEF Alike
<1>3. CASE type = "names"
  <2>1. FxUnmarshal(type, buf) = Repeat(FxConsumeEntry, ConsumeUint32(buf))
    BY <1>3, Zenon DEF FxUnmarshal
  <2>2. Alike(Repeat(FxConsumeEntry, ConsumeUint32(buf)), UnmarshalEntries(UnmarshalUint32Safe(Short.rest)))
    BY <1>0, NamesAlike, Zenon
  <2>3. UnmarshalEntries(UnmarshalUint32Safe(<<>>)) = Short
    BY NothingToRead, ShortFields DEF UnmarshalEntries
  <2>4. Alike(FxUnmarshal(type, buf), Short)
    BY <1>0, <2>1, <2>2, <2>3, Zenon
  <2> QED BY <1>0, <2>4 DEF Alike
<1>4. CASE type \in {"uint32", "uint64", "string", "counted"}
  <2>0. type # "pairs" /\ type # "attrs" /\ type # "names"
    BY <1>4
  <2>1. FxUnmarshal(type, buf) = FxConsumeBasic(type, buf)
    BY <2>0, Zenon DEF FxUnmarshal
  <2>2. Alike(FxConsumeBasic(type, buf), UnmarshalBasic(type, Short.rest))
    BY <1>0, <1>4, BasicAlike
  <2>3. UnmarshalBasic(type, <<>>) = Short
    <3>1. CASE type = "counted"
      <4>1. UnmarshalBasic(type, <<>>) = UnmarshalCounted(Short)
        BY <3>1, NothingToRead DEF UnmarshalBasic
      <4> QED BY <4>1, ShortFields DEF UnmarshalCounted
    <3>2. CASE type # "counted"
      BY <1>4, <3>2, NothingToRead DEF UnmarshalBasic
    <3> QED BY <3>1, <3>2
  <2>4. Alike(FxUnmarshal(type, buf), Short)
    BY <1>0, <2>1, <2>2, <2>3, Zenon
  <2> QED BY <1>0, <2>4 DEF Alike
<1> QED BY <1>1, <1>2, <1>3, <1>4 DEF FieldTypes

Reading(buf, p) == [buf |-> buf, p |-> p]

LEMMA ReadingFields ==
  \A buf, p : Reading(buf, p).buf = buf /\ Reading(buf, p).p = p
BY DEF Reading

LEMMA FxPacketRuns ==
  ASSUME NEW kind, NEW b, FxLayout[kind] \in Seq(DOMAIN TypeOf)
  PROVE  LET layout == FxLayout[kind] IN
           \E run : /\ Runs("fxfields", "any", Reading(Got(<<>>, b), <<>>), layout, Len(layout), run)
                    /\ FxUnmarshalPacket(kind, b)
                         = Unmarshalled(run[Len(layout)], kind = "version" /\ Len(b) <= WordLen)
<1> DEFINE layout == FxLayout[kind]
<1> DEFINE base == [buf |-> Buffer(b), p |-> <<>>]
<1>1. Len(layout) \in Nat /\ DOMAIN layout = 1..Len(layout)
  OBVIOUS
<1>2. base = Reading(Got(<<>>, b), <<>>)
  BY DEF Reading, Buffer, Got
<1>3. FxUnmarshalPacket(kind, b)
        = Unmarshalled(FoldLeft(LAMBDA r, f : FieldOf(r, f, FxUnmarshal(TypeOf[f], r.buf)), base, layout),
                       kind = "version" /\ Len(b) <= WordLen)
  BY Zenon DEF FxUnmarshalPacket
<1> HIDE DEF layout, base
<1>4. PICK run : /\ Runs("fxfields", "any", base, layout, Len(layout), run)
                 /\ FoldLeft(LAMBDA r, f : FieldOf(r, f, FxUnmarshal(TypeOf[f], r.buf)), base, layout)
                      = run[Len(layout)]
  BY <1>1, FxFieldsLoop, Zenon
<1>5. Runs("fxfields", "any", base, layout, Len(layout), run)
  BY <1>4, Zenon
<1>6. FxUnmarshalPacket(kind, b) = Unmarshalled(run[Len(layout)], kind = "version" /\ Len(b) <= WordLen)
  BY <1>3, <1>4, Zenon
<1> QED BY <1>2, <1>5, <1>6, Zenon DEF layout

LEMMA FxFieldTurn ==
  ASSUME NEW buf, NEW p, NEW f
  PROVE  Turn("fxfields", "any", Reading(buf, p), f)
           = Reading(FxUnmarshal(TypeOf[f], buf), WithField(p, f, FxUnmarshal(TypeOf[f], buf).v))
<1>1. Turn("fxfields", "any", Reading(buf, p), f)
        = FieldOf(Reading(buf, p), f, FxUnmarshal(TypeOf[f], Reading(buf, p).buf))
  BY DEF Turn
<1>2. Reading(buf, p).buf = buf /\ Reading(buf, p).p = p
  BY ReadingFields
<1>3. FieldOf(Reading(buf, p), f, FxUnmarshal(TypeOf[f], buf))
        = Reading(FxUnmarshal(TypeOf[f], buf), WithField(p, f, FxUnmarshal(TypeOf[f], buf).v))
  <2> DEFINE u == FxUnmarshal(TypeOf[f], buf)
  <2> HIDE DEF u
  <2>1. FieldOf(Reading(buf, p), f, u) = Reading(u, WithField(p, f, u.v))
    BY <1>2 DEF FieldOf, Reading
  <2> QED BY <2>1 DEF u
<1> QED BY <1>1, <1>2, <1>3

\* The first k fields have been read.
FxSoFar(layout, b, r, k) ==
  \E buf, p :
    /\ r = Reading(buf, p)
    /\ \/ FxFailed(buf)
       \/ \E x, left : buf = Got(x, left) /\ ReadSoFar(layout, b, k, p, left)

LEMMA FxPacketStep ==
  ASSUME NEW layout, GoodLayout(layout), NEW b, NEW r, NEW k \in 0..(Len(layout) - 1), FxSoFar(layout, b, r, k)
  PROVE  FxSoFar(layout, b, Turn("fxfields", "any", r, layout[k + 1]), k + 1)
<1> DEFINE f == layout[k + 1]
<1>1. /\ Distinct(layout) /\ k \in Nat /\ k + 1 \in DOMAIN layout /\ 1..k \subseteq DOMAIN layout
      /\ f \in DOMAIN TypeOf /\ TypeOf[f] \in FieldTypes
  <2>1. layout \in Seq(DOMAIN TypeOf) /\ Distinct(layout)
    BY DEF GoodLayout, ProperLayout
  <2>2. k \in Nat /\ k + 1 \in DOMAIN layout /\ 1..k \subseteq DOMAIN layout
    BY <2>1
  <2>3. f \in DOMAIN TypeOf
    BY <2>1, <2>2
  <2> QED BY <2>1, <2>2, <2>3, FieldTypesAll
<1>2. PICK buf, p : /\ r = Reading(buf, p)
                    /\ \/ FxFailed(buf)
                       \/ \E x, left : buf = Got(x, left) /\ ReadSoFar(layout, b, k, p, left)
  BY DEF FxSoFar
<1> DEFINE u == FxUnmarshal(TypeOf[f], buf)
<1>3. Turn("fxfields", "any", r, f) = Reading(u, WithField(p, f, u.v))
  BY <1>2, FxFieldTurn
<1>4. CASE FxFailed(buf)
  <2>1. FxFailed(u)
    BY <1>1, <1>4, FieldBroken
  <2> HIDE DEF u
  <2> QED BY <1>3, <2>1 DEF FxSoFar
<1>5. CASE ~ FxFailed(buf)
  <2>1. PICK x, left : buf = Got(x, left) /\ ReadSoFar(layout, b, k, p, left)
    BY <1>2, <1>5
  <2>2. left \in Seq(Bytes)
    BY <2>1 DEF ReadSoFar
  <2>3. Alike(u, Unmarshal(TypeOf[f], left))
    BY <1>1, <2>1, <2>2, DecodersAgree
  <2>4. Exactly(Unmarshal(TypeOf[f], left), left, TypeOf[f])
    BY <1>1, <2>2, FieldExact
  <2> HIDE DEF u, f
  <2>5. CASE FxFailed(u)
    BY <1>3, <2>5 DEF FxSoFar, f
  <2>6. CASE ~ FxFailed(u)
    <3>1. PICK w, c : u = Got(w, c) /\ Unmarshal(TypeOf[f], left) = Got(w, c)
      BY <2>3, <2>6 DEF Alike
    <3>2. Unmarshal(TypeOf[f], left) # Short
      BY <3>1, GotFields, ShortFields
    <3>3. PICK v \in Values(TypeOf[f]), rest \in Seq(Bytes) :
            Unmarshal(TypeOf[f], left) = Got(v, rest) /\ left = Marshal(TypeOf[f], v) \o rest
      BY <2>4, <3>2 DEF Exactly
    <3>4. u = Got(v, rest) /\ u.v = v
      BY <3>1, <3>3, GotFields
    <3>5. ReadSoFar(layout, b, k + 1, WithField(p, f, v), rest)
      <4>1. v \in Values(TypeOf[layout[k + 1]]) /\ left = Marshal(TypeOf[layout[k + 1]], v) \o rest
            /\ rest \in Seq(Bytes)
        BY <3>3 DEF f
      <4>2. ReadSoFar(layout, b, k + 1, WithField(p, layout[k + 1], v), rest)
        BY <1>1, <2>1, <4>1, OneFieldMore
      <4> QED BY <4>2 DEF f
    <3> QED BY <1>3, <3>4, <3>5 DEF FxSoFar, f
  <2> QED BY <2>5, <2>6
<1> QED BY <1>4, <1>5

\* Both encoders write the same fields.
LEMMA FieldsSame ==
  ASSUME NEW layout, GoodLayout(layout), NEW p, \A i \in DOMAIN layout : p[layout[i]] \in Values(TypeOf[layout[i]])
  PROVE  FxMarshalFields(layout, p) = MarshalFields(layout, p)
<1>1. layout \in Seq(DOMAIN TypeOf) /\ \A i \in DOMAIN layout : layout[i] # "extended"
  BY DEF GoodLayout, ProperLayout
<1>2. ASSUME NEW i \in DOMAIN layout
      PROVE  FxMarshal(TypeOf[layout[i]], p[layout[i]]) = Marshal(TypeOf[layout[i]], p[layout[i]])
  <2>1. layout[i] \in DOMAIN TypeOf \ {"extended"} /\ p[layout[i]] \in Values(TypeOf[layout[i]])
    BY <1>1
  <2> QED BY <2>1, EncodersAgree
<1>3. [i \in DOMAIN layout |-> FxMarshal(TypeOf[layout[i]], p[layout[i]])]
        = [i \in DOMAIN layout |-> Marshal(TypeOf[layout[i]], p[layout[i]])]
  BY <1>2
<1> QED BY <1>3, Zenon DEF FxMarshalFields, MarshalFields

\* What a packet decoded by sshfx says is what its bytes say, but for a version without them.
THEOREM FxPacketExact ==
  ASSUME NEW kind \in DOMAIN FxLayout, NEW b \in Seq(Bytes)
  PROVE  LET u == FxUnmarshalPacket(kind, b) IN
           \/ u.failed
           \/ kind = "version" /\ Len(b) <= WordLen
           \/ /\ FxMarshalFields(FxLayout[kind], u.v) \in Seq(Bytes)
              /\ \E left \in Seq(Bytes) : b = FxMarshalFields(FxLayout[kind], u.v) \o left
<1> DEFINE layout == FxLayout[kind]
<1> DEFINE n == Len(layout)
<1> DEFINE silent == kind = "version" /\ Len(b) <= WordLen
<1>1. GoodLayout(layout)
  BY GoodTables
<1>2. layout \in Seq(DOMAIN TypeOf) /\ n \in Nat /\ DOMAIN layout = 1..n
  <2>1. layout \in Seq(DOMAIN TypeOf)
    BY <1>1 DEF GoodLayout, ProperLayout
  <2> QED BY <2>1
<1>3. PICK run : /\ Runs("fxfields", "any", Reading(Got(<<>>, b), <<>>), layout, n, run)
                 /\ FxUnmarshalPacket(kind, b) = Unmarshalled(run[n], silent)
  BY <1>2, FxPacketRuns
<1> HIDE DEF layout
<1> DEFINE S == {k \in Nat : k <= n => FxSoFar(layout, b, run[k], k)}
<1>4. 0 \in S
  <2>1. ReadSoFar(layout, b, 0, <<>>, b)
    <3>1. [i \in 1..0 |-> Marshal(TypeOf[layout[i]], <<>>[layout[i]])] = <<>>
      OBVIOUS
    <3>2. FlattenSeq(<<>>) = <<>>
      BY FlattenFew
    <3>3. FirstBytes(layout, 0, <<>>) = <<>>
      BY <3>1, <3>2 DEF FirstBytes
    <3>4. b = FirstBytes(layout, 0, <<>>) \o b
      BY <3>3
    <3> QED BY <3>4 DEF ReadSoFar
  <2>2. FxSoFar(layout, b, Reading(Got(<<>>, b), <<>>), 0)
    BY <2>1 DEF FxSoFar
  <2> QED BY <1>3, <2>2 DEF Runs
<1>5. ASSUME NEW k \in Nat, k \in S PROVE k + 1 \in S
  <2> SUFFICES ASSUME k + 1 <= n PROVE FxSoFar(layout, b, run[k + 1], k + 1)
    OBVIOUS
  <2>1. k \in 0..(n - 1) /\ k <= n
    BY <1>2
  <2>2. run[k + 1] = Turn("fxfields", "any", run[k], layout[k + 1])
    BY <1>3, <2>1 DEF Runs
  <2>3. FxSoFar(layout, b, run[k], k)
    BY <1>5, <2>1
  <2>4. FxSoFar(layout, b, Turn("fxfields", "any", run[k], layout[k + 1]), k + 1)
    BY <1>1, <2>1, <2>3, FxPacketStep
  <2> QED BY <2>2, <2>4
<1>6. n \in S
  <2> HIDE DEF S, n
  <2> QED BY <1>2, <1>4, <1>5, SetInduction
<1>7. FxSoFar(layout, b, run[n], n)
  BY <1>2, <1>6
<1>8. PICK buf, p : /\ run[n] = Reading(buf, p)
                    /\ \/ FxFailed(buf)
                       \/ \E x, left : buf = Got(x, left) /\ ReadSoFar(layout, b, n, p, left)
  BY <1>7 DEF FxSoFar
<1> DEFINE u == Unmarshalled(Reading(buf, p), silent)
<1>9. u.v = p /\ u.failed = (buf.failed /\ ~ silent)
  BY ReadingFields DEF Unmarshalled
<1>10. CASE FxFailed(buf)
  <2>1. buf.failed = TRUE
    BY <1>10, BrokenFields
  <2> QED BY <1>3, <1>8, <1>9, <2>1
<1>11. CASE ~ FxFailed(buf)
  <2>1. PICK x, left : buf = Got(x, left) /\ ReadSoFar(layout, b, n, p, left)
    BY <1>8, <1>11
  <2>2. \A i \in 1..n : p[layout[i]] \in Values(TypeOf[layout[i]])
    BY <2>1 DEF ReadSoFar
  <2>3. FirstBytes(layout, n, p) = MarshalFields(layout, p)
    <3> HIDE DEF n
    <3> QED BY <1>2, Zenon DEF FirstBytes, MarshalFields
  <2>4. FirstBytes(layout, n, p) \in Seq(Bytes)
    <3> HIDE DEF n
    <3>1. /\ FirstBytes(layout, n, p) = FlattenSeq([i \in 1..n |-> Marshal(TypeOf[layout[i]], p[layout[i]])])
          /\ FlattenSeq([i \in 1..n |-> Marshal(TypeOf[layout[i]], p[layout[i]])]) \in Seq(Bytes)
      BY <1>2, <2>2, FirstAreBytes
    <3> QED BY <3>1
  <2>5. FxMarshalFields(layout, p) = MarshalFields(layout, p)
    BY <1>1, <1>2, <2>2, FieldsSame
  <2>6. left \in Seq(Bytes) /\ b = FxMarshalFields(layout, p) \o left /\ FxMarshalFields(layout, p) \in Seq(Bytes)
    BY <2>1, <2>3, <2>4, <2>5 DEF ReadSoFar
  <2>7. FxUnmarshalPacket(kind, b).v = p
    BY <1>3, <1>8, <1>9
  <2> QED BY <2>6, <2>7 DEF layout
<1> QED BY <1>10, <1>11

-----------------------------------------------------------------------------
(* A packet read back with the other codec.                                *)

\* What is left of the bytes of a packet, field by field.
LayoutTails(layout, p, tails) ==
  LET n == Len(layout) IN
    /\ tails \in [0..n -> Seq(Bytes)] /\ tails[n] = <<>> /\ tails[0] = MarshalFields(layout, p)
    /\ \A k \in 1..n : tails[k - 1] = Marshal(TypeOf[layout[k]], p[layout[k]]) \o tails[k]

LEMMA TailsOfLayout ==
  ASSUME NEW layout, GoodLayout(layout), NEW p, \A i \in DOMAIN layout : p[layout[i]] \in Values(TypeOf[layout[i]])
  PROVE  \E tails : LayoutTails(layout, p, tails)
<1> DEFINE n == Len(layout)
<1> DEFINE seqs == [i \in DOMAIN layout |-> Marshal(TypeOf[layout[i]], p[layout[i]])]
<1>1. layout \in Seq(DOMAIN TypeOf)
  BY DEF GoodLayout, ProperLayout
<1>2. n \in Nat /\ DOMAIN layout = 1..n
  BY <1>1
<1>3. MarshalFields(layout, p) = FlattenSeq(seqs)
  BY Zenon DEF MarshalFields
<1>4. \A k \in 1..n : seqs[k] = Marshal(TypeOf[layout[k]], p[layout[k]]) /\ seqs[k] \in Seq(Bytes)
  BY <1>2, MarshalledBytes
<1>5. seqs = [i \in 1..n |-> seqs[i]]
  BY <1>2
<1> HIDE DEF seqs, n
<1>6. seqs \in Seq(Seq(Bytes)) /\ Len(seqs) = n
  <2>1. seqs \in [1..n -> Seq(Bytes)]
    BY <1>4, <1>5
  <2> QED BY <1>2, <2>1
<1>7. PICK tails : Tails(seqs, n, tails) /\ tails[0] = FlattenSeq(seqs)
  BY <1>6, FlattenTails
<1>8. /\ tails \in [0..n -> Seq(Bytes)] /\ tails[n] = <<>> /\ tails[0] = MarshalFields(layout, p)
      /\ \A k \in 1..n : tails[k - 1] = Marshal(TypeOf[layout[k]], p[layout[k]]) \o tails[k]
  BY <1>3, <1>4, <1>7 DEF Tails
<1>9. LayoutTails(layout, p, tails)
  BY <1>8 DEF LayoutTails, n
<1> QED BY <1>9

LEMMA FxFieldRead ==
  ASSUME NEW x, NEW vs, NEW f \in DOMAIN TypeOf, NEW v \in Values(TypeOf[f]), NEW rest \in Seq(Bytes),
         TypeOf[f] = "pairs" => rest = <<>>
  PROVE  Turn("fxfields", "any", Reading(Got(x, Marshal(TypeOf[f], v) \o rest), vs), f)
           = Reading(Got(v, rest), WithField(vs, f, v))
<1> DEFINE b == Marshal(TypeOf[f], v) \o rest
<1>1. b \in Seq(Bytes)
  BY MarshalledBytes, Concat
<1>2. Unmarshal(TypeOf[f], b) = Got(v, rest)
  BY FieldBack
<1>3. TypeOf[f] \in FieldTypes
  BY FieldTypesAll
<1> HIDE DEF b
<1> DEFINE u == FxUnmarshal(TypeOf[f], Got(x, b))
<1>4. Alike(u, Unmarshal(TypeOf[f], b))
  BY <1>1, <1>3, DecodersAgree
<1>5. Unmarshal(TypeOf[f], b) # Short
  BY <1>2, GotFields, ShortFields
<1> HIDE DEF u
<1>6. u = Got(v, rest)
  BY <1>2, <1>4, <1>5 DEF Alike
<1>7. u.v = v
  BY <1>6, GotFields
<1>8. Turn("fxfields", "any", Reading(Got(x, b), vs), f) = Reading(u, WithField(vs, f, u.v))
  BY FxFieldTurn DEF u
<1> QED BY <1>6, <1>7, <1>8 DEF b

LEMMA UnmarshalledGot ==
  ASSUME NEW v, NEW b, NEW p, NEW silent \in BOOLEAN
  PROVE  Unmarshalled(Reading(Got(v, b), p), silent) = Got(p, b)
<1>1. Reading(Got(v, b), p).buf = Got(v, b) /\ Reading(Got(v, b), p).p = p
  BY ReadingFields
<1>2. Got(v, b).rest = b /\ Got(v, b).failed = FALSE
  BY GotFields
<1>3. Unmarshalled(Reading(Got(v, b), p), silent) = [v |-> p, rest |-> b, failed |-> FALSE /\ ~ silent]
  BY <1>1, <1>2 DEF Unmarshalled
<1>4. (FALSE /\ ~ silent) = FALSE
  OBVIOUS
<1> QED BY <1>3, <1>4 DEF Got

\* Whatever its fields hold, a packet of sshfx comes out of its bytes with all of them.
THEOREM FxPacketRoundTrip ==
  ASSUME NEW kind \in DOMAIN FxLayout, NEW p,
         \A i \in DOMAIN FxLayout[kind] : p[FxLayout[kind][i]] \in Values(TypeOf[FxLayout[kind][i]])
  PROVE  FxUnmarshalPacket(kind, MarshalFields(FxLayout[kind], p))
           = Got([f \in Range(FxLayout[kind]) |-> p[f]], <<>>)
<1> DEFINE layout == FxLayout[kind]
<1> DEFINE n == Len(layout)
<1>1. /\ GoodLayout(layout) /\ layout \in Seq(DOMAIN TypeOf)
      /\ \A i \in 1..(n - 1) : TypeOf[layout[i]] # "pairs"
  BY GoodTables DEF GoodLayout, ProperLayout
<1>2. n \in Nat /\ DOMAIN layout = 1..n
  BY <1>1
<1>3. \A k \in 1..n : p[layout[k]] \in Values(TypeOf[layout[k]]) /\ layout[k] \in DOMAIN TypeOf
  BY <1>1, <1>2
<1>4. PICK tails : LayoutTails(layout, p, tails)
  BY <1>1, TailsOfLayout
<1> HIDE DEF layout
<1>5. /\ tails \in [0..n -> Seq(Bytes)] /\ tails[n] = <<>> /\ tails[0] = MarshalFields(layout, p)
      /\ \A k \in 1..n : tails[k - 1] = Marshal(TypeOf[layout[k]], p[layout[k]]) \o tails[k]
  BY <1>4 DEF LayoutTails
<1> DEFINE silent == kind = "version" /\ Len(tails[0]) <= WordLen
<1>6. PICK run : /\ Runs("fxfields", "any", Reading(Got(<<>>, tails[0]), <<>>), layout, n, run)
                 /\ FxUnmarshalPacket(kind, tails[0]) = Unmarshalled(run[n], silent)
  BY <1>1, FxPacketRuns DEF layout
<1> HIDE DEF n, silent
<1> DEFINE S == {k \in Nat : k <= n => \E x : run[k] = Reading(Got(x, tails[k]), FirstOf(p, layout, k))}
<1>7. 0 \in S
  BY <1>6, NothingYet DEF Runs
<1>8. ASSUME NEW k \in Nat, k \in S PROVE k + 1 \in S
  <2> SUFFICES ASSUME k + 1 <= n
               PROVE  \E x : run[k + 1] = Reading(Got(x, tails[k + 1]), FirstOf(p, layout, k + 1))
    OBVIOUS
  <2>1. k + 1 \in 1..n /\ k \in 0..(n - 1) /\ (k + 1) - 1 = k /\ k <= n /\ k + 1 \in 0..n
    BY <1>2
  <2>2. PICK x : run[k] = Reading(Got(x, tails[k]), FirstOf(p, layout, k))
    BY <1>8, <2>1
  <2>3. run[k + 1] = Turn("fxfields", "any", run[k], layout[k + 1])
    BY <1>6, <2>1 DEF Runs
  <2> DEFINE f == layout[k + 1]
  <2> DEFINE left == tails[k + 1]
  <2>4. tails[k] = Marshal(TypeOf[f], p[f]) \o left /\ left \in Seq(Bytes)
    BY <1>5, <2>1
  <2>5. p[f] \in Values(TypeOf[f]) /\ f \in DOMAIN TypeOf
    BY <1>3, <2>1
  <2>6. TypeOf[f] = "pairs" => left = <<>>
    <3>1. k + 1 \in 1..(n - 1) => TypeOf[f] # "pairs"
      BY <1>1 DEF n
    <3>2. k + 1 \in 1..(n - 1) \/ k + 1 = n
      BY <1>2, <2>1
    <3> QED BY <1>5, <3>1, <3>2
  <2>7. run[k + 1] = Turn("fxfields", "any", Reading(Got(x, tails[k]), FirstOf(p, layout, k)), f)
    BY <2>2, <2>3
  <2> HIDE DEF f, left
  <2>8. run[k + 1] = Reading(Got(p[f], left), WithField(FirstOf(p, layout, k), f, p[f]))
    <3> DEFINE vs == FirstOf(p, layout, k)
    <3> DEFINE b == Marshal(TypeOf[f], p[f]) \o left
    <3>1. Turn("fxfields", "any", Reading(Got(x, b), vs), f) = Reading(Got(p[f], left), WithField(vs, f, p[f]))
      <4> HIDE DEF vs
      <4> QED BY <2>4, <2>5, <2>6, FxFieldRead
    <3> HIDE DEF b
    <3>2. tails[k] = b
      BY <2>4 DEF b
    <3> QED BY <2>7, <3>1, <3>2
  <2>9. WithField(FirstOf(p, layout, k), layout[k + 1], p[layout[k + 1]]) = FirstOf(p, layout, k + 1)
    BY FieldAdded
  <2> QED BY <2>8, <2>9 DEF f, left
<1>9. n \in S
  <2> HIDE DEF S
  <2> QED BY <1>2, <1>7, <1>8, SetInduction
<1>10. PICK x : run[n] = Reading(Got(x, <<>>), FirstOf(p, layout, n))
  BY <1>2, <1>5, <1>9
<1>11. Unmarshalled(Reading(Got(x, <<>>), FirstOf(p, layout, n)), silent) = Got(FirstOf(p, layout, n), <<>>)
  BY UnmarshalledGot DEF silent
<1>12. FirstOf(p, layout, n) = [f \in Range(layout) |-> p[f]]
  BY <1>2 DEF FirstOf, Range
<1> QED BY <1>5, <1>6, <1>10, <1>11, <1>12 DEF layout
=============================================================================
