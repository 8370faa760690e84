-------------------------------- MODULE Wire --------------------------------
(***************************************************************************)
(* The wire format of the package itself (packet.go): numbers, strings and *)
(* attributes to bytes and back, and frames.                               *)
(*                                                                         *)
(* A byte is a byte, but a uint32 has WordLen = 2 of them, so its top bit  *)
(* is 2^15, and a uint64 is the pair of its two words.  A decoder returns  *)
(* the value, what is left of the bytes, and whether it failed.            *)
(***************************************************************************)
EXTENDS Integers, Sequences, SequencesExt

CONSTANT MaxMsgLength   \* bytes of the longest packet accepted

ASSUME MaxMsgLengthAssumption == MaxMsgLength \in Nat \ {0}

Base    == 256
WordLen == 2
Uint32  == 0..(Base * Base - 1)

Drop(b, n) == SubSeq(b, n + 1, Len(b))
When(c, s) == IF c THEN s ELSE <<>>

Got(v, rest) == [v |-> v, rest |-> rest, failed |-> FALSE]
Short        == [v |-> <<>>, rest |-> <<>>, failed |-> TRUE]

\* What the fields of a packet are; "data" is a counted slice like a string.
TypeOf ==
  LET words   == {"id", "version", "pflags", "flags", "code", "len", "uid", "gid", "mode", "atime",
                  "mtime"}
      longs   == {"size", "offset", "bsize", "frsize", "blocks", "bfree", "bavail", "files",
                  "ffree", "favail", "fsid", "flag", "namemax"}
      strings == {"ext", "handle", "path", "oldpath", "newpath", "targetpath", "linkpath", "msg",
                  "lang", "data", "filename", "longname"} IN
    [f \in words \union longs \union strings \union {"extended", "extensions", "attrs", "names"} |->
       CASE f \in words      -> "uint32"
         [] f \in longs      -> "uint64"
         [] f \in strings    -> "string"
         [] f = "extended"   -> "counted"
         [] f = "extensions" -> "pairs"
         [] OTHER            -> f]

\* The bits of the flags of an ATTRS structure.
AttrSize == 1
AttrUIDGID == 2
AttrPermissions == 4
AttrACmodTime == 8
AttrExtended == 2^15
HasFlag(flags, bit) == (flags \div bit) % 2 = 1

NoAttrs == [flags |-> 0, size |-> <<0, 0>>, uid |-> 0, gid |-> 0, mode |-> 0, atime |-> 0,
            mtime |-> 0, extended |-> <<>>]

-----------------------------------------------------------------------------
(* Marshalling.                                                            *)

MarshalUint32(v) == <<v \div Base, v % Base>>

MarshalUint64(v) == MarshalUint32(v[1]) \o MarshalUint32(v[2])

MarshalString(s) == MarshalUint32(Len(s)) \o s

MarshalPairs(pairs) ==
  FlattenSeq([i \in DOMAIN pairs |-> MarshalString(pairs[i][1]) \o MarshalString(pairs[i][2])])

MarshalBasic(type, v) ==
  CASE type = "uint32"  -> MarshalUint32(v)
    [] type = "uint64"  -> MarshalUint64(v)
    [] type = "string"  -> MarshalString(v)
    [] type = "pairs"   -> MarshalPairs(v)
    [] type = "counted" -> MarshalUint32(Len(v)) \o MarshalPairs(v)

\* Mutant: the owner comes after the permissions.
FileStatFieldsSwapped(flags) ==
  When(HasFlag(flags, AttrSize), <<"size">>)
  \o When(HasFlag(flags, AttrPermissions), <<"mode">>)
  \o When(HasFlag(flags, AttrUIDGID), <<"uid", "gid">>)
  \o When(HasFlag(flags, AttrACmodTime), <<"atime", "mtime">>)
  \o When(HasFlag(flags, AttrExtended), <<"extended">>)

\* The fields an ATTRS structure has, by its flags.
FileStatFields(flags) ==
  When(HasFlag(flags, AttrSize), <<"size">>)
  \o When(HasFlag(flags, AttrUIDGID), <<"uid", "gid">>)
  \o When(HasFlag(flags, AttrPermissions), <<"mode">>)
  \o When(HasFlag(flags, AttrACmodTime), <<"atime", "mtime">>)
  \o When(HasFlag(flags, AttrExtended), <<"extended">>)

MarshalFileStat(fs) ==
  LET fields == FileStatFields(fs.flags) IN
    MarshalUint32(fs.flags)
    \o FlattenSeq([i \in DOMAIN fields |-> MarshalBasic(TypeOf[fields[i]], fs[fields[i]])])

MarshalNameAttr(entry) ==
  MarshalString(entry.filename) \o MarshalString(entry.longname) \o MarshalFileStat(entry.attrs)

Marshal(type, v) ==
  CASE type = "attrs" -> MarshalFileStat(v)
    [] type = "names" -> MarshalUint32(Len(v))
                         \o FlattenSeq([i \in DOMAIN v |-> MarshalNameAttr(v[i])])
    [] OTHER -> MarshalBasic(type, v)

-----------------------------------------------------------------------------
(* What a field may hold, by its type.                                     *)

Bytes      == 0..(Base - 1)
Texts      == {s \in Seq(Bytes) : Len(s) \in Uint32}
Pairs      == Texts \X Texts
Counted(V) == {v \in Seq(V) : Len(v) \in Uint32}

\* The values of the types that stand in ATTRS structures and on their own.
BasicValues(type) ==
  CASE type = "uint32"  -> Uint32
    [] type = "uint64"  -> Uint32 \X Uint32
    [] type = "string"  -> Texts
    [] type = "counted" -> Counted(Pairs)
    [] OTHER            -> {}

\* The fields that the flags of an ATTRS structure may announce.
AttrNames == {"size", "uid", "gid", "mode", "atime", "mtime", "extended"}

\* What an ATTRS structure may be: the fields its flags do not announce are zero.
FileStats ==
  {fs \in [flags : Uint32, size : Uint32 \X Uint32, uid : Uint32, gid : Uint32, mode : Uint32,
           atime : Uint32, mtime : Uint32, extended : Counted(Pairs)] :
     \A f \in AttrNames :
       (\A i \in DOMAIN FileStatFields(fs.flags) : FileStatFields(fs.flags)[i] # f) => fs[f] = NoAttrs[f]}

\* An entry of a listing.
Entries == [filename : Texts, longname : Texts, attrs : FileStats]

Values(type) ==
  CASE type = "attrs" -> FileStats
    [] type = "names" -> Counted(Entries)
    [] type = "pairs" -> Seq(Pairs)
    [] OTHER          -> BasicValues(type)

-----------------------------------------------------------------------------
(* Unmarshalling.                                                          *)

UnmarshalUint32Safe(b) ==
  IF Len(b) < WordLen THEN Short ELSE Got(b[1] * Base + b[2], Drop(b, WordLen))

UnmarshalUint64Safe(b) ==
  IF Len(b) < 2 * WordLen THEN Short
  ELSE Got(<<b[1] * Base + b[2], b[3] * Base + b[4]>>, Drop(b, 2 * WordLen))

\* Mutant: a length beyond the end of the packet is cut down.
UnmarshalStringCut(b) ==
  LET n == UnmarshalUint32Safe(b)
      m == IF n.v > Len(n.rest) THEN Len(n.rest) ELSE n.v IN
    IF n.failed THEN Short ELSE Got(SubSeq(n.rest, 1, m), Drop(n.rest, m))

\* As many bytes as a length says, when there are so many.
TakeCounted(n) ==
  IF n.failed \/ n.v > Len(n.rest) THEN Short ELSE Got(SubSeq(n.rest, 1, n.v), Drop(n.rest, n.v))

UnmarshalStringSafe(b) == TakeCounted(UnmarshalUint32Safe(b))

\* A value u decoded after the values of r is appended to them.
AndThen(r, u) == IF r.failed \/ u.failed THEN Short ELSE Got(Append(r.v, u.v), u.rest)

AndString(r) == AndThen(r, UnmarshalStringSafe(r.rest))

\* Two strings, one pair.
UnmarshalPair(r) == AndThen(r, AndString(AndString(Got(<<>>, r.rest))))

\* At most count.v pairs: each needs bytes, so what is left bounds the number of turns.
UnmarshalCounted(count) ==
  IF count.failed THEN Short
  ELSE FoldLeft(LAMBDA r, i : UnmarshalPair(r), Got(<<>>, count.rest),
                [i \in 1..(IF count.v > Len(count.rest) THEN Len(count.rest) + 1 ELSE count.v) |-> i])

\* Pairs up to the end of the packet.
UnmarshalPairs(b) ==
  FoldLeft(LAMBDA r, i : IF r.failed \/ r.rest = <<>> THEN r ELSE UnmarshalPair(r),
           Got(<<>>, b), [i \in 1..Len(b) |-> i])

UnmarshalBasic(type, b) ==
  CASE type = "uint32"  -> UnmarshalUint32Safe(b)
    [] type = "uint64"  -> UnmarshalUint64Safe(b)
    [] type = "string"  -> UnmarshalStringSafe(b)
    [] type = "pairs"   -> UnmarshalPairs(b)
    [] type = "counted" -> UnmarshalCounted(UnmarshalUint32Safe(b))

SetField(r, f, u) ==
  IF r.failed \/ u.failed THEN Short ELSE Got([r.v EXCEPT ![f] = u.v], u.rest)

\* The fields the flags announce; the others stay zero.
UnmarshalFileStat(flags) ==
  IF flags.failed THEN Short
  ELSE FoldLeft(LAMBDA r, f : SetField(r, f, UnmarshalBasic(TypeOf[f], r.rest)),
                Got([NoAttrs EXCEPT !.flags = flags.v], flags.rest), FileStatFields(flags.v))

UnmarshalAttrs(b) == UnmarshalFileStat(UnmarshalUint32Safe(b))

AndAttrs(r) == AndThen(r, UnmarshalAttrs(r.rest))

\* An entry of a listing, as ReadDir finds it in the packet before it looks at the name.
AndEntry(r, e) ==
  IF r.failed \/ e.failed THEN Short
  ELSE Got(Append(r.v, [filename |-> e.v[1], longname |-> e.v[2], attrs |-> e.v[3]]), e.rest)

UnmarshalEntry(r) == AndEntry(r, AndAttrs(AndString(AndString(Got(<<>>, r.rest)))))

UnmarshalEntries(count) ==
  IF count.failed THEN Short
  ELSE FoldLeft(LAMBDA r, i : UnmarshalEntry(r), Got(<<>>, count.rest),
                [i \in 1..(IF count.v > Len(count.rest) THEN Len(count.rest) + 1 ELSE count.v) |-> i])

Unmarshal(type, b) ==
  CASE type = "attrs" -> UnmarshalAttrs(b)
    [] type = "names" -> UnmarshalEntries(UnmarshalUint32Safe(b))
    [] OTHER -> UnmarshalBasic(type, b)

-----------------------------------------------------------------------------
(* Frames: the length, the type, the body.                                 *)

\* sendPacket: the length counts the type and the body.
SendPacket(type, body) == MarshalUint32(1 + Len(body)) \o <<type>> \o body

\* recvPacket on a stream that ends.
RecvBody(length) ==
  CASE length.v > MaxMsgLength -> [status |-> "long"]
    [] length.v = 0 -> [status |-> "short"]
    [] length.v > Len(length.rest) -> [status |-> "unexpectedEOF"]
    [] OTHER -> [status |-> "ok", type |-> length.rest[1],
                 body |-> SubSeq(length.rest, 2, length.v), rest |-> Drop(length.rest, length.v)]

RecvPacket(stream) ==
  IF Len(stream) < WordLen THEN [status |-> IF stream = <<>> THEN "eof" ELSE "unexpectedEOF"]
  ELSE RecvBody(UnmarshalUint32Safe(stream))
=============================================================================
