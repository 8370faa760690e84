------------------------------ MODULE Filexfer ------------------------------
(***************************************************************************)
(* The second encoding of the same protocol, internal/encoding/ssh/filexfer*)
(* (package sshfx) with its openssh extensions.  Neither the client nor    *)
(* the servers use its packets yet: what it must do is agree with          *)
(* Packets.  It decodes with a Buffer whose first error sticks.            *)
(***************************************************************************)
EXTENDS Packets

\* A Buffer, with the value consumed last.
Buffer(b)    == [v |-> <<>>, rest |-> b, failed |-> FALSE]
Broken(zero) == [v |-> zero, rest |-> <<>>, failed |-> TRUE]

AppendUint32(v) == <<(v \div Base) % Base, v % Base>>

AppendUint64(v) == AppendUint32(v[1]) \o AppendUint32(v[2])

AppendByteSlice(s) == AppendUint32(Len(s)) \o s

ConsumeUint32(buf) ==
  IF buf.failed \/ Len(buf.rest) < WordLen THEN Broken(0)
  ELSE [v |-> buf.rest[1] * Base + buf.rest[2], rest |-> Drop(buf.rest, WordLen), failed |-> FALSE]

PairWith(high, low) == [low EXCEPT !.v = <<high.v, low.v>>]

ConsumeUint64(buf) ==
  IF buf.failed \/ Len(buf.rest) < 2 * WordLen THEN Broken(<<0, 0>>)
  ELSE PairWith(ConsumeUint32(buf), ConsumeUint32([buf EXCEPT !.rest = Drop(buf.rest, WordLen)]))

TakeLength(length) ==
  IF length.failed \/ Len(length.rest) < length.v THEN Broken(<<>>)
  ELSE [v |-> SubSeq(length.rest, 1, length.v), rest |-> Drop(length.rest, length.v),
        failed |-> FALSE]

ConsumeByteSlice(buf) == TakeLength(ConsumeUint32(buf))

-----------------------------------------------------------------------------
(* Structures inside packets.                                              *)

FxPairs(pairs) ==
  FlattenSeq([i \in DOMAIN pairs |-> AppendByteSlice(pairs[i][1]) \o AppendByteSlice(pairs[i][2])])

\* The value of a buffer joins the values consumed before.
Joined(vs, buf) == [buf EXCEPT !.v = Append(vs, buf.v)]
Fresh(buf)      == [buf EXCEPT !.v = <<>>]

JoinString(buf) == Joined(buf.v, ConsumeByteSlice(buf))

\* An extension pair or an extended attribute.
FxConsumePair(acc) == Joined(acc.v, JoinString(JoinString(Fresh(acc))))

\* Runs step as often as the value of the buffer says, or until it has failed for good.
Repeat(step(_), count) ==
  FoldLeft(LAMBDA acc, i : IF acc.failed THEN acc ELSE step(acc), Fresh(count),
           [i \in 1..(IF count.v > Len(count.rest) THEN Len(count.rest) + 1 ELSE count.v) |-> i])

FxMarshalInto(attrs) ==
  AppendUint32(attrs.flags)
  \o When(HasFlag(attrs.flags, AttrSize), AppendUint64(attrs.size))
  \o When(HasFlag(attrs.flags, AttrUIDGID), AppendUint32(attrs.uid) \o AppendUint32(attrs.gid))
  \o When(HasFlag(attrs.flags, AttrPermissions), AppendUint32(attrs.mode))
  \o When(HasFlag(attrs.flags, AttrACmodTime),
          AppendUint32(attrs.atime) \o AppendUint32(attrs.mtime))
  \o When(HasFlag(attrs.flags, AttrExtended),
          AppendUint32(Len(attrs.extended)) \o FxPairs(attrs.extended))

FxConsumeBasic(type, buf) ==
  CASE type = "uint64"  -> ConsumeUint64(buf)
    [] type = "uint32"  -> ConsumeUint32(buf)
    [] type = "string"  -> ConsumeByteSlice(buf)
    [] type = "counted" -> Repeat(FxConsumePair, ConsumeUint32(buf))

PutField(attrs, field, buf) == [buf EXCEPT !.v = [attrs EXCEPT ![field] = buf.v]]

\* Consumes a field when the flags have its bit; acc.v holds the attributes so far.
FxConsumeField(acc, bit, field) ==
  IF ~ HasFlag(acc.v.flags, bit) THEN acc
  ELSE PutField(acc.v, field, FxConsumeBasic(TypeOf[field], acc))

FxUnmarshalByFlags(flags) ==
  FoldLeft(LAMBDA acc, f : FxConsumeField(acc, f[1], f[2]),
           [flags EXCEPT !.v = [NoAttrs EXCEPT !.flags = flags.v]],
           <<<<AttrSize, "size">>, <<AttrUIDGID, "uid">>, <<AttrUIDGID, "gid">>,
             <<AttrPermissions, "mode">>, <<AttrACmodTime, "atime">>,
             <<AttrACmodTime, "mtime">>, <<AttrExtended, "extended">>>>)

JoinAttrs(buf) == Joined(buf.v, FxUnmarshalByFlags(ConsumeUint32(buf)))

FxNameEntry(entry) ==
  AppendByteSlice(entry.filename) \o AppendByteSlice(entry.longname) \o FxMarshalInto(entry.attrs)

JoinEntry(entries, e) ==
  [e EXCEPT !.v = Append(entries, [filename |-> e.v[1], longname |-> e.v[2], attrs |-> e.v[3]])]

FxConsumeEntry(acc) == JoinEntry(acc.v, JoinAttrs(JoinString(JoinString(Fresh(acc)))))

FxMarshal(type, v) ==
  CASE type = "uint32" -> AppendUint32(v)
    [] type = "uint64" -> AppendUint64(v)
    [] type = "string" -> AppendByteSlice(v)
    [] type = "pairs"  -> FxPairs(v)
    [] type = "attrs"  -> FxMarshalInto(v)
    [] type = "names"  -> AppendUint32(Len(v))
                          \o FlattenSeq([i \in DOMAIN v |-> FxNameEntry(v[i])])

\* Pairs go on while the buffer holds anything.
FxUnmarshal(type, buf) ==
  CASE type = "pairs"  -> FoldLeft(LAMBDA acc, i : IF acc.rest = <<>> THEN acc
                                                   ELSE FxConsumePair(acc),
                                   Fresh(buf), [i \in 1..Len(buf.rest) |-> i])
    [] type = "attrs"  -> FxUnmarshalByFlags(ConsumeUint32(buf))
    [] type = "names"  -> Repeat(FxConsumeEntry, ConsumeUint32(buf))
    [] OTHER           -> FxConsumeBasic(type, buf)

-----------------------------------------------------------------------------
(* Packets: the order of the fields, the same in both directions.          *)

FxInitPacket    == [init |-> <<"version", "extensions">>]
FxVersionPacket == [version |-> <<"version", "extensions">>]

FxOpenPackets == [open |-> <<"id", "path", "pflags", "attrs">>, opendir |-> <<"id", "path">>]

FxHandleData == [close |-> <<"id", "handle">>, read |-> <<"id", "handle", "offset", "len">>,
                 write |-> <<"id", "handle", "offset", "data">>]

FxHandleAttrs == [fstat |-> <<"id", "handle">>, fsetstat |-> <<"id", "handle", "attrs">>,
                  readdir |-> <<"id", "handle">>]

FxLstatSetstat == [lstat |-> <<"id", "path">>, setstat |-> <<"id", "path", "attrs">>,
                   remove |-> <<"id", "path">>]

FxDirectories == [mkdir |-> <<"id", "path", "attrs">>, rmdir |-> <<"id", "path">>,
                  realpath |-> <<"id", "path">>, stat |-> <<"id", "path">>]

FxLinks == [rename |-> <<"id", "oldpath", "newpath">>, readlink |-> <<"id", "path">>,
            symlink |-> <<"id", "targetpath", "linkpath">>]

FxStatusHandleData == [status |-> <<"id", "code", "msg", "lang">>, handle |-> <<"id", "handle">>,
                       data |-> <<"id", "data">>]

FxNameAttrs == [name |-> <<"id", "names">>, attrs |-> <<"id", "attrs">>]

FxHardlink    == [hardlink |-> <<"id", "ext", "oldpath", "newpath">>]
FxPOSIXRename == [posixrename |-> <<"id", "ext", "oldpath", "newpath">>]
FxFSync       == [fsync |-> <<"id", "ext", "handle">>]
FxStatVFS     == [statvfs |-> <<"id", "ext", "path">>, fstatvfs |-> <<"id", "ext", "handle">>]
FxStatVFSReply == [statvfsReply |-> <<"id">> \o StatVFS]

FxReplies  == Combined({FxVersionPacket, FxStatusHandleData, FxNameAttrs, FxStatVFSReply})
FxExtended == Combined({FxHardlink, FxPOSIXRename, FxFSync, FxStatVFS})
FxLayout   == Combined({FxInitPacket, FxOpenPackets, FxHandleData, FxHandleAttrs, FxLstatSetstat,
                        FxDirectories, FxLinks, FxExtended, FxReplies})

FxMarshalFields(layout, p) ==
  FlattenSeq([i \in DOMAIN layout |-> FxMarshal(TypeOf[layout[i]], p[layout[i]])])

FxMarshalPacket(kind, p) == FxMarshalFields(FxLayout[kind], p)

FieldOf(r, f, buf) == [buf |-> buf, p |-> WithField(r.p, f, buf.v)]

Unmarshalled(r, silent) ==
  [v |-> r.p, rest |-> r.buf.rest, failed |-> r.buf.failed /\ ~ silent]

\* The fields one after the other on one buffer.  VersionPacket returns nil where the others
\* return buf.Err, and nothing that follows an error can clear it.
FxUnmarshalPacket(kind, b) ==
  Unmarshalled(FoldLeft(LAMBDA r, f : FieldOf(r, f, FxUnmarshal(TypeOf[f], r.buf)),
                        [buf |-> Buffer(b), p |-> <<>>], FxLayout[kind]),
               kind = "version" /\ Len(b) <= WordLen)

\* newPacketFromType for requests, and the extensions registered by name.
FxKindNamed(type, ext) ==
  LET kinds == {kind \in DOMAIN FxLayout :
                  PacketType[kind] = type
                  /\ (kind \in DOMAIN FxExtended => ~ ext.failed /\ ExtName[kind] = ext.v)} IN
    IF kinds = {} THEN "unknown" ELSE CHOOSE kind \in kinds : TRUE

FxKindOf(type, body) == FxKindNamed(type, ConsumeByteSlice(ConsumeUint32(Buffer(body))))

-----------------------------------------------------------------------------
(* Frames.                                                                 *)

FxPacket(type, body) == AppendUint32(1 + Len(body)) \o <<type>> \o body

\* A packet holds at least a type and an id, and the end of the stream right after a length
\* is an EOF like the one between packets.
FxReadBody(length) ==
  CASE length.v < 1 + WordLen -> [status |-> "short"]
    [] length.v > MaxMsgLength -> [status |-> "long"]
    [] length.v \in (1 + WordLen)..MaxMsgLength /\ length.rest = <<>> -> [status |-> "eof"]
    [] OTHER ->
         IF Len(length.rest) < length.v THEN [status |-> "unexpectedEOF"]
         ELSE [status |-> "ok", type |-> length.rest[1],
               body |-> SubSeq(length.rest, 2, length.v), rest |-> Drop(length.rest, length.v)]

FxReadPacket(stream) ==
  IF Len(stream) < WordLen THEN [status |-> IF stream = <<>> THEN "eof" ELSE "unexpectedEOF"]
  ELSE FxReadBody(ConsumeUint32(Buffer(stream)))
=============================================================================
