------------------------------- MODULE Packets -------------------------------
(***************************************************************************)
(* The packets of the package itself: packet.go for those the client sends *)
(* and the server reads and for the server's replies, client.go for how    *)
(* the client reads the replies.                                           *)
(*                                                                         *)
(* A packet is a record of its fields.  A layout is the order in which     *)
(* its fields go over the wire, for each direction the code has.           *)
(***************************************************************************)
EXTENDS Wire, TLC

Both(layout) == [marshal |-> layout, unmarshal |-> layout]
Out(layout)  == [marshal |-> layout]
In(layout)   == [unmarshal |-> layout]

\* One table of several, no two of which have a kind in common.
Combined(tables) ==
  [kind \in UNION {DOMAIN t : t \in tables} |-> (CHOOSE t \in tables : kind \in DOMAIN t)[kind]]

\* Extended requests, by the name in them.
ExtName == [hardlink |-> <<11>>, posixrename |-> <<12>>, statvfs |-> <<13>>, fsync |-> <<14>>,
            fstatvfs |-> <<15>>]

StandardType ==
  [init |-> 1, version |-> 2, open |-> 3, close |-> 4, read |-> 5, write |-> 6, lstat |-> 7,
   fstat |-> 8, setstat |-> 9, fsetstat |-> 10, opendir |-> 11, readdir |-> 12, remove |-> 13,
   mkdir |-> 14, rmdir |-> 15, realpath |-> 16, stat |-> 17, rename |-> 18, readlink |-> 19,
   symlink |-> 20, status |-> 101, handle |-> 102, data |-> 103, name |-> 104, attrs |-> 105,
   statvfsReply |-> 201]

PacketType == Combined({StandardType, [kind \in DOMAIN ExtName |-> 200]})

InitPacket == [init |-> Both(<<"version", "extensions">>), version |-> Out(<<"version", "extensions">>)]

\* marshalIDStringPacket and unmarshalIDString.
IDString ==
  Combined({[kind \in {"readdir", "fstat", "close"} |-> Both(<<"id", "handle">>)],
            [kind \in {"opendir", "lstat", "stat", "remove", "rmdir"} |-> Both(<<"id", "path">>)]})

\* The target goes first, against the order of the protocol's text.
SymlinkHardlink == [symlink  |-> Both(<<"id", "targetpath", "linkpath">>),
                    hardlink |-> Out(<<"id", "ext", "oldpath", "newpath">>)]

ReadlinkRealpath == [kind \in {"readlink", "realpath"} |-> Both(<<"id", "path">>)]

NamePacket == [name |-> Out(<<"id", "names">>)]

\* The server leaves the attributes as bytes until the handler asks for them.
OpenPacket == [open |-> Both(<<"id", "path", "pflags", "attrs">>)]

ReadPacket == [read |-> Both(<<"id", "handle", "offset", "len">>)]

RenameWrite == [rename      |-> Both(<<"id", "oldpath", "newpath">>),
                posixrename |-> Out(<<"id", "ext", "oldpath", "newpath">>),
                write       |-> Both(<<"id", "handle", "offset", "data">>)]

\* The attributes a client may send with mkdir are not read.
MkdirPacket == [mkdir |-> Both(<<"id", "path", "flags">>)]

SetstatPackets == [setstat  |-> Both(<<"id", "path", "attrs">>),
                   fsetstat |-> Both(<<"id", "handle", "attrs">>)]

HandleStatusData == [handle |-> Out(<<"id", "handle">>),
                     status |-> Out(<<"id", "code", "msg", "lang">>),
                     data   |-> Out(<<"id", "data">>)]

StatVFS == <<"bsize", "frsize", "blocks", "bfree", "bavail", "files", "ffree", "favail", "fsid",
             "flag", "namemax">>

StatvfsPackets == [statvfs      |-> Out(<<"id", "ext", "path">>),
                   statvfsReply |-> Out(<<"id">> \o StatVFS)]

StatResponse == [attrs |-> Out(<<"id", "attrs">>)]

FsyncPacket == [fsync |-> Out(<<"id", "ext", "handle">>)]

\* The extended packets the server reads.
ExtendedPacket == [statvfs |-> In(<<"id", "ext", "path">>),
                   posixrename |-> In(<<"id", "ext", "oldpath", "newpath">>),
                   hardlink |-> In(<<"id", "ext", "oldpath", "newpath">>)]

\* The replies the client reads.
RecvVersion    == [version |-> In(<<"version", "extensions">>)]
HandleReply    == [handle |-> In(<<"id", "handle">>)]
StatusReply    == [status |-> In(<<"id", "code", "msg", "lang">>)]
DataReply      == [data |-> In(<<"id", "data">>)]
ReadDirReply   == [name |-> In(<<"id", "names">>)]
AttrsReply     == [attrs |-> In(<<"id", "attrs">>)]
StatVFSReply   == [statvfsReply |-> In(<<"id">> \o StatVFS)]

Sent ==
  Combined({InitPacket, IDString, SymlinkHardlink, ReadlinkRealpath, NamePacket, OpenPacket,
            ReadPacket, RenameWrite, MkdirPacket, SetstatPackets, HandleStatusData,
            StatvfsPackets, StatResponse, FsyncPacket})

Requests ==
  {Restrict(InitPacket, {"init"}), IDString, ReadlinkRealpath, OpenPacket, ReadPacket, MkdirPacket,
   SetstatPackets, ExtendedPacket, Restrict(SymlinkHardlink, {"symlink"}),
   Restrict(RenameWrite, {"rename", "write"})}

Replies == {RecvVersion, HandleReply, StatusReply, DataReply, ReadDirReply, AttrsReply,
            StatVFSReply}

\* What is read, by kind.  unmarshalStatus forgives a status without its texts.
Read == Combined(Requests \union Replies)
Forgiven(kind) == IF kind = "status" THEN {"msg", "lang"} ELSE {}

MarshalFields(layout, p) ==
  FlattenSeq([i \in DOMAIN layout |-> Marshal(TypeOf[layout[i]], p[layout[i]])])

MarshalPacket(kind, p) == MarshalFields(Sent[kind].marshal, p)

\* A record with one more field, or another value of it.
WithField(p, f, v) == [g \in DOMAIN p \union {f} |-> IF g = f THEN v ELSE p[g]]

AndField(r, f, u, forgiven) ==
  IF r.failed \/ (u.failed /\ ~ forgiven) THEN Short ELSE Got(WithField(r.v, f, u.v), u.rest)

\* Field after field.  A client that finds a reply too short panics where the server,
\* whose decoders check, returns an error: both count as failed.
UnmarshalPacket(kind, b) ==
  FoldLeft(LAMBDA r, f : AndField(r, f, Unmarshal(TypeOf[f], r.rest), f \in Forgiven(kind)),
           Got(<<>>, b), Read[kind].unmarshal)

\* makePacket and the switches of the client: the kind of a packet, or "unknown".
KindNamed(type, ext) ==
  LET kinds == {kind \in DOMAIN Read :
                  PacketType[kind] = type
                  /\ (type = 200 => ~ ext.failed /\ ExtName[kind] = ext.v)} IN
    IF kinds = {} THEN "unknown" ELSE CHOOSE kind \in kinds : TRUE

KindOf(type, body) == KindNamed(type, UnmarshalStringSafe(UnmarshalUint32Safe(body).rest))
=============================================================================
