------------------------------- MODULE Codecs -------------------------------
(***************************************************************************)
(* Packets from one end to the other.  A sender encodes a packet and a     *)
(* close packet after it, with either codec of the repository, and a       *)
(* receiver decodes what arrives, with either.  On the way the connection  *)
(* may end after any byte, or one byte of the first packet may change.     *)
(*                                                                         *)
(* Some packets carry a value of Go's os package (carried), which the      *)
(* sender converts and the receiver converts back.                         *)
(***************************************************************************)
EXTENDS Filexfer, Attributes, FiniteSets

CONSTANTS
  Samples,    \* packets: their kind and all their fields
  Carried,    \* values of the os package to send: what they are, and the value
  AlterTo     \* what a byte may change to

VARIABLES
  sender,     \* the codec of the sender, "sftp" or "sshfx"
  receiver,   \* the codec of the receiver
  sample,     \* the packet sent first
  carried,    \* the value it carries, [what |-> "none"] if it was not made from one
  stream,     \* the bytes still to be received
  sentBytes,  \* the bytes sent
  altered,    \* whether a byte has been changed
  received,   \* the packets received
  status      \* what the last read returned, "ok" while reading goes on

vars == <<sender, receiver, sample, carried, stream, sentBytes, altered, received, status>>

Nothing  == [what |-> "none"]
Follower == [kind |-> "close", p |-> [id |-> 7, handle |-> <<9>>]]

Body(codec, packet) ==
  IF codec = "sftp" THEN MarshalPacket(packet.kind, packet.p)
  ELSE FxMarshalPacket(packet.kind, packet.p)

Frame(codec, packet) ==
  IF codec = "sftp" THEN SendPacket(PacketType[packet.kind], Body(codec, packet))
  ELSE FxPacket(PacketType[packet.kind], Body(codec, packet))

Encodes(codec, kind) == kind \in IF codec = "sftp" THEN DOMAIN Sent ELSE DOMAIN FxLayout
Decodes(codec, kind) == kind \in IF codec = "sftp" THEN DOMAIN Read ELSE DOMAIN FxLayout

\* What the package makes of a value: an attrs reply, a status, an open or a setstat.
PacketFor(c) ==
  CASE c.what = "info"  -> [kind |-> "attrs", p |-> [id |-> 3, attrs |-> FileStatFromInfo(c.v)]]
    [] c.what = "error" -> [kind |-> "status", p |-> [id |-> 3, code |-> StatusFromError(c.v),
                                                      msg |-> <<1>>, lang |-> <<>>]]
    [] c.what = "open"  -> [kind |-> "open", p |-> [id |-> 3, path |-> <<1>>, attrs |-> NoAttrs,
                                                    pflags |-> ToPflags(c.v.access, c.v.bits)]]
    [] c.what = "chmod" ->
         [kind |-> "setstat", p |-> [id |-> 3, path |-> <<1>>,
            attrs |-> [NoAttrs EXCEPT !.flags = AttrPermissions, !.mode = ToChmodPerm(c.v)]]]

\* The values of the os package that the package converts.
OsValues == [what : {"info"}, v : FileInfos] \union [what : {"error"}, v : OsErrors]
            \union [what : {"open"}, v : OpenFlags] \union [what : {"chmod"}, v : FileModes]

Layout(codec, kind) == IF codec = "sftp" THEN Sent[kind].marshal ELSE FxLayout[kind]

\* Short enough for either reader.
Fits(codec, packet) == 1 + Len(Body(codec, packet)) \in Uint32 \intersect (1..MaxMsgLength)

\* A packet that its sender may build: typed fields, and the name of its extension.  A mkdir
\* has the flags of its attributes; the client of the package sends it with neither.
Sendable(codec, packet) ==
  /\ \A f \in Range(Layout(codec, packet.kind)) : packet.p[f] \in Values(TypeOf[f])
  /\ packet.kind \in DOMAIN ExtName => packet.p.ext = ExtName[packet.kind]
  /\ packet.kind = "mkdir" =>
       /\ packet.p.flags = packet.p.attrs.flags
       /\ codec = "sftp" => packet.p.attrs = NoAttrs
  /\ Fits(codec, packet)

ASSUME CodecsAssumption ==
  /\ AlterTo \subseteq Bytes
  /\ \A codec \in {"sftp", "sshfx"} : Fits(codec, Follower)
  /\ \A s \in Samples : \E codec \in {"sftp", "sshfx"} : Encodes(codec, s.kind) /\ Sendable(codec, s)
  /\ \A c \in Carried : c \in OsValues /\ Fits("sftp", PacketFor(c))

-----------------------------------------------------------------------------
Init ==
  /\ sender \in {"sftp", "sshfx"} /\ receiver \in {"sftp", "sshfx"}
  /\ \/ /\ sample \in {s \in Samples : Encodes(sender, s.kind) /\ Sendable(sender, s)}
        /\ carried = Nothing
     \/ /\ carried \in Carried
        /\ sender = "sftp" /\ receiver = "sftp"
        /\ sample = PacketFor(carried)
  /\ stream = Frame(sender, sample) \o Frame(sender, Follower)
  /\ sentBytes = Len(stream)
  /\ altered = FALSE /\ received = <<>> /\ status = "ok"

Untouched == received = <<>> /\ status = "ok" /\ ~ altered /\ Len(stream) = sentBytes

\* The connection ends after n bytes.
Cut(n) ==
  /\ Untouched /\ carried = Nothing
  /\ stream' = SubSeq(stream, 1, n)
  /\ UNCHANGED <<sender, receiver, sample, carried, sentBytes, altered, received, status>>

\* A byte of the first packet changes.
Alter(i, b) ==
  /\ Untouched /\ carried = Nothing
  /\ stream[i] # b
  /\ stream' = [stream EXCEPT ![i] = b]
  /\ altered' = TRUE
  /\ UNCHANGED <<sender, receiver, sample, carried, sentBytes, received, status>>

\* The receiver's reader, and the decoder of the kind of packet it has found.
ReadFrame == IF receiver = "sftp" THEN RecvPacket(stream) ELSE FxReadPacket(stream)

UnmarshalAs(kind, body) ==
  CASE kind = "unknown" -> Short
    [] kind # "unknown" /\ receiver = "sftp" -> UnmarshalPacket(kind, body)
    [] OTHER -> FxUnmarshalPacket(kind, body)

Entry(kind, body, u) == [kind |-> kind, body |-> body, p |-> u.v, failed |-> u.failed]

DecodedAs(kind, body) == Entry(kind, body, UnmarshalAs(kind, body))

Decoded(type, body) ==
  DecodedAs(IF receiver = "sftp" THEN KindOf(type, body) ELSE FxKindOf(type, body), body)

TakeFrame(frame) ==
  /\ status' = frame.status
  /\ \/ /\ frame.status = "ok"
        /\ received' = Append(received, Decoded(frame.type, frame.body))
        /\ stream' = frame.rest
     \/ frame.status # "ok" /\ UNCHANGED <<received, stream>>
  /\ UNCHANGED <<sender, receiver, sample, carried, sentBytes, altered>>

\* Read a frame and decode it.  What cannot be read ends the connection.
Receive == status = "ok" /\ TakeFrame(ReadFrame)

Next ==
  \/ \E n \in 0..(Len(stream) - 1) : Cut(n)
  \/ \E i \in 1..Len(Frame(sender, sample)), b \in AlterTo : Alter(i, b)
  \/ Receive

Spec == Init /\ [][Next]_vars

-----------------------------------------------------------------------------
(* Properties.                                                             *)

Packets2 == <<sample, Follower>>
\* Where the k-th of the packets sent ends.
FrameEnd(k) == Len(Frame(sender, sample)) + (IF k = 2 THEN Len(Frame(sender, Follower)) ELSE 0)

\* The bytes that have arrived so far or are still in the stream.
Arrived == FoldLeft(LAMBDA n, e : n + WordLen + 1 + Len(e.body), Len(stream), received)

Same(entry, packet) ==
  Decodes(receiver, packet.kind) =>
    /\ entry.kind = packet.kind /\ ~ entry.failed
    /\ \A f \in DOMAIN entry.p : f \in DOMAIN packet.p => entry.p[f] = packet.p[f]

\* Between any two of the codecs a packet arrives with the fields it was sent with, one that
\* is not complete never arrives, and the receiver of the package itself takes only an end
\* between two packets for the end of the connection (recvPacket turns io.EOF inside a packet
\* into io.ErrUnexpectedEOF, on which the loops of client and server rely).
RoundTrip ==
  ~ altered =>
    /\ Len(received) <= 2
    /\ \A k \in DOMAIN received :
         Same(received[k], Packets2[k]) /\ FrameEnd(k) <= Arrived
    /\ status # "ok" => /\ Len(received) = Cardinality({k \in 1..2 : FrameEnd(k) <= Arrived})
                        /\ (receiver = "sftp" /\ status = "eof") => stream = <<>>

\* The fields that a packet of the package cannot lack: all but the forgiven ones.
SureFields(kind) == IF kind = "status" THEN <<"id", "code">> ELSE Read[kind].unmarshal

\* What a codec has decoded is what the bytes say: encoding it again gives the bytes it was
\* decoded from, whatever happened to them on the way.  Only a status may lack its texts, and
\* a version decoded by sshfx is left out (VersionPacket.UnmarshalBinary drops the error).
NothingInvented ==
  \A k \in DOMAIN received :
    LET e == received[k] IN
      (~ e.failed /\ ~ (e.kind = "version" /\ receiver = "sshfx")) =>
        IsPrefix(IF receiver = "sftp" THEN MarshalFields(SureFields(e.kind), e.p)
                                      ELSE FxMarshalFields(FxLayout[e.kind], e.p),
                 e.body)

SameInfo(fi, got) ==
  /\ got.size = fi.size /\ got.mtime = fi.mtime /\ got.extended = fi.extended
  /\ got.mode = [fi.mode EXCEPT !.raw = {}]
  /\ fi.owner # <<>> => got.owner = fi.owner

Errno(err) == IF err.class \in {"errno", "PathError", "LinkError"} THEN err.errno ELSE "none"

\* The classes of error an application can test for, as errors.Is would answer on the server.
SameError(err, got) ==
  /\ got = "nil" <=> (err.class = "nil" \/ (err.class = "fxerr" /\ err.code = FxOk))
  /\ got = "EOF" <=> (err.class = "EOF" \/ (err.class = "fxerr" /\ err.code = FxEOF))
  /\ got = "ErrNotExist" <=> \/ err.class = "ErrNotExist" \/ Errno(err) = "ENOENT"
                             \/ err.class = "fxerr" /\ err.code = FxNoSuchFile
  /\ Errno(err) \in {"EACCES", "EPERM"} /\ err.class # "LinkError" => got = "ErrPermission"
  /\ got = "ErrPermission" => \/ Errno(err) \in {"EACCES", "EPERM"}
                              \/ err.class = "fxerr" /\ err.code = FxPermissionDenied

SameOpen(flags, pflags) ==
  LET os == OsFlags(pflags) IN
    /\ ~ os.failed
    /\ os.access = flags.access /\ os.bits = flags.bits \ {"append"}
    /\ NewFileOpenFlags(pflags) = Accesses[flags.access] \union flags.bits

SameChmod(mode, got) ==
  got = [type |-> {}, special |-> mode.special \union mode.raw, perm |-> mode.perm, raw |-> {}]

\* What a value of the os package means survives the conversion to numbers, the wire and the
\* conversion back: size, mode, times and owner of a file, the class of an error, how a file
\* is opened, and the bits of a Chmod.
MeaningSurvives ==
  (carried # Nothing /\ received # <<>>) =>
    LET p == received[1].p IN
      CASE carried.what = "info"  -> SameInfo(carried.v, FileInfoFromStat(p.attrs))
        [] carried.what = "error" -> SameError(carried.v, NormaliseError(p.code))
        [] carried.what = "open"  -> SameOpen(carried.v, p.pflags)
        [] carried.what = "chmod" -> SameChmod(carried.v, ToFileMode(p.attrs.mode))
=============================================================================
