----------------------------- MODULE Attributes -----------------------------
(***************************************************************************)
(* What the values on the wire mean: file modes, file information, errors  *)
(* and open flags of Go's os package to the numbers of the protocol and    *)
(* back (stat.go, attrs.go, errno_posix.go, request-attrs.go, and the      *)
(* conversions of client.go and server.go).                                *)
(*                                                                         *)
(* An os.FileMode is a record: its type bits as a set of names, its        *)
(* permissions, and its special bits by name.  "raw" are the special bits  *)
(* an application gave in their POSIX places, which only Chmod looks at.   *)
(* An error is its class and, for the classes that wrap one, its errno.    *)
(***************************************************************************)
EXTENDS Wire, TLC

-----------------------------------------------------------------------------
(* Modes.  The upper four bits of the sixteen are the type.                *)

ModeType ==
  [c \in {1, 2, 4, 6, 8, 10, 12} |->
     CASE c = 1 -> {"pipe"} [] c = 2 -> {"device", "chardevice"} [] c = 4 -> {"dir"}
       [] c = 6 -> {"device"} [] c = 8 -> {} [] c = 10 -> {"symlink"} [] c = 12 -> {"socket"}]

SpecialBit == [setuid |-> 2048, setgid |-> 1024, sticky |-> 512]

SpecialBits(names) == FoldLeft(LAMBDA n, b : IF b \in names THEN n + SpecialBit[b] ELSE n, 0,
                               <<"setuid", "setgid", "sticky">>)

ToFileMode(mode) ==
  [type    |-> IF mode \div 4096 \in DOMAIN ModeType THEN ModeType[mode \div 4096] ELSE {},
   special |-> {b \in DOMAIN SpecialBit : HasFlag(mode, SpecialBit[b])},
   perm    |-> mode % 512, raw |-> {}]

FileModes == [type : {ModeType[c] : c \in DOMAIN ModeType}, special : SUBSET DOMAIN SpecialBit,
              perm : 0..511, raw : SUBSET DOMAIN SpecialBit]

\* A combination of type bits that the protocol has no code for gets none.
TypeCode(type) ==
  IF \E c \in DOMAIN ModeType : ModeType[c] = type
  THEN CHOOSE c \in DOMAIN ModeType : ModeType[c] = type ELSE 0

\* Mutant: the special bits are left out.
FromFileModePlain(m) == TypeCode(m.type) * 4096 + m.perm

FromFileMode(m) == TypeCode(m.type) * 4096 + SpecialBits(m.special) + m.perm

\* For Chmod: no type, and special bits in either of their places.
ToChmodPerm(m) == SpecialBits(m.special \union m.raw) + m.perm

-----------------------------------------------------------------------------
(* File information.                                                       *)

FileInfos == [size : Uint32 \X Uint32, mode : FileModes, mtime : Uint32,
              owner : {<<>>} \union (Uint32 \X Uint32), extended : Counted(Pairs)]

\* The operating system gives no access time through os.FileInfo.
FileStatFromInfo(fi) ==
  LET flags == AttrSize + AttrPermissions + AttrACmodTime
               + (IF fi.owner # <<>> THEN AttrUIDGID ELSE 0)
               + (IF fi.extended # <<>> THEN AttrExtended ELSE 0)
      mtime == fi.mtime % Base^WordLen IN
    [NoAttrs EXCEPT !.flags = flags, !.size = fi.size, !.mode = FromFileMode(fi.mode),
                    !.mtime = mtime, !.atime = mtime,
                    !.uid = IF fi.owner # <<>> THEN fi.owner[1] ELSE 0,
                    !.gid = IF fi.owner # <<>> THEN fi.owner[2] ELSE 0,
                    !.extended = fi.extended]

\* What the application of the client sees of a FileStat.
FileInfoFromStat(fs) ==
  [size |-> fs.size, mode |-> ToFileMode(fs.mode), mtime |-> fs.mtime,
   owner |-> <<fs.uid, fs.gid>>, extended |-> fs.extended]

-----------------------------------------------------------------------------
(* Errors.                                                                 *)

FxOk == 0
FxEOF == 1
FxNoSuchFile == 2
FxPermissionDenied == 3
FxFailure == 4

\* Errors a handler may return; the errno 0 is none.
OsErrors == [class : {"nil", "EOF", "ErrNotExist", "other"}]
            \union [class : {"errno", "PathError", "LinkError"}, errno : STRING \ {"0"}]
            \union [class : {"fxerr"}, code : Uint32]

TranslateErrno(errno) ==
  CASE errno = "0" -> FxOk
    [] errno = "ENOENT" -> FxNoSuchFile
    [] errno \in {"EACCES", "EPERM"} -> FxPermissionDenied
    [] OTHER -> FxFailure

\* os.IsNotExist looks into PathError and LinkError; translateSyscallError into PathError only.
IsNotExist(err) ==
  \/ err.class = "ErrNotExist"
  \/ /\ err.class \in {"errno", "PathError", "LinkError"}
     /\ err.errno = "ENOENT"

StatusFromError(err) ==
  CASE err.class = "nil" -> FxOk
    [] err.class # "nil" /\ IsNotExist(err) -> FxNoSuchFile
    [] err.class \in {"errno", "PathError"} /\ ~ IsNotExist(err) -> TranslateErrno(err.errno)
    [] err.class = "EOF" -> FxEOF
    [] err.class = "fxerr" -> err.code
    [] OTHER -> FxFailure

\* The errors of the standard library that the client gives back, or the code itself.
NormaliseError(code) ==
  CASE code = FxOk -> "nil"
    [] code = FxEOF -> "EOF"
    [] code = FxNoSuchFile -> "ErrNotExist"
    [] code = FxPermissionDenied -> "ErrPermission"
    [] OTHER -> "StatusError"

-----------------------------------------------------------------------------
(* Open flags.                                                             *)

PFlag == [read |-> 1, write |-> 2, append |-> 4, creat |-> 8, trunc |-> 16, excl |-> 32]

\* The flags of os.OpenFile: how the file is accessed, and the other bits.
Accesses == [rdonly |-> {"read"}, wronly |-> {"write"}, rdwr |-> {"read", "write"}]

OpenFlags == [access : DOMAIN Accesses, bits : SUBSET {"append", "creat", "trunc", "excl"}]

ToPflags(access, bits) ==
  FoldLeft(LAMBDA n, f : IF f \in Accesses[access] \union bits THEN n + PFlag[f] ELSE n, 0,
           <<"read", "write", "append", "creat", "trunc", "excl">>)

\* What a RequestServer shows its handlers.
NewFileOpenFlags(pflags) == {f \in DOMAIN PFlag : HasFlag(pflags, PFlag[f])}

\* What a Server opens the file with: append is left out, the client sends the offsets.
OsFlags(pflags) ==
  LET flags == NewFileOpenFlags(pflags)
      access == {a \in DOMAIN Accesses : Accesses[a] = flags \intersect {"read", "write"}} IN
    IF access = {} THEN [failed |-> TRUE]
    ELSE [failed |-> FALSE, access |-> CHOOSE a \in access : TRUE,
          bits |-> flags \intersect {"creat", "trunc", "excl"}]
=============================================================================
