------------------------------ MODULE MCCodecs ------------------------------
(***************************************************************************)
(* Codecs with a packet of every kind, some of them in two forms, and with *)
(* values of every kind that is converted.                                 *)
(***************************************************************************)
EXTENDS Codecs

SomeAttrs == [NoAttrs EXCEPT !.flags = AttrSize + AttrACmodTime, !.size = <<1, 258>>,
                             !.atime = 300, !.mtime = 2^16 - 1]
AllAttrs  == [flags |-> AttrSize + AttrUIDGID + AttrPermissions + AttrACmodTime + AttrExtended,
              size |-> <<0, 5>>, uid |-> 1, gid |-> 2, mode |-> 33188, atime |-> 3,
              mtime |-> 4, extended |-> <<<<<<6>>, <<>>>>, <<<<7>>, <<8>>>>>>]

Listed(attrs) == [filename |-> <<1>>, longname |-> <<2, 3>>, attrs |-> attrs]

\* Every field once, for the kinds that need nothing more than that.
Fields ==
  [id |-> 258, version |-> 3, extensions |-> <<<<<<5>>, <<6>>>>>>, path |-> <<0, 1>>, pflags |-> 9,
   flags |-> 0, attrs |-> NoAttrs, handle |-> <<4>>, offset |-> <<0, 300>>, len |-> 512,
   data |-> <<1, 0, 2>>, oldpath |-> <<1>>, newpath |-> <<2>>, targetpath |-> <<1>>,
   linkpath |-> <<2>>, code |-> 2, msg |-> <<5>>, lang |-> <<6>>, names |-> <<>>, ext |-> <<>>,
   bsize |-> <<0, 1>>, frsize |-> <<0, 2>>, blocks |-> <<0, 3>>, bfree |-> <<0, 4>>,
   bavail |-> <<0, 5>>, files |-> <<0, 6>>, ffree |-> <<0, 7>>, favail |-> <<0, 8>>,
   fsid |-> <<1, 9>>, flag |-> <<0, 10>>, namemax |-> <<0, 255>>]

Plain == {[kind |-> k, p |-> Fields] : k \in (DOMAIN Sent \union DOMAIN FxLayout) \ DOMAIN ExtName}

Extended == {[kind |-> k, p |-> [Fields EXCEPT !.ext = ExtName[k]]] : k \in DOMAIN ExtName}

WithAttrs ==
  {[kind |-> k, p |-> [Fields EXCEPT !.attrs = SomeAttrs]] : k \in {"open", "attrs"}}
  \union {[kind |-> k, p |-> [Fields EXCEPT !.attrs = AllAttrs]] : k \in {"setstat", "fsetstat"}}
  \union {[kind |-> "mkdir", p |-> [Fields EXCEPT !.flags = AllAttrs.flags, !.attrs = AllAttrs]]}

Lists ==
  {[kind |-> "name", p |-> [Fields EXCEPT !.names = <<Listed(SomeAttrs), Listed(NoAttrs)>>]]}
  \union {[kind |-> k, p |-> [Fields EXCEPT !.extensions = <<>>]] : k \in {"init", "version"}}
  \union {[kind |-> "data", p |-> [Fields EXCEPT !.data = <<>>]]}

MCSamples == Plain \union Extended \union WithAttrs \union Lists

Modes == [type : {ModeType[c] : c \in DOMAIN ModeType},
          special : SUBSET DOMAIN SpecialBit, perm : {0, 420}, raw : {{}}]

Infos ==
  {[size |-> <<0, 7>>, mode |-> m, mtime |-> 500, owner |-> <<>>, extended |-> <<>>] : m \in Modes}
  \union {[size |-> <<2, 7>>, mode |-> m, mtime |-> 2^16 - 1, owner |-> <<3, 4>>, extended |-> x] :
            m \in {n \in Modes : n.type = {}}, x \in {<<>>, <<<<<<1>>, <<2>>>>>>}}

Errors ==
  {[class |-> c] : c \in {"nil", "EOF", "ErrNotExist", "other"}}
  \union [class : {"errno", "PathError", "LinkError"}, errno : {"ENOENT", "EACCES", "EPERM", "EIO"}]
  \union [class : {"fxerr"}, code : 0..8]

Opens  == [access : DOMAIN Accesses, bits : SUBSET {"append", "creat", "trunc", "excl"}]
Chmods == [type : {{}, {"dir"}}, special : SUBSET {"setuid", "sticky"}, perm : {0, 420},
           raw : SUBSET {"setuid", "setgid"}]

MCCarried == [what : {"info"}, v : Infos] \union [what : {"error"}, v : Errors]
             \union [what : {"open"}, v : Opens] \union [what : {"chmod"}, v : Chmods]
=============================================================================
