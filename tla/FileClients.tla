----------------------------- MODULE FileClients -----------------------------
(***************************************************************************)
(* SFTPClient, SmbClient and NfsClient: a connection through a library,    *)
(* whole files with Get, ranges with GetRange, and Quit.  The pool ignores *)
(* the result of Connect, so that transfers are also asked of a client     *)
(* that is not connected.                                                  *)
(*                                                                         *)
(* The libraries are external: a call on a connected context succeeds or   *)
(* fails, one on a context that is null or destroyed is undefined, except  *)
(* where the library checks for null (libssh2's sftp_open, libsmb2's       *)
(* destroy_context).  Failing allocations are left out.                    *)
(***************************************************************************)
EXTENDS Integers

CONSTANTS
  Protocols,  (* subset of {"sftp", "smb", "nfs"}                           *)
  FileSize,   (* bytes of the remote file                                   *)
  MaxCalls    (* bound: transfers asked of a client                         *)

ASSUME FileBounds == Protocols \subseteq {"sftp", "smb", "nfs"} /\ FileSize \in Nat /\ MaxCalls \in Nat

VARIABLES
  proto,
  life,       (* "new", "used", "gone"                                      *)
  sock,       (* SFTP: the socket is open                                   *)
  ctx,        (* session, smb2, nfs: "null", "live" or "destroyed"          *)
  sftp,       (* SFTP: sftp_session is not null                             *)
  connected,
  call, want, got, ret,
  pc, pos,    (* position in the remote file                                *)
  handles,    (* remote files that are open                                 *)
  out,        (* the local file is open                                     *)
  calls,
  lost        (* what was left open on a path that returns early            *)

session == <<sock, ctx, sftp, connected>>
vars == <<proto, life, sock, ctx, sftp, connected, call, want, got, ret, pc, pos, handles, out, calls, lost>>

Init ==
  /\ proto \in Protocols /\ life = "new"
  /\ sock = FALSE /\ ctx = "null" /\ sftp = FALSE /\ connected = FALSE
  /\ call = "none" /\ want = 0 /\ got = 0 /\ ret = 0 /\ pc = "idle" /\ pos = 0
  /\ handles = 0 /\ out = FALSE /\ calls = 0 /\ lost = [handles |-> 0, sock |-> FALSE]

IsConnected == ctx # "null" /\ IF proto = "sftp" THEN sftp ELSE connected

Begin(operation, length) ==
  /\ call = "none" /\ call' = operation /\ want' = length /\ got' = 0

Return(r) == call' = "none" /\ pc' = "idle" /\ ret' = r

-----------------------------------------------------------------------------
(***************************************************************************)
(* Connect, a step to call it and one for how it ends.                     *)
(***************************************************************************)
CallConnect ==
  /\ life = "new" /\ Begin("Connect", 0)
  /\ life' = "used" /\ pc' = "connect"
  /\ UNCHANGED <<proto, session, ret, pos, handles, out, calls, lost>>

(* The ways SFTPClient::Connect ends: no address or socket options, no     *)
(* connection, no handshake, no authentication, no SFTP, success.  A       *)
(* server that lets the user in without authentication returns no list.    *)
SftpConnect ==
  /\ pc = "connect" /\ proto = "sftp"
  /\ \/ UNCHANGED <<session, lost>> /\ Return(0)
     \/ sock' = TRUE /\ lost' = [lost EXCEPT !.sock = TRUE] /\ UNCHANGED <<ctx, sftp, connected>> /\ Return(0)
     \/ sock' = TRUE /\ ctx' = "live" /\ UNCHANGED <<sftp, connected, lost>> /\ Return(0)
     \/ sock' = TRUE /\ ctx' = "live" /\ UNCHANGED <<sftp, connected, lost, call, ret>> /\ pc' = "undefined"
     \/ /\ sock' = TRUE /\ ctx' = "live" /\ sftp' \in BOOLEAN /\ connected' = TRUE
        /\ UNCHANGED lost /\ Return(1)
  /\ UNCHANGED <<proto, life, want, got, pos, handles, out, calls>>

(* The context stays when the url is bad or the share cannot be connected. *)
SmbConnect ==
  /\ pc = "connect" /\ proto = "smb"
  /\ ctx' = "live"
  /\ \/ connected' = FALSE /\ Return(0)
     \/ connected' = TRUE /\ Return(1)
  /\ UNCHANGED <<proto, life, sock, sftp, want, got, pos, handles, out, calls, lost>>

(* A bad url destroys the context and keeps the pointer.                   *)
NfsConnect ==
  /\ pc = "connect" /\ proto = "nfs"
  /\ \/ ctx' = "destroyed" /\ connected' = FALSE /\ Return(0)
     \/ ctx' = "null" /\ connected' = FALSE /\ Return(0)
     \/ ctx' = "live" /\ connected' = TRUE /\ Return(1)
  /\ UNCHANGED <<proto, life, sock, sftp, want, got, pos, handles, out, calls, lost>>

-----------------------------------------------------------------------------
(***************************************************************************)
(* Get from an offset and GetRange.                                        *)
(***************************************************************************)
LeftFrom(offset) == IF offset < FileSize THEN FileSize - offset ELSE 0

Transfer(operation, offset, length) ==
  /\ life = "used" /\ calls < MaxCalls /\ calls' = calls + 1
  /\ Begin(operation, length) /\ pos' = offset /\ pc' = "open"
  /\ UNCHANGED <<proto, life, session, ret, handles, out, lost>>

Get == \E offset \in 0..(FileSize + 1) : Transfer("Get", offset, LeftFrom(offset))
GetRange == \E offset \in 0..FileSize, size \in 0..(FileSize + 1) : Transfer("GetRange", offset, size)

(* What a client needs to open a file, and whether the lack of it is       *)
(* noticed: by libssh2 in SFTP, by GetRange in SMB, by nobody in NFS.      *)
SftpFile == [usable |-> ctx = "live" /\ sftp, checked |-> TRUE]
SmbFile == [usable |-> ctx = "live", checked |-> call = "GetRange" /\ ctx = "null"]
NfsFile == [usable |-> ctx = "live", checked |-> FALSE]
File == CASE proto = "sftp" -> SftpFile [] proto = "smb" -> SmbFile [] proto = "nfs" -> NfsFile

Open ==
  /\ pc = "open"
  /\ \/ /\ File.usable /\ connected
        /\ handles' = handles + 1 /\ pc' = (IF call = "Get" THEN "create" ELSE "read")
        /\ UNCHANGED <<call, ret>>
     \/ (File.usable \/ File.checked) /\ Return(0) /\ UNCHANGED handles
     \/ ~File.usable /\ ~File.checked /\ pc' = "undefined" /\ UNCHANGED <<call, ret, handles>>
  /\ UNCHANGED <<proto, life, session, want, got, pos, out, calls, lost>>

(* The local file: when it cannot be opened the remote one stays open.     *)
Create ==
  /\ pc = "create"
  /\ \/ out' = TRUE /\ pc' = "read" /\ UNCHANGED <<call, ret, lost>>
     \/ Return(0) /\ lost' = [lost EXCEPT !.handles = @ + 1] /\ UNCHANGED out
  /\ UNCHANGED <<proto, life, session, want, got, pos, handles, calls>>

\* Fault: the remote file is not closed.
FinishOpen(r) == Return(r) /\ out' = FALSE /\ handles' = handles
Finish(r) == Return(r) /\ out' = FALSE /\ handles' = handles - 1

Wanted == IF call = "Get" THEN LeftFrom(pos) ELSE want - got
Readable == IF Wanted < LeftFrom(pos) THEN Wanted ELSE LeftFrom(pos)

(* A read brings some bytes; the sink of a range may refuse them.          *)
Read ==
  /\ pc = "read" /\ Readable > 0
  /\ \/ \E n \in 1..Readable :
          got' = got + n /\ pos' = pos + n /\ UNCHANGED <<call, ret, pc, out, handles>>
     \/ call = "GetRange" /\ Finish(0) /\ UNCHANGED <<got, pos>>
  /\ UNCHANGED <<proto, life, session, want, calls, lost>>

(* Nothing more is read: Get is done, a range only with all of it.         *)
\* Fault: the end of the file is a success for a range too.
EndOfFileIsDone == 1
AtEnd == IF call = "Get" \/ Wanted = 0 THEN 1 ELSE 0

ReadNothing ==
  /\ pc = "read" /\ Readable = 0
  /\ Finish(AtEnd)
  /\ UNCHANGED <<proto, life, session, want, got, pos, calls, lost>>

(* A read or the seek before it fails.                                     *)
ReadFails ==
  /\ pc = "read" /\ (call = "GetRange" => Wanted > 0 \/ proto = "nfs")
  /\ Finish(0)
  /\ UNCHANGED <<proto, life, session, want, got, pos, calls, lost>>

-----------------------------------------------------------------------------
CallQuit ==
  /\ life = "used" /\ Begin("Quit", 0)
  /\ life' = "gone" /\ pc' = "quit"
  /\ UNCHANGED <<proto, session, ret, pos, handles, out, calls, lost>>

SftpQuit ==
  /\ pc = "quit" /\ proto = "sftp"
  /\ ctx' = "null" /\ sftp' = FALSE /\ sock' = (sock /\ ctx = "null")
  /\ Return(1)
  /\ UNCHANGED <<proto, life, connected, want, got, pos, handles, out, calls, lost>>

SmbQuit ==
  /\ pc = "quit" /\ proto = "smb"
  /\ ctx' = "null" /\ connected' = FALSE
  /\ Return(1)
  /\ UNCHANGED <<proto, life, sock, sftp, want, got, pos, handles, out, calls, lost>>

(* A context that Connect destroyed is destroyed again.                    *)
NfsQuit ==
  /\ pc = "quit" /\ proto = "nfs"
  /\ \/ ctx = "destroyed" /\ pc' = "undefined" /\ UNCHANGED <<ctx, connected, call, ret>>
     \/ ctx # "destroyed" /\ ctx' = "null" /\ connected' = FALSE /\ Return(1)
  /\ UNCHANGED <<proto, life, sock, sftp, want, got, pos, handles, out, calls, lost>>

-----------------------------------------------------------------------------
Next ==
  \/ CallConnect \/ SftpConnect \/ SmbConnect \/ NfsConnect
  \/ Get \/ GetRange \/ Open \/ Create \/ Read \/ ReadNothing \/ ReadFails
  \/ CallQuit \/ SftpQuit \/ SmbQuit \/ NfsQuit
Spec == Init /\ [][Next]_vars

-----------------------------------------------------------------------------
(***************************************************************************)
(* The three clients implement RemoteClient, and for both transfers        *)
(* success means the whole length: Get from the offset to the end of the   *)
(* file, GetRange the size asked for, with short reads, a range past the   *)
(* end of the file and a sink that refuses (sftpclient.cpp:190-314,        *)
(* smbclient.cpp:90-251, nfsclient.cpp:92-224).                            *)
(***************************************************************************)
Interface == INSTANCE RemoteClient WITH Wants <- 0..(FileSize + 1), Exact <- {"Get", "GetRange"},
                                        connected <- IsConnected
ImplementsRemoteClient == Interface!Spec

(***************************************************************************)
(* Between operations no file is open, remote or local, and after Quit no  *)
(* socket, apart from the two early returns that leave one: a Get that     *)
(* cannot open its output (sftpclient.cpp:209, smbclient.cpp:112,          *)
(* nfsclient.cpp:113) and an SFTP server that refuses the connection       *)
(* (sftpclient.cpp:87).                                                    *)
(***************************************************************************)
NothingLeftOpen ==
  /\ pc = "idle" => handles = lost.handles /\ ~out
  /\ pc = "idle" /\ life = "gone" => ctx = "null" /\ (sock => lost.sock)
=============================================================================
