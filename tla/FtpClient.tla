------------------------------ MODULE FtpClient ------------------------------
(***************************************************************************)
(* An FTP session of FtpClient: the control connection with its replies,   *)
(* the passive data connection, and the operations that use them, the way  *)
(* the server uses a client: Connect once, whatever it returns, then       *)
(* transfers and commands until one fails, then Quit.                      *)
(*                                                                         *)
(* The peer, an FTP server, is external.  It answers each command with one *)
(* reply of one or two lines; it may refuse any command, and close the     *)
(* control connection at any time.  A line is the class of its code (its   *)
(* first digit), the command it answers, and whether it is the last of its *)
(* reply ("226 " against "226-").                                          *)
(***************************************************************************)
EXTENDS Integers, Sequences

CONSTANTS
  FileSize,    (* blocks of the remote file                                *)
  Offsets,     (* offsets asked for                                        *)
  Sizes,       (* sizes of ranges asked for                                *)
  MaxOps       (* bound: operations of a session                           *)

ASSUME FtpBounds ==
  /\ FileSize \in Nat \ {0} /\ MaxOps \in Nat \ {0}
  /\ Offsets \subseteq 0..FileSize /\ Sizes \subseteq Nat \ {0}

VARIABLES
  handle, is_connected, offset,   (* mp_ftphandle: socket open, logged in, REST offset *)
  response,    (* class of the last line in mp_ftphandle->response, 0 for none *)
  pc,          (* where the operation is: "idle", a command whose reply is awaited, ... *)
  op,          (* the operation: name, offset, size, and commands still to send *)
  got,         (* blocks it has delivered to the file or the sink              *)
  short,       (* a write to the file was cut short                            *)
  result,      (* what it returned, "none" before the first return             *)
  ops,         (* operations started                                           *)
  data,        (* the data connection: "closed", "open", "reset"               *)
  leaked,      (* data sockets nobody will close                               *)
  owed,        (* peer: commands not answered yet                              *)
  inbox,       (* peer: lines sent and not read                                *)
  down,        (* peer: control connection closed                              *)
  logged,      (* peer: login accepted                                         *)
  marker,      (* peer: restart marker set by REST                             *)
  pos,         (* peer: next block of the transfer, 0 when there is none       *)
  pipe         (* blocks sent on the data connection and not read              *)

client == <<handle, is_connected, offset, response>>
progress == <<op, got, short, result, ops>>
peer == <<owed, inbox, down, logged, marker, pos, pipe>>
vars == <<handle, is_connected, offset, response, pc, op, got, short, result, ops, data, leaked,
          owed, inbox, down, logged, marker, pos, pipe>>

NoOp == [name |-> "none", offset |-> 0, size |-> 0, todo |-> <<>>]

ClearHandle == handle = FALSE /\ is_connected = FALSE /\ offset = 0 /\ response = 0

Init ==
  /\ ClearHandle
  /\ pc = "idle" /\ op = NoOp /\ got = <<>> /\ short = FALSE
  /\ result = "none" /\ ops = 0 /\ data = "closed" /\ leaked = 0
  /\ owed = <<>> /\ inbox = <<>> /\ down = FALSE
  /\ logged = FALSE /\ marker = 0 /\ pos = 0 /\ pipe = <<>>

-----------------------------------------------------------------------------
(***************************************************************************)
(* The peer.  What it may answer a command with, as classes of replies.    *)
(***************************************************************************)
Line(class, cmd, last) == [class |-> class, to |-> cmd, last |-> last]
Replies(class, cmd) ==
  {<<Line(class, cmd, TRUE)>>, <<Line(class, cmd, FALSE), Line(class, cmd, TRUE)>>}

Accepts(cmd) ==
  CASE cmd = "RETR" -> 1
    [] cmd \in {"REST", "RNFR"} -> 3
    [] OTHER -> 2

(* A server takes a user without asking for a password, or asks for one.   *)
PeerAnswers ==
  /\ owed # <<>> /\ ~down
  /\ LET cmd == Head(owed) IN
     \E class \in {Accepts(cmd), 5} \cup (IF cmd = "USER" THEN {3} ELSE {}) :
       /\ \E lines \in Replies(class, cmd) : inbox' = inbox \o lines
       /\ logged' = (logged \/ (cmd \in {"USER", "PASS"} /\ class = 2))
       /\ marker' = CASE cmd = "REST" /\ class = 3 -> op.offset
                      [] cmd = "RETR" -> 0
                      [] OTHER -> marker
       /\ pos' = IF cmd = "RETR" /\ class = 1 THEN marker + 1 ELSE pos
  /\ owed' = Tail(owed)
  /\ UNCHANGED <<client, pc, progress, data, leaked, down, pipe>>

(* The file is sent block by block while the client keeps the connection.  *)
PeerSends ==
  /\ pos \in 1..FileSize /\ data = "open" /\ ~down
  /\ pipe' = Append(pipe, pos) /\ pos' = pos + 1
  /\ UNCHANGED <<client, pc, progress, data, leaked, owed, inbox, down, logged, marker>>

(* The end of a transfer is one more reply: 2 when everything was sent, 4  *)
(* after a failure; when the client has closed the data connection before  *)
(* the end the peer may have noticed or not.                               *)
PeerEndsTransfer ==
  /\ pos > 0 /\ ~down /\ pc # "connect"
  /\ \/ pos > FileSize /\ inbox' = Append(inbox, Line(2, "transfer", TRUE))
     \/ pos <= FileSize /\ data = "closed"
        /\ \E class \in {2, 4} : inbox' = Append(inbox, Line(class, "transfer", TRUE))
     \/ pos <= FileSize /\ data # "closed" /\ inbox' = Append(inbox, Line(4, "transfer", TRUE))
  /\ pos' = 0
  /\ UNCHANGED <<client, pc, progress, data, leaked, owed, down, logged, marker, pipe>>

PeerCloses ==
  /\ handle /\ ~down
  /\ down' = TRUE /\ owed' = <<>> /\ pos' = 0
  /\ UNCHANGED <<client, pc, progress, data, leaked, inbox, logged, marker, pipe>>

(* The data connection breaks, and what was under way on it is lost.       *)
DataReset ==
  /\ data = "open"
  /\ data' = "reset" /\ pipe' = <<>>
  /\ UNCHANGED <<client, pc, progress, leaked, owed, inbox, down, logged, marker, pos>>

-----------------------------------------------------------------------------
(***************************************************************************)
(* ReadResponse: lines are read up to the last one of a reply.  At the end *)
(* of the connection nothing is read, response keeps what it held and the  *)
(* class of the reply is 0.                                                *)
(***************************************************************************)
LastLines == {n \in DOMAIN inbox : inbox[n].last}
Readable == LastLines # {} \/ down
ReplyEnd == IF LastLines = {} THEN Len(inbox) ELSE CHOOSE m \in LastLines : \A k \in LastLines : m <= k
Class == IF LastLines = {} THEN 0 ELSE inbox[ReplyEnd].class

ReadResponse ==
  /\ Readable
  /\ response' = IF LastLines # {} THEN Class ELSE response
  /\ inbox' = SubSeq(inbox, ReplyEnd + 1, Len(inbox))

(* FtpSendCmd up to its wait.  Without a socket it fails at once: nothing  *)
(* is sent, and the wait label is never reached.                           *)
Send(cmd) == owed' = IF down THEN owed ELSE Append(owed, cmd)
FtpSendCmd(cmd) == handle /\ Send(cmd) /\ pc' = cmd

(* The operation returns.                                                  *)
Return(ok) == pc' = "idle" /\ result' = IF ok THEN "ok" ELSE "failed"

(* The first command of the next operation, or its failure.                *)
Start(name, off, size, todo, first) ==
  /\ pc = "idle" /\ ops < MaxOps
  /\ ops' = ops + 1
  /\ op' = [name |-> name, offset |-> off, size |-> size, todo |-> todo]
  /\ got' = <<>> /\ short' = FALSE
  /\ \/ FtpSendCmd(first) /\ UNCHANGED result
     \/ ~handle /\ Return(FALSE) /\ UNCHANGED owed
  /\ UNCHANGED <<handle, is_connected, response, data, leaked, inbox, down, logged, marker, pos, pipe>>

-----------------------------------------------------------------------------
(***************************************************************************)
(* Connect: the greeting, USER, and PASS if it is asked for.  A failed     *)
(* login ends in Quit.  The reply to USER is judged by response, which     *)
(* still holds the greeting when the connection has ended.                 *)
(***************************************************************************)
Connect ==
  /\ pc = "idle" /\ ops = 0
  /\ ops' = 1 /\ op' = [NoOp EXCEPT !.name = "Connect"]
  /\ \/ Return(FALSE) /\ UNCHANGED <<handle, owed>>
     \/ handle' = TRUE /\ owed' = <<"greeting">> /\ pc' = "greeting" /\ UNCHANGED result
  /\ offset' = 0 /\ response' = 0
  /\ UNCHANGED <<is_connected, got, short, data, leaked, inbox, down, logged, marker, pos, pipe>>

Greeted ==
  /\ pc = "greeting"
  /\ ReadResponse
  /\ IF Class = 2
     THEN Send("USER") /\ pc' = "USER" /\ UNCHANGED <<handle, result>>
     ELSE handle' = FALSE /\ Return(FALSE) /\ UNCHANGED owed
  /\ UNCHANGED <<is_connected, offset, op, got, short, ops, data, leaked, down, logged, marker, pos, pipe>>

\* Fault: PASS is not sent, any answer to USER will do.
LoginAssumed ==
  /\ pc = "USER"
  /\ ReadResponse
  /\ is_connected' = TRUE /\ Return(TRUE) /\ UNCHANGED owed
  /\ UNCHANGED <<handle, offset, op, got, short, ops, data, leaked, down, logged, marker, pos, pipe>>

UserAnswered ==
  /\ pc = "USER"
  /\ ReadResponse
  /\ IF Class = 3 THEN Send("PASS") /\ pc' = "PASS" /\ UNCHANGED <<is_connected, result>>
     ELSE IF response' = 2 THEN is_connected' = TRUE /\ Return(TRUE) /\ UNCHANGED owed
     ELSE Send("QUIT") /\ pc' = "QUIT" /\ UNCHANGED <<is_connected, result>>
  /\ UNCHANGED <<handle, offset, op, got, short, ops, data, leaked, down, logged, marker, pos, pipe>>

PassAnswered ==
  /\ pc = "PASS"
  /\ ReadResponse
  /\ IF Class = 2 THEN is_connected' = TRUE /\ Return(TRUE) /\ UNCHANGED owed
     ELSE Send("QUIT") /\ pc' = "QUIT" /\ UNCHANGED <<is_connected, result>>
  /\ UNCHANGED <<handle, offset, op, got, short, ops, data, leaked, down, logged, marker, pos, pipe>>

(***************************************************************************)
(* Quit, for a client that failed or is given up.  Its reply is read but   *)
(* not judged.  As the end of a failed Connect it makes that return 0.     *)
(***************************************************************************)
Quit ==
  /\ pc = "idle" /\ handle
  /\ op' = [NoOp EXCEPT !.name = "Quit"]
  /\ FtpSendCmd("QUIT")
  /\ UNCHANGED <<client, got, short, result, ops, data, leaked, inbox, down, logged, marker, pos, pipe>>

QuitAnswered ==
  /\ pc = "QUIT"
  /\ ReadResponse
  /\ handle' = FALSE /\ is_connected' = FALSE
  /\ Return(op.name = "Quit")
  /\ UNCHANGED <<offset, op, got, short, ops, data, leaked, owed, down, logged, marker, pos, pipe>>

-----------------------------------------------------------------------------
(* A client is used on after Connect, and after operations that succeeded. *)
Usable == op.name = "Connect" \/ (op.name # "Quit" /\ result = "ok")

(***************************************************************************)
(* The operations that are one command after the other, as sequences of    *)
(* <<command, classes that are a success>>.  Site, Raw, SysType, Mkdir,    *)
(* Chdir, Cdup and Rmdir differ in their command only.                     *)
(***************************************************************************)
OneCommand == << <<"MKD", {2}>> >>
Noop == << <<"NOOP", {2, 5}>> >>
SizeOf == << <<"TYPE", {2}>>, <<"SIZE", {2}>> >>
Rename == << <<"RNFR", {3}>>, <<"RNTO", {2}>> >>
Delete == << <<"DELE", {2}>> >>
Commands == {OneCommand, Noop, SizeOf, Rename, Delete}

Command ==
  /\ Usable
  /\ \E c \in Commands : Start("Command", 0, 0, c, c[1][1])
  /\ UNCHANGED offset

CommandAnswered ==
  /\ op.name = "Command" /\ op.todo # <<>> /\ pc = op.todo[1][1]
  /\ ReadResponse
  /\ IF Class \notin op.todo[1][2] \/ Len(op.todo) = 1
     THEN Return(Class \in op.todo[1][2]) /\ UNCHANGED <<owed, op>>
     ELSE /\ op' = [op EXCEPT !.todo = Tail(@)]
          /\ Send(op.todo[2][1]) /\ pc' = op.todo[2][1] /\ UNCHANGED result
  /\ UNCHANGED <<handle, is_connected, offset, got, short, ops, data, leaked, down, logged, marker, pos, pipe>>

(***************************************************************************)
(* Get and GetRange set the offset and open the data connection with       *)
(* FtpAccess: TYPE, then in FtpOpenPasv PASV, REST if there is an offset,  *)
(* and RETR, whose reply is read after the data connection is open.        *)
(***************************************************************************)
Get(off) ==
  /\ Usable /\ Start("Get", off, FileSize, <<>>, "TYPE")
  /\ offset' = off

GetRange(off, size) ==
  /\ Usable /\ Start("GetRange", off, size, <<>>, "TYPE")
  /\ offset' = off

TypeAnswered ==
  /\ pc = "TYPE" /\ op.name \in {"Get", "GetRange"}
  /\ ReadResponse
  /\ IF Class = 2 THEN Send("PASV") /\ pc' = "PASV" /\ UNCHANGED result
     ELSE Return(FALSE) /\ UNCHANGED owed
  /\ UNCHANGED <<handle, is_connected, offset, op, got, short, ops, data, leaked, down, logged, marker, pos, pipe>>

(* A positive reply may still hold no address.                             *)
PasvAnswered ==
  /\ pc = "PASV"
  /\ ReadResponse
  /\ \/ Class = 2 /\ offset # 0 /\ Send("REST") /\ pc' = "REST" /\ UNCHANGED result
     \/ Class = 2 /\ offset = 0 /\ pc' = "socket" /\ UNCHANGED <<owed, result>>
     \/ Return(FALSE) /\ UNCHANGED owed
  /\ UNCHANGED <<handle, is_connected, offset, op, got, short, ops, data, leaked, down, logged, marker, pos, pipe>>

\* Fault: a refused REST is ignored, and the transfer starts at the beginning.
RestIgnored ==
  /\ pc = "REST"
  /\ ReadResponse
  /\ pc' = "socket"
  /\ UNCHANGED <<handle, is_connected, offset, progress, data, leaked, owed, down, logged, marker, pos, pipe>>

(* When REST is refused FtpOpenPasv returns 0, which FtpAccess takes for a *)
(* success: the operation goes on with a data handle that was never set.   *)
(* "undefined" stands for whatever that does.                              *)
RestAnswered ==
  /\ pc = "REST"
  /\ ReadResponse
  /\ pc' = IF Class = 3 THEN "socket" ELSE "undefined"
  /\ UNCHANGED <<handle, is_connected, offset, progress, data, leaked, owed, down, logged, marker, pos, pipe>>

(* The data socket is made and RETR sent; after a failed send the socket   *)
(* is left open.                                                           *)
SendRetr ==
  /\ pc = "socket"
  /\ \/ Return(FALSE) /\ UNCHANGED <<owed, leaked>>
     \/ Send("RETR") /\ pc' = "connect" /\ UNCHANGED <<result, leaked>>
     \/ down /\ Return(FALSE) /\ leaked' = leaked + 1 /\ UNCHANGED owed
  /\ UNCHANGED <<client, op, got, short, ops, data, inbox, down, logged, marker, pos, pipe>>

(* When the data connection cannot be opened, RETR's reply stays unread.   *)
ConnectData ==
  /\ pc = "connect"
  /\ \/ data' = "open" /\ pc' = "RETR" /\ UNCHANGED result
     \/ Return(FALSE) /\ UNCHANGED data
  /\ UNCHANGED <<client, op, got, short, ops, leaked, peer>>

\* Fault: a refused RETR is not noticed.
RetrRefusalIgnored ==
  /\ pc = "RETR"
  /\ ReadResponse
  /\ pc' = "read"
  /\ UNCHANGED <<handle, is_connected, offset, progress, data, leaked, owed, down, logged, marker, pos, pipe>>

RetrAnswered ==
  /\ pc = "RETR"
  /\ ReadResponse
  /\ IF Class = 1 THEN pc' = "read" /\ UNCHANGED <<result, data, pipe>>
     ELSE Return(FALSE) /\ data' = "closed" /\ pipe' = <<>>
  /\ UNCHANGED <<handle, is_connected, offset, op, got, short, ops, leaked, owed, down, logged, marker, pos>>

-----------------------------------------------------------------------------
(***************************************************************************)
(* The transfer loops.  FtpRead returns what has arrived, and 0 at the end *)
(* and after an error alike.  Get reads until then; GetRange until it has  *)
(* what it was asked for.  A write to the file may be cut short unnoticed; *)
(* one that fails, or a sink that refuses, ends the loop.                  *)
(***************************************************************************)
Wanted == IF op.name = "Get" THEN FileSize + 1 ELSE op.size - Len(got)

FtpRead ==
  /\ pc = "read" /\ pipe # <<>> /\ Wanted > 0
  /\ got' = Append(got, Head(pipe)) /\ pipe' = Tail(pipe)
  /\ UNCHANGED <<client, pc, op, short, result, ops, data, leaked, owed, inbox, down, logged, marker, pos>>

WriteCutShort ==
  /\ pc = "read" /\ pipe # <<>> /\ op.name = "Get"
  /\ pipe' = Tail(pipe) /\ short' = TRUE
  /\ UNCHANGED <<client, pc, op, got, result, ops, data, leaked, owed, inbox, down, logged, marker, pos>>

(* FtpClose closes the data connection, then awaits the transfer's reply.  *)
CloseData == data' = "closed" /\ pipe' = <<>> /\ pc' = "transfer"

EndOfData == pipe = <<>> /\ (data = "reset" \/ pos = 0)

LoopEnds ==
  /\ pc = "read"
  /\ EndOfData \/ Wanted = 0
  /\ CloseData
  /\ UNCHANGED <<client, op, got, short, result, ops, leaked, owed, inbox, down, logged, marker, pos>>

(* fwrite fails: Get goes on to FtpClose, and returns what that returns.   *)
(* The sink refuses: GetRange returns 0 whatever FtpClose says.            *)
WriteFails ==
  /\ pc = "read" /\ pipe # <<>> /\ Wanted > 0
  /\ CloseData
  /\ op' = [op EXCEPT !.name = IF @ = "GetRange" THEN "Refused" ELSE @]
  /\ short' = TRUE
  /\ UNCHANGED <<client, got, result, ops, leaked, owed, inbox, down, logged, marker, pos>>

\* Fault: FtpClose does not read the transfer's reply.
TransferNotAwaited ==
  /\ pc = "transfer"
  /\ Return(op.name = "Get" \/ (op.name = "GetRange" /\ Len(got) = op.size))
  /\ offset' = 0
  /\ UNCHANGED <<handle, is_connected, response, op, got, short, ops, data, leaked, peer>>

\* Fault: GetRange does not compare what it was given with what it asked for.
TransferUncounted ==
  /\ pc = "transfer"
  /\ ReadResponse
  /\ Return(Class = 2 /\ op.name \in {"Get", "GetRange"})
  /\ offset' = IF op.name = "Get" THEN offset ELSE 0
  /\ UNCHANGED <<handle, is_connected, op, got, short, ops, data, leaked, owed, down, logged, marker, pos, pipe>>

TransferAnswered ==
  /\ pc = "transfer"
  /\ ReadResponse
  /\ Return(Class = 2 /\ (op.name = "Get" \/ (op.name = "GetRange" /\ Len(got) = op.size)))
  /\ offset' = IF op.name = "Get" THEN offset ELSE 0
  /\ UNCHANGED <<handle, is_connected, op, got, short, ops, data, leaked, owed, down, logged, marker, pos, pipe>>

-----------------------------------------------------------------------------
Peer == PeerAnswers \/ PeerSends \/ PeerEndsTransfer

Running ==
  \/ Greeted \/ UserAnswered \/ PassAnswered \/ QuitAnswered \/ CommandAnswered
  \/ TypeAnswered \/ PasvAnswered \/ RestAnswered \/ SendRetr \/ ConnectData \/ RetrAnswered
  \/ FtpRead \/ WriteCutShort \/ LoopEnds \/ WriteFails \/ TransferAnswered

Next ==
  \/ Connect \/ Command \/ Quit
  \/ \E off \in Offsets : Get(off) \/ \E size \in Sizes : GetRange(off, size)
  \/ Running
  \/ Peer \/ PeerCloses \/ DataReset

(* The client's thread runs, and the peer answers: the client itself has   *)
(* no timeout.                                                             *)
Spec == Init /\ [][Next]_vars /\ WF_vars(Running) /\ WF_vars(PeerAnswers) /\ WF_vars(PeerSends)
             /\ WF_vars(PeerEndsTransfer)

-----------------------------------------------------------------------------
Awaiting == {"greeting", "USER", "PASS", "QUIT", "TYPE", "PASV", "REST", "RETR", "transfer"}
            \cup UNION {{c[n][1] : n \in DOMAIN c} : c \in Commands}
Lines == [class : 1..5, to : Awaiting, last : BOOLEAN]

(* The types of the client's and the peer's state.  A REST offset never    *)
(* lies behind the end of the file.                                        *)
TypeOK ==
  /\ handle \in BOOLEAN /\ is_connected \in BOOLEAN
  /\ offset \in 0..FileSize /\ response \in 0..5
  /\ pc \in Awaiting \cup {"idle", "socket", "connect", "read", "undefined"}
  /\ got \in Seq(1..FileSize) /\ short \in BOOLEAN
  /\ result \in {"none", "ok", "failed"} /\ ops \in 0..MaxOps
  /\ data \in {"closed", "open", "reset"} /\ leaked \in Nat
  /\ owed \in Seq(Awaiting) /\ inbox \in Seq(Lines)
  /\ down \in BOOLEAN /\ logged \in BOOLEAN
  /\ marker \in 0..FileSize /\ pos \in 0..(FileSize + 1) /\ pipe \in Seq(1..FileSize)

(***************************************************************************)
(* The control connection stays in step: as long as a client is used the   *)
(* way the pool uses it, every reply that decides something is a reply to  *)
(* the command just sent, through refusals, resets, cut transfers and      *)
(* multi-line replies.  Only Quit may read a reply left over from before   *)
(* (ftpclient.cpp:181-233, 584-588, 1016-1017).                            *)
(***************************************************************************)
RepliesInStep == pc \in Awaiting \ {"QUIT"} /\ inbox # <<>> => inbox[1].to = pc

(***************************************************************************)
(* A client that may go back to the pool has nothing under way: no reply   *)
(* is unread or outstanding, no data connection open, no socket lost, and  *)
(* the peer has accepted its login, unless the peer has hung up            *)
(* (http_server.cpp:280-288 with ftpclient.cpp:323-326).                   *)
(***************************************************************************)
PooledIsQuiet ==
  pc = "idle" /\ is_connected /\ result = "ok" /\ ~down =>
    /\ inbox = <<>> /\ owed = <<>> /\ pos = 0
    /\ data = "closed" /\ leaked = 0
    /\ logged

(***************************************************************************)
(* A GetRange that returns 1 has given the sink exactly the blocks asked   *)
(* for, whatever the peer and the network did.  A Get that returns 1 has   *)
(* written the blocks from its offset on, in order and without a gap,      *)
(* unless a write was cut short.  The last ones may be missing: FtpRead    *)
(* takes a broken data connection for the end of the file                  *)
(* (ftpclient.cpp:865, 914-940, 1268-1296).                                *)
(***************************************************************************)
Asked == [n \in 1..op.size |-> op.offset + n]
Sent == [n \in 1..(FileSize - op.offset) |-> op.offset + n]
SuccessIsExact ==
  pc = "idle" /\ result = "ok" =>
    /\ op.name = "GetRange" => got = Asked
    /\ op.name = "Get" /\ ~short => got = SubSeq(Sent, 1, Len(got))

(***************************************************************************)
(* The client implements RemoteClient: being connected, an operation's     *)
(* return and what it handed over.  Only GetRange counts what it was given *)
(* (ftpclient.cpp:1268-1296); a GetRange whose sink refused is one that    *)
(* fails.                                                                  *)
(***************************************************************************)
Called == IF pc = "idle" THEN "none" ELSE IF op.name = "Refused" THEN "GetRange" ELSE op.name
Handed == IF op.name \in {"Get", "GetRange", "Refused"} THEN Len(got) ELSE 0
Interface == INSTANCE RemoteClient WITH Wants <- Sizes \cup {0, FileSize}, Exact <- {"GetRange"},
               connected <- is_connected, call <- Called, want <- op.size, got <- Handed,
               ret <- IF result = "ok" THEN 1 ELSE 0
ImplementsRemoteClient == Interface!Spec

(***************************************************************************)
(* With a peer that answers, every operation returns: the client never     *)
(* waits for a reply that nobody owes it, and never for the rest of a      *)
(* transfer that has ended.                                                *)
(***************************************************************************)
OperationsReturn == (pc \notin {"idle", "undefined"}) ~> (pc \in {"idle", "undefined"})
=============================================================================
