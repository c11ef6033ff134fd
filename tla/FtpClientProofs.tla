--------------------------- MODULE FtpClientProofs ---------------------------
(***************************************************************************)
(* Proofs about FtpClient, for any size of file, offsets, ranges and       *)
(* number of operations, and for every peer that FtpClient admits.         *)
(***************************************************************************)
EXTENDS FtpClient, WellFoundedInduction, TLAPS

(* A non-empty set of naturals has a least element.                        *)
LEMMA LeastNatural ==
  ASSUME NEW S \in SUBSET Nat, S # {}
  PROVE  \E x \in S : \A y \in S : x <= y
<1> DEFINE less == {p \in Nat \X Nat : p[1] < p[2]}
<1>1. IsWellFoundedOn(less, Nat)
  BY NatLessThanWellFounded DEF OpToRel
<1>2. PICK x \in S : \A y \in S : <<y, x>> \notin less
  <2> HIDE DEF less
  <2> QED
    BY <1>1, WFMin
<1>3. ASSUME NEW y \in S PROVE x <= y
  <2>1. ~(y < x)
    BY <1>2
  <2> QED
    BY <2>1
<1> QED
  BY <1>3

(* The commands that have one reply and no data connection. *)
Simple == Awaiting \ {"QUIT", "RETR", "transfer"}
Plain == Simple \ {"greeting", "USER", "PASS", "PASV", "REST"}
Transfers == {"Get", "GetRange", "Refused"}
DataLabels == {"PASV", "REST", "socket", "connect", "RETR", "read", "transfer"}

Ops == [name : {"none", "Connect", "Command", "Quit"} \cup Transfers,
        offset : 0..FileSize, size : Nat, todo : Seq(Plain \X SUBSET (0..5))]
OpOK ==
  /\ op \in Ops
  /\ pc \in DataLabels => op.name \in Transfers
  /\ pc \in DataLabels \ {"transfer"} => op.name # "Refused"
  /\ op.name = "Quit" => pc \in {"QUIT", "idle"}
  /\ pc \in {"greeting", "USER", "PASS"} => op.name = "Connect"
  /\ pc = "QUIT" => op.name \in {"Connect", "Quit"}

(***************************************************************************)
(* The session around the replies: when there is a socket, which data      *)
(* connection is open, and what being connected means.                     *)
(***************************************************************************)
SessionOK ==
  /\ ops = 0 => pc = "idle" /\ op.name = "none" /\ result = "none" /\ ~handle /\ ~down /\ marker = 0
                /\ inbox = <<>> /\ owed = <<>> /\ pos = 0 /\ got = <<>> /\ ~short
  /\ pc # "idle" => handle
  /\ is_connected => handle
  /\ pc # "idle" /\ op.name = "Connect" => ~is_connected
  /\ pc = "idle" /\ op.name = "Quit" => ~handle
  /\ pc \in {"RETR", "read"} <=> data # "closed"
  /\ data # "open" => pipe = <<>>
  /\ ~down => leaked = 0
  /\ ~down /\ is_connected => logged
  /\ \A n \in DOMAIN inbox : inbox[n].to \in {"USER", "PASS"} /\ inbox[n].class = 2 => logged

(* The inbox holds a reply to cmd of one or two lines, then k lines more.  *)
Answered(cmd, k) ==
  \E n \in {1, 2} :
    /\ Len(inbox) = n + k
    /\ inbox[1].to = cmd /\ inbox[n].to = cmd
    /\ inbox[n].last /\ (n = 2 => ~inbox[1].last)

Awaits(cmd) ==
  /\ pos = 0
  /\ \/ owed = <<cmd>> /\ inbox = <<>> /\ ~down
     \/ owed = <<>> /\ inbox = <<>> /\ down
     \/ owed = <<>> /\ Answered(cmd, 0)

EndsWithTransfer == inbox[Len(inbox)].to = "transfer" /\ inbox[Len(inbox)].last /\ pos = 0

AwaitsRetr ==
  \/ owed = <<"RETR">> /\ inbox = <<>> /\ pos = 0 /\ pipe = <<>> /\ ~down
  \/ owed = <<>> /\ inbox = <<>> /\ pos = 0 /\ down
  \/ owed = <<>> /\ Answered("RETR", 0)
  \/ owed = <<>> /\ Answered("RETR", 1) /\ EndsWithTransfer

AwaitsTransfer ==
  /\ owed = <<>>
  /\ \/ inbox = <<>>
     \/ Len(inbox) = 1 /\ EndsWithTransfer

(* Nothing is outstanding. *)
Quiet == owed = <<>> /\ inbox = <<>> /\ pos = 0

(***************************************************************************)
(* The control connection: what is outstanding at each place of the code.  *)
(* Nothing is said of a client that has failed: it is only quit.           *)
(***************************************************************************)
ControlOK ==
  /\ pc \in Simple => Awaits(pc)
  /\ pc = "socket" => Quiet
  /\ pc \in {"connect", "RETR"} => AwaitsRetr
  /\ pc \in {"read", "transfer"} => AwaitsTransfer
  /\ pc = "idle" /\ handle /\ Usable => Quiet

(* The restart marker of the peer: set by REST, consumed by RETR. *)
MarkerOK ==
  /\ pc \in Simple \ {"REST"} => marker = 0
  /\ pc = "REST" /\ inbox # <<>> /\ inbox[Len(inbox)].class = 3 => marker = op.offset
  /\ pc = "socket" => marker = op.offset
  /\ pc \in {"connect", "RETR"} /\ owed # <<>> => marker = op.offset
  /\ pc \in {"connect", "RETR"} /\ inbox # <<>> => marker = 0
  /\ pc \in {"read", "transfer"} /\ (inbox # <<>> \/ pos > 0) => marker = 0
  /\ pc = "idle" /\ handle /\ Usable => marker = 0

Contiguous == \A n \in 1..Len(got) : got[n] = op.offset + n

(***************************************************************************)
(* The blocks: what was delivered, what is under way and what the peer     *)
(* sends next follow each other from the offset on, unless a write was cut *)
(* short.                                                                  *)
(***************************************************************************)
ContentOK ==
  /\ op.name = "GetRange" => ~short
  /\ pc \in DataLabels \cup Simple /\ op.name \in Transfers => offset = op.offset
  /\ pc \in Simple \cup {"socket", "connect", "RETR"} => got = <<>> /\ ~short
  /\ pc \in {"connect", "RETR"} /\ owed # <<>> => pipe = <<>>
  /\ pc = "connect" /\ pos > 0 => pos = op.offset + 1
  /\ pc \in {"RETR", "read"} /\ data = "open" /\ pos > 0 /\ ~short =>
       pos = op.offset + Len(got) + Len(pipe) + 1
  /\ pc \in {"RETR", "read", "transfer"} /\ ~short =>
       Contiguous /\ \A n \in 1..Len(pipe) : pipe[n] = op.offset + Len(got) + n
  /\ pc = "idle" /\ result = "ok" /\ op.name \in {"Get", "GetRange"} =>
       /\ ~short => Contiguous
       /\ op.name = "GetRange" => Len(got) = op.size

Inv == TypeOK /\ OpOK /\ SessionOK /\ ControlOK /\ MarkerOK /\ ContentOK

-----------------------------------------------------------------------------
(* The labels, written out. *)
LEMMA Labels ==
  /\ Awaiting = {"greeting", "USER", "PASS", "QUIT", "TYPE", "PASV", "REST", "RETR", "transfer",
                 "MKD", "NOOP", "SIZE", "RNFR", "RNTO", "DELE"}
  /\ Simple = {"greeting", "USER", "PASS", "TYPE", "PASV", "REST",
               "MKD", "NOOP", "SIZE", "RNFR", "RNTO", "DELE"}
  /\ Plain = {"TYPE", "MKD", "NOOP", "SIZE", "RNFR", "RNTO", "DELE"}
<1> DEFINE Names(c) == {c[n][1] : n \in DOMAIN c}
<1>1. Names(OneCommand) = {"MKD"} /\ Names(Noop) = {"NOOP"} /\ Names(Delete) = {"DELE"}
  <2>1. DOMAIN OneCommand = {1} /\ DOMAIN Noop = {1} /\ DOMAIN Delete = {1}
    BY DEF OneCommand, Noop, Delete
  <2>2. OneCommand[1][1] = "MKD" /\ Noop[1][1] = "NOOP" /\ Delete[1][1] = "DELE"
    BY DEF OneCommand, Noop, Delete
  <2> QED
    BY <2>1, <2>2
<1>2. Names(SizeOf) = {"TYPE", "SIZE"} /\ Names(Rename) = {"RNFR", "RNTO"}
  <2>1. DOMAIN SizeOf = {1, 2} /\ DOMAIN Rename = {1, 2}
    BY DEF SizeOf, Rename
  <2>2. SizeOf[1][1] = "TYPE" /\ SizeOf[2][1] = "SIZE" /\ Rename[1][1] = "RNFR" /\ Rename[2][1] = "RNTO"
    BY DEF SizeOf, Rename
  <2> QED
    BY <2>1, <2>2
<1>3. Awaiting = {"greeting", "USER", "PASS", "QUIT", "TYPE", "PASV", "REST", "RETR", "transfer"}
                 \cup UNION {Names(c) : c \in {OneCommand, Noop, SizeOf, Rename, Delete}}
  BY DEF Awaiting, Commands
<1> HIDE DEF Names
<1>4. UNION {Names(c) : c \in {OneCommand, Noop, SizeOf, Rename, Delete}}
        = {"MKD", "NOOP", "SIZE", "RNFR", "RNTO", "DELE", "TYPE"}
  BY <1>1, <1>2
<1>5. Awaiting = {"greeting", "USER", "PASS", "QUIT", "TYPE", "PASV", "REST", "RETR", "transfer",
                 "MKD", "NOOP", "SIZE", "RNFR", "RNTO", "DELE"}
  BY <1>3, <1>4
<1>6. Simple = {"greeting", "USER", "PASS", "TYPE", "PASV", "REST",
               "MKD", "NOOP", "SIZE", "RNFR", "RNTO", "DELE"}
  BY <1>5 DEF Simple
<1> QED
  BY <1>5, <1>6 DEF Plain

(* The operations of Commands, as lists of commands and classes. *)
LEMMA CommandLists ==
  ASSUME NEW c \in Commands
  PROVE  c \in Seq(Plain \X SUBSET (0..5)) /\ c[1][1] \in Plain
<1> DEFINE Todo == Plain \X SUBSET (0..5)
<1>1. /\ <<"MKD", {2}>> \in Todo /\ <<"NOOP", {2, 5}>> \in Todo /\ <<"TYPE", {2}>> \in Todo
      /\ <<"SIZE", {2}>> \in Todo /\ <<"RNFR", {3}>> \in Todo /\ <<"RNTO", {2}>> \in Todo
      /\ <<"DELE", {2}>> \in Todo
  BY Labels
<1>2. c[1][1] \in Plain
  BY Labels DEF Commands, OneCommand, Noop, SizeOf, Rename, Delete
<1> HIDE DEF Todo
<1>3. c \in Seq(Todo)
  <2>1. \A x, y \in Todo : <<x>> \in Seq(Todo) /\ <<x, y>> \in Seq(Todo)
    OBVIOUS
  <2> QED
    BY <1>1, <2>1 DEF Commands, OneCommand, Noop, SizeOf, Rename, Delete
<1> QED
  BY <1>2, <1>3 DEF Todo

(* Taking the first element off a sequence, and putting one at its end. *)
LEMMA Popped ==
  ASSUME NEW S, NEW s \in Seq(S), s # <<>>
  PROVE  /\ Len(s) \in Nat \ {0} /\ Head(s) = s[1] /\ Head(s) \in S
         /\ Tail(s) \in Seq(S) /\ Len(Tail(s)) = Len(s) - 1
         /\ \A n \in 1..(Len(s) - 1) : Tail(s)[n] = s[n + 1]
<1>1. Len(s) \in Nat /\ Len(s) # 0
  OBVIOUS
<1>2. 1 \in 1..Len(s)
  BY <1>1
<1>3. Head(s) = s[1] /\ s[1] \in S
  BY <1>2
<1> QED
  BY <1>1, <1>3

LEMMA Pushed ==
  ASSUME NEW S, NEW s \in Seq(S), NEW e \in S
  PROVE  /\ Append(s, e) \in Seq(S) /\ Len(s) \in Nat /\ Len(Append(s, e)) = Len(s) + 1
         /\ Append(s, e)[Len(s) + 1] = e /\ \A n \in 1..Len(s) : Append(s, e)[n] = s[n]
OBVIOUS

(* What is left of a sequence behind its first k elements. *)
LEMMA Suffix ==
  ASSUME NEW S, NEW s \in Seq(S), NEW k \in 0..Len(s)
  PROVE  /\ SubSeq(s, k + 1, Len(s)) \in Seq(S)
         /\ Len(SubSeq(s, k + 1, Len(s))) = Len(s) - k
         /\ \A m \in 1..(Len(s) - k) : SubSeq(s, k + 1, Len(s))[m] = s[k + m]
<1>1. Len(s) \in Nat
  OBVIOUS
<1>2. CASE k = Len(s)
  BY <1>1, <1>2
<1>3. CASE k < Len(s)
  <2>1. SubSeq(s, k + 1, Len(s)) \in Seq(S)
    BY <1>1, <1>3
  <2>2. Len(SubSeq(s, k + 1, Len(s))) = Len(s) - k
    BY <1>1, <1>3
  <2>3. ASSUME NEW m \in 1..(Len(s) - k) PROVE SubSeq(s, k + 1, Len(s))[m] = s[k + m]
    BY <1>1, <1>3
  <2> QED
    BY <2>1, <2>2, <2>3
<1> QED
  BY <1>1, <1>2, <1>3

(* A read of whatever the inbox holds. *)
LEMMA ReadAny ==
  ASSUME TypeOK, ReadResponse
  PROVE  /\ inbox' \in Seq(Lines) /\ response' \in 0..5 /\ Class \in 0..5
         /\ \A m \in DOMAIN inbox' : \E n \in DOMAIN inbox : inbox'[m] = inbox[n]
         /\ LastLines = {} => down /\ Class = 0
         /\ LastLines # {} => response' = Class
<1>1. inbox \in Seq(Lines) /\ response \in 0..5 /\ Len(inbox) \in Nat /\ DOMAIN inbox = 1..Len(inbox)
  BY DEF TypeOK
<1>2. ASSUME LastLines # {} PROVE ReplyEnd \in LastLines
  <2>1. LastLines \subseteq Nat
    BY <1>1 DEF LastLines
  <2>2. PICK m \in LastLines : \A k \in LastLines : m <= k
    BY <1>2, <2>1, LeastNatural
  <2>3. ReplyEnd = CHOOSE x \in LastLines : \A k \in LastLines : x <= k
    BY <1>2 DEF ReplyEnd
  <2> QED
    BY <2>2, <2>3
<1>3. ReplyEnd \in 0..Len(inbox)
  <2>1. CASE LastLines = {}
    BY <1>1, <2>1 DEF ReplyEnd
  <2>2. CASE LastLines # {}
    <3>1. ReplyEnd \in DOMAIN inbox
      BY <1>2, <2>2 DEF LastLines
    <3> QED
      BY <1>1, <3>1
  <2> QED
    BY <2>1, <2>2
<1>4. Class \in 0..5
  <2>1. CASE LastLines = {}
    BY <2>1 DEF Class
  <2>2. CASE LastLines # {}
    <3>1. ReplyEnd \in DOMAIN inbox
      BY <1>2, <2>2 DEF LastLines
    <3>2. inbox[ReplyEnd] \in Lines
      BY <1>1, <3>1
    <3> QED
      BY <2>2, <3>2 DEF Class, Lines
  <2> QED
    BY <2>1, <2>2
<1> DEFINE e == ReplyEnd
<1>5. inbox' = SubSeq(inbox, e + 1, Len(inbox)) /\ e \in 0..Len(inbox)
  BY <1>3 DEF ReadResponse
<1> HIDE DEF e
<1>6. /\ inbox' \in Seq(Lines) /\ Len(inbox') = Len(inbox) - e
      /\ \A m \in 1..(Len(inbox) - e) : inbox'[m] = inbox[e + m]
  BY <1>1, <1>5, Suffix
<1>7. \A m \in DOMAIN inbox' : \E n \in DOMAIN inbox : inbox'[m] = inbox[n]
  <2> SUFFICES ASSUME NEW m \in DOMAIN inbox' PROVE \E n \in DOMAIN inbox : inbox'[m] = inbox[n]
    OBVIOUS
  <2>1. m \in 1..(Len(inbox) - e) /\ e + m \in 1..Len(inbox)
    <3>1. DOMAIN inbox' = 1..(Len(inbox) - e)
      BY <1>6
    <3> QED
      BY <1>1, <1>5, <3>1
  <2> QED
    BY <1>1, <1>6, <2>1
<1>8. response' \in 0..5 /\ (LastLines # {} => response' = Class)
  BY <1>1, <1>4 DEF ReadResponse
<1>9. LastLines = {} => down /\ Class = 0
  BY DEF ReadResponse, Readable, Class
<1> QED
  BY <1>4, <1>6, <1>7, <1>8, <1>9

(* A read of a reply of one or two lines. *)
LEMMA ReadReply ==
  ASSUME TypeOK, ReadResponse, NEW n \in {1, 2}, n <= Len(inbox), inbox[n].last,
         n = 2 => ~inbox[1].last
  PROVE  /\ LastLines # {} /\ Class = inbox[n].class
         /\ Len(inbox') = Len(inbox) - n
         /\ \A m \in 1..(Len(inbox) - n) : inbox'[m] = inbox[n + m]
<1>1. inbox \in Seq(Lines) /\ Len(inbox) \in Nat /\ DOMAIN inbox = 1..Len(inbox)
  BY DEF TypeOK
<1>2. n \in LastLines
  BY <1>1 DEF LastLines
<1>3. \A k \in LastLines : k \in Nat /\ n <= k
  BY <1>1 DEF LastLines
<1>4. ReplyEnd = n
  <2>1. ReplyEnd = CHOOSE x \in LastLines : \A k \in LastLines : x <= k
    BY <1>2 DEF ReplyEnd
  <2>2. \A x \in LastLines : (\A k \in LastLines : x <= k) => x = n
    BY <1>2, <1>3
  <2> QED
    BY <1>2, <1>3, <2>1, <2>2
<1>5. Class = inbox[n].class
  BY <1>2, <1>4 DEF Class
<1>6. inbox' = SubSeq(inbox, n + 1, Len(inbox))
  BY <1>4 DEF ReadResponse
<1>7. n \in 0..Len(inbox)
  BY <1>1
<1>8. Len(inbox') = Len(inbox) - n /\ \A m \in 1..(Len(inbox) - n) : inbox'[m] = inbox[n + m]
  BY <1>1, <1>6, <1>7, Suffix
<1> QED
  BY <1>2, <1>5, <1>8

(* A read of the only reply leaves nothing outstanding. *)
LEMMA ReadOnly ==
  ASSUME TypeOK, NEW cmd, Awaits(cmd), ReadResponse
  PROVE  /\ owed = <<>> /\ inbox' = <<>> /\ pos = 0
         /\ Class = 0 => down
         /\ Class # 0 => inbox # <<>> /\ Class = inbox[Len(inbox)].class /\ response' = Class
                         /\ Len(inbox) \in DOMAIN inbox /\ inbox[Len(inbox)].to = cmd
<1>1. inbox \in Seq(Lines) /\ inbox' \in Seq(Lines)
  BY ReadAny DEF TypeOK
<1>2. CASE inbox = <<>>
  <2>1. LastLines = {} /\ ReplyEnd = 0
    BY <1>2 DEF LastLines, ReplyEnd
  <2>2. inbox' = <<>>
    BY <1>2, <2>1 DEF ReadResponse
  <2> QED
    BY <1>2, <2>1, <2>2, ReadAny DEF Awaits, Answered
<1>3. CASE inbox # <<>>
  <2>1. owed = <<>> /\ pos = 0 /\ Answered(cmd, 0)
    BY <1>3 DEF Awaits
  <2>2. PICK n \in {1, 2} : Len(inbox) = n /\ inbox[n].to = cmd /\ inbox[n].last /\ (n = 2 => ~inbox[1].last)
    BY <2>1 DEF Answered
  <2>3. LastLines # {} /\ Class = inbox[n].class /\ Len(inbox') = 0
    BY <2>2, ReadReply
  <2>4. inbox[n] \in Lines
    BY <1>1, <2>2
  <2>5. Class # 0
    BY <2>3, <2>4 DEF Lines
  <2> QED
    BY <1>1, <1>3, <2>1, <2>2, <2>3, <2>5, ReadAny
<1> QED
  BY <1>2, <1>3

-----------------------------------------------------------------------------
LEMMA InitInv == Init => Inv
<1> SUFFICES ASSUME Init PROVE Inv
  OBVIOUS
<1>1. TypeOK
  <2>1. offset \in 0..FileSize /\ response \in 0..5 /\ ops \in 0..MaxOps /\ leaked \in Nat
        /\ marker \in 0..FileSize /\ pos \in 0..(FileSize + 1)
    BY FtpBounds DEF Init, ClearHandle
  <2>2. got \in Seq(1..FileSize) /\ owed \in Seq(Awaiting) /\ inbox \in Seq(Lines) /\ pipe \in Seq(1..FileSize)
    BY DEF Init
  <2>3. /\ handle \in BOOLEAN /\ is_connected \in BOOLEAN /\ short \in BOOLEAN
        /\ down \in BOOLEAN /\ logged \in BOOLEAN
    BY DEF Init, ClearHandle
  <2> QED
    BY <2>1, <2>2, <2>3 DEF Init, TypeOK
<1>2. op \in Ops
  BY FtpBounds DEF Init, NoOp, Ops
<1>3. OpOK /\ SessionOK /\ ControlOK /\ MarkerOK /\ ContentOK
  BY <1>2, Labels DEF Init, ClearHandle, NoOp, OpOK, SessionOK, ControlOK, MarkerOK, ContentOK, DataLabels,
     Transfers, Usable
<1> QED
  BY <1>1, <1>3 DEF Inv

(* The only reply was read, and the next command is sent. *)
LEMMA SendsNext ==
  ASSUME Inv, pc \in Simple \ {"REST"}, ReadResponse,
         NEW cmd \in Simple \cup {"QUIT"}, pc' = cmd, Send(cmd),
         op' \in Ops, op'.name = op.name, op'.offset = op.offset,
         cmd \in DataLabels => op.name \in Transfers,
         cmd \in DataLabels => op.name # "Refused",
         cmd \in {"greeting", "USER", "PASS", "QUIT"} => op.name = "Connect",
         UNCHANGED <<handle, is_connected, offset, got, short, result, ops, data, leaked, down, logged,
                     marker, pos, pipe>>
  PROVE  Inv'
<1>1. /\ TypeOK /\ OpOK /\ SessionOK /\ Awaits(pc) /\ MarkerOK /\ ContentOK
  BY DEF Inv, ControlOK
<1>2. /\ owed = <<>> /\ inbox' = <<>> /\ pos = 0
      /\ inbox' \in Seq(Lines) /\ response' \in 0..5
  BY <1>1, ReadOnly, ReadAny
<1>3. /\ owed' = (IF down THEN <<>> ELSE <<cmd>>) /\ owed' \in Seq(Awaiting)
  <2>1. Append(<<>>, cmd) = <<cmd>> /\ <<cmd>> \in Seq(Awaiting) /\ <<>> \in Seq(Awaiting)
    BY Labels
  <2> QED
    BY <1>2, <2>1 DEF Send
<1>4. TypeOK'
  BY <1>1, <1>2, <1>3, Labels DEF TypeOK
<1>5. OpOK'
  BY <1>1, Labels DEF OpOK, DataLabels
<1>6. SessionOK'
  BY <1>1, <1>2, Labels DEF SessionOK
<1>7. ControlOK'
  BY <1>2, <1>3, Labels DEF ControlOK, Awaits
<1>8. MarkerOK'
  BY <1>1, <1>2, Labels DEF MarkerOK
<1>9. ContentOK'
  BY <1>1, Labels DEF ContentOK, DataLabels, OpOK, Ops
<1> QED
  BY <1>4, <1>5, <1>6, <1>7, <1>8, <1>9 DEF Inv

(* The only reply was read, and the operation returns. *)
LEMMA ReturnsAfterReply ==
  ASSUME Inv, pc \in Simple \ {"REST"}, ReadResponse, NEW ok \in BOOLEAN, Return(ok),
         ok => op.name \notin {"Get", "GetRange"},
         handle' \in BOOLEAN, is_connected' \in BOOLEAN, is_connected' => handle',
         is_connected' /\ ~down => logged,
         UNCHANGED <<op, offset, got, short, ops, data, leaked, owed, down, logged, marker, pos, pipe>>
  PROVE  Inv'
<1>1. /\ TypeOK /\ OpOK /\ SessionOK /\ Awaits(pc) /\ MarkerOK /\ ContentOK
  BY DEF Inv, ControlOK
<1>2. /\ owed = <<>> /\ inbox' = <<>> /\ pos = 0
      /\ inbox' \in Seq(Lines) /\ response' \in 0..5
  BY <1>1, ReadOnly, ReadAny
<1>3. pc' = "idle" /\ result' = (IF ok THEN "ok" ELSE "failed")
  BY DEF Return
<1>4. TypeOK'
  BY <1>1, <1>2, <1>3, Labels DEF TypeOK
<1>5. OpOK'
  BY <1>1, <1>3, Labels DEF OpOK, DataLabels
<1>6. SessionOK'
  BY <1>1, <1>2, <1>3, Labels DEF SessionOK, OpOK
<1>7. ControlOK'
  BY <1>2, <1>3, Labels DEF ControlOK, Quiet
<1>8. MarkerOK'
  BY <1>1, <1>3, Labels DEF MarkerOK
<1>9. ContentOK'
  BY <1>1, <1>3, Labels DEF ContentOK, DataLabels
<1> QED
  BY <1>4, <1>5, <1>6, <1>7, <1>8, <1>9 DEF Inv

(* Connecting: the greeting and the login. *)
LEMMA LoginInv ==
  ASSUME Inv, Greeted \/ UserAnswered \/ PassAnswered
  PROVE  Inv'
<1>1. /\ TypeOK /\ OpOK /\ SessionOK /\ op \in Ops /\ op.name = "Connect"
      /\ pc \in {"greeting", "USER", "PASS"} /\ ReadResponse /\ Awaits(pc)
      /\ handle \in BOOLEAN /\ is_connected \in BOOLEAN
      /\ handle /\ ~is_connected
  <2>1. TypeOK /\ OpOK /\ SessionOK /\ ControlOK /\ pc \in {"greeting", "USER", "PASS"} /\ ReadResponse
    BY DEF Inv, Greeted, UserAnswered, PassAnswered
  <2> QED
    BY <2>1, Labels DEF OpOK, SessionOK, ControlOK, TypeOK
<1>2. pc \in Simple \ {"REST"} /\ {"USER", "PASS", "QUIT"} \subseteq Simple \cup {"QUIT"}
  BY <1>1, Labels
<1>3. ASSUME pc \in {"USER", "PASS"}, Class = 2 \/ response' = 2, ~down PROVE logged
  <2>1. Class = 2 /\ Len(inbox) \in DOMAIN inbox /\ inbox[Len(inbox)].class = 2 /\ inbox[Len(inbox)].to = pc
    BY <1>1, <1>3, ReadOnly
  <2> QED
    BY <1>1, <1>3, <2>1 DEF SessionOK
<1>4. CASE Greeted
  <2>1. CASE Class = 2
    BY <1>1, <1>2, <1>4, <2>1, SendsNext DEF Greeted, DataLabels
  <2>2. CASE Class # 2
    <3>1. handle' = FALSE /\ is_connected' = FALSE
      BY <1>1, <1>4, <2>2 DEF Greeted
    <3> QED
      BY <1>1, <1>2, <1>4, <2>2, <3>1, ReturnsAfterReply DEF Greeted
  <2> QED
    BY <2>1, <2>2
<1>5. CASE UserAnswered
  <2>1. CASE Class = 3
    BY <1>1, <1>2, <1>5, <2>1, SendsNext DEF UserAnswered, DataLabels
  <2>2. CASE Class # 3 /\ response' = 2
    <3>1. is_connected' = TRUE /\ (~down => logged) /\ Return(TRUE) /\ UNCHANGED owed
      BY <1>1, <1>3, <1>5, <2>2 DEF UserAnswered
    <3> QED
      BY <1>1, <1>2, <1>5, <3>1, ReturnsAfterReply DEF UserAnswered
  <2>3. CASE Class # 3 /\ response' # 2
    BY <1>1, <1>2, <1>5, <2>3, SendsNext DEF UserAnswered, DataLabels
  <2> QED
    BY <2>1, <2>2, <2>3
<1>6. CASE PassAnswered
  <2>1. CASE Class = 2
    <3>1. is_connected' = TRUE /\ (~down => logged) /\ Return(TRUE) /\ UNCHANGED owed
      BY <1>1, <1>3, <1>6, <2>1 DEF PassAnswered
    <3> QED
      BY <1>1, <1>2, <1>6, <3>1, ReturnsAfterReply DEF PassAnswered
  <2>2. CASE Class # 2
    BY <1>1, <1>2, <1>6, <2>2, SendsNext DEF PassAnswered, DataLabels
  <2> QED
    BY <2>1, <2>2
<1> QED
  BY <1>4, <1>5, <1>6

(* The operations that are one command after the other. *)
LEMMA CommandInv ==
  ASSUME Inv, CommandAnswered
  PROVE  Inv'
<1>1. /\ TypeOK /\ SessionOK /\ op \in Ops /\ op.name = "Command" /\ op.todo # <<>> /\ ReadResponse
      /\ pc = op.todo[1][1] /\ handle /\ (is_connected /\ ~down => logged)
      /\ handle \in BOOLEAN /\ is_connected \in BOOLEAN
  <2>1. /\ TypeOK /\ OpOK /\ SessionOK /\ op.name = "Command" /\ op.todo # <<>> /\ ReadResponse
        /\ pc = op.todo[1][1]
    BY DEF Inv, CommandAnswered
  <2>2. op \in Ops /\ op.todo \in Seq(Plain \X SUBSET (0..5))
    BY <2>1 DEF OpOK, Ops
  <2>3. op.todo[1] \in Plain \X SUBSET (0..5)
    BY <2>1, <2>2
  <2>4. pc # "idle"
    BY <2>1, <2>3, Labels
  <2> QED
    BY <2>1, <2>2, <2>4 DEF SessionOK, TypeOK
<1>2. op.todo \in Seq(Plain \X SUBSET (0..5)) /\ Len(op.todo) \in Nat \ {0}
  BY <1>1 DEF Ops
<1>3. pc \in Simple \ {"REST"}
  <2>1. op.todo[1] \in Plain \X SUBSET (0..5)
    BY <1>2
  <2> QED
    BY <1>1, <2>1, Labels
<1>4. UNCHANGED <<handle, is_connected, offset, got, short, ops, data, leaked, down, logged, marker, pos, pipe>>
  BY DEF CommandAnswered
<1>5. CASE Class \notin op.todo[1][2] \/ Len(op.todo) = 1
  <2> DEFINE ok == Class \in op.todo[1][2]
  <2>1. ok \in BOOLEAN /\ Return(ok) /\ UNCHANGED <<owed, op>>
    BY <1>5 DEF CommandAnswered
  <2> HIDE DEF ok
  <2> QED
    BY <1>1, <1>3, <1>4, <2>1, ReturnsAfterReply DEF SessionOK
<1>6. CASE ~(Class \notin op.todo[1][2] \/ Len(op.todo) = 1)
  <2> DEFINE cmd == op.todo[2][1]
  <2>1. op' = [op EXCEPT !.todo = Tail(@)] /\ Send(cmd) /\ pc' = cmd /\ UNCHANGED result
    BY <1>6 DEF CommandAnswered
  <2>2. Tail(op.todo) \in Seq(Plain \X SUBSET (0..5)) /\ op.todo[2] \in Plain \X SUBSET (0..5)
    <3> DEFINE Todo == Plain \X SUBSET (0..5)
    <3>1. op.todo \in Seq(Todo) /\ Len(op.todo) \in Nat \ {0} /\ Len(op.todo) # 1
      BY <1>2, <1>6
    <3> HIDE DEF Todo
    <3>2. Len(op.todo) \in Nat /\ Len(op.todo) >= 2
      <4> DEFINE len == Len(op.todo)
      <4>1. len \in Nat \ {0} /\ len # 1
        BY <3>1
      <4> HIDE DEF len
      <4>2. len \in Nat /\ len >= 2
        BY <4>1
      <4> QED
        BY <4>2 DEF len
    <3>3. Tail(op.todo) \in Seq(Todo)
      BY <3>1, <3>2
    <3>4. 2 \in 1..Len(op.todo)
      BY <3>2
    <3>5. op.todo[2] \in Todo
      BY <3>1, <3>4
    <3> QED
      BY <3>3, <3>5 DEF Todo
  <2>3. op' \in Ops /\ op'.name = op.name /\ op'.offset = op.offset
    BY <1>1, <2>1, <2>2 DEF Ops
  <2>4. cmd \in Simple /\ cmd \notin DataLabels \cup {"greeting", "USER", "PASS", "QUIT"}
    BY <2>2, Labels DEF DataLabels
  <2> HIDE DEF cmd
  <2> QED
    BY <1>1, <1>3, <1>4, <2>1, <2>3, <2>4, SendsNext
<1> QED
  BY <1>5, <1>6

(* Up to the data connection: TYPE and PASV, then REST or not. *)
LEMMA AccessInv ==
  ASSUME Inv, TypeAnswered \/ PasvAnswered
  PROVE  Inv'
<1>1. /\ TypeOK /\ OpOK /\ SessionOK /\ Awaits(pc) /\ MarkerOK /\ ContentOK
      /\ pc \in {"TYPE", "PASV"} /\ ReadResponse /\ op.name \in {"Get", "GetRange"} /\ op \in Ops
      /\ handle /\ (is_connected /\ ~down => logged)
      /\ handle \in BOOLEAN /\ is_connected \in BOOLEAN
      /\ UNCHANGED <<handle, is_connected, offset, op, got, short, ops, data, leaked, down, logged, marker,
                     pos, pipe>>
  <2>1. TypeOK /\ OpOK /\ SessionOK /\ ControlOK /\ MarkerOK /\ ContentOK
    BY DEF Inv
  <2>2. pc \in {"TYPE", "PASV"} /\ ReadResponse /\ op.name \in {"Get", "GetRange"}
    BY <2>1 DEF TypeAnswered, PasvAnswered, OpOK, DataLabels, Transfers
  <2>3. UNCHANGED <<handle, is_connected, offset, op, got, short, ops, data, leaked, down, logged, marker,
                    pos, pipe>>
    BY DEF TypeAnswered, PasvAnswered
  <2> QED
    BY <2>1, <2>2, <2>3, Labels DEF OpOK, SessionOK, ControlOK, TypeOK
<1>2. pc \in Simple \ {"REST"} /\ "PASV" \in Simple /\ "REST" \in Simple
  BY <1>1, Labels
<1>3. ASSUME NEW cmd \in {"PASV", "REST"}, Send(cmd), pc' = cmd, UNCHANGED result
      PROVE  Inv'
  BY <1>1, <1>2, <1>3, SendsNext DEF Transfers
<1>4. CASE Return(FALSE) /\ UNCHANGED owed
  BY <1>1, <1>2, <1>4, ReturnsAfterReply
<1>5. CASE Class = 2 /\ offset = 0 /\ pc = "PASV" /\ pc' = "socket" /\ UNCHANGED <<owed, result>>
  <2>1. /\ owed = <<>> /\ inbox' = <<>> /\ pos = 0
        /\ inbox' \in Seq(Lines) /\ response' \in 0..5
    BY <1>1, ReadOnly, ReadAny
  <2>2. TypeOK'
    BY <1>1, <1>5, <2>1, Labels DEF TypeOK
  <2>3. OpOK'
    BY <1>1, <1>5 DEF OpOK, DataLabels
  <2>4. SessionOK'
    BY <1>1, <1>5, <2>1 DEF SessionOK
  <2>5. ControlOK'
    BY <1>1, <1>5, <2>1, Labels DEF ControlOK, Quiet
  <2>6. MarkerOK'
    BY <1>1, <1>2, <1>5, Labels DEF MarkerOK, ContentOK, Transfers
  <2>7. ContentOK'
    BY <1>1, <1>2, <1>5, Labels DEF ContentOK, DataLabels
  <2> QED
    BY <2>2, <2>3, <2>4, <2>5, <2>6, <2>7 DEF Inv
<1> QED
  BY <1>3, <1>4, <1>5 DEF TypeAnswered, PasvAnswered

(* REST: the marker is where the operation wants it, or all bets are off. *)
LEMMA RestInv ==
  ASSUME Inv, RestAnswered
  PROVE  Inv'
<1>1. /\ TypeOK /\ OpOK /\ SessionOK /\ ControlOK /\ MarkerOK /\ ContentOK
      /\ pc = "REST" /\ ReadResponse /\ Awaits(pc)
      /\ pc' = (IF Class = 3 THEN "socket" ELSE "undefined")
      /\ UNCHANGED <<handle, is_connected, offset, op, got, short, result, ops, data, leaked, owed, down,
                     logged, marker, pos, pipe>>
  BY Labels DEF Inv, ControlOK, RestAnswered, progress
<1>2. /\ owed = <<>> /\ inbox' = <<>> /\ pos = 0
      /\ inbox' \in Seq(Lines) /\ response' \in 0..5
      /\ Class = 3 => inbox # <<>> /\ inbox[Len(inbox)].class = 3
  BY <1>1, ReadOnly, ReadAny
<1>3. TypeOK'
  BY <1>1, <1>2, Labels DEF TypeOK
<1>4. OpOK'
  BY <1>1 DEF OpOK, DataLabels
<1>5. SessionOK'
  BY <1>1, <1>2 DEF SessionOK
<1>6. ControlOK'
  BY <1>1, <1>2, Labels DEF ControlOK, Quiet
<1>7. MarkerOK'
  BY <1>1, <1>2, Labels DEF MarkerOK
<1>8. ContentOK'
  BY <1>1, <1>2, Labels DEF ContentOK, DataLabels
<1> QED
  BY <1>3, <1>4, <1>5, <1>6, <1>7, <1>8 DEF Inv

(* A transfer that ends without success, before the reply that decides it: *)
(* the client will only be quit.                                           *)
LEMMA GivesUp ==
  ASSUME Inv, op.name \in Transfers, pc # "idle", Return(FALSE),
         owed' \in Seq(Awaiting), inbox' \in Seq(Lines), response' \in 0..5, leaked' \in Nat,
         leaked' = leaked \/ down,
         \A m \in DOMAIN inbox' : \E n \in DOMAIN inbox : inbox'[m] = inbox[n],
         data' = "closed", pipe' = <<>>, offset' \in 0..FileSize,
         UNCHANGED <<handle, is_connected, op, got, short, ops, down, logged, marker, pos>>
  PROVE  Inv'
<1>1. /\ TypeOK /\ OpOK /\ SessionOK /\ ContentOK /\ op \in Ops
      /\ pc' = "idle" /\ result' = "failed"
  BY DEF Inv, Return, OpOK
<1>2. ~Usable'
  BY <1>1 DEF Usable, Transfers
<1>3. TypeOK'
  BY <1>1, Labels DEF TypeOK
<1>4. OpOK'
  BY <1>1 DEF OpOK, DataLabels
<1>5. SessionOK'
  <2>1. \A m \in DOMAIN inbox' : inbox'[m].to \in {"USER", "PASS"} /\ inbox'[m].class = 2 => logged
    BY <1>1 DEF SessionOK
  <2>2. ops # 0 /\ op.name # "Quit"
    BY <1>1 DEF SessionOK, Transfers
  <2> QED
    BY <1>1, <2>1, <2>2 DEF SessionOK
<1>6. ControlOK' /\ MarkerOK'
  BY <1>1, <1>2, Labels DEF ControlOK, MarkerOK
<1>7. ContentOK'
  BY <1>1, Labels DEF ContentOK, DataLabels
<1> QED
  BY <1>3, <1>4, <1>5, <1>6, <1>7 DEF Inv

(* RETR is sent, and the data connection opened. *)
LEMMA RetrInv ==
  ASSUME Inv, SendRetr \/ ConnectData
  PROVE  Inv'
<1>1. /\ TypeOK /\ OpOK /\ SessionOK /\ ControlOK /\ MarkerOK /\ ContentOK
      /\ pc \in {"socket", "connect"} /\ op.name \in Transfers /\ data = "closed" /\ pipe = <<>>
  <2>1. TypeOK /\ OpOK /\ SessionOK /\ ControlOK /\ MarkerOK /\ ContentOK
    BY DEF Inv
  <2>2. pc \in {"socket", "connect"}
    BY DEF SendRetr, ConnectData
  <2> QED
    BY <2>1, <2>2 DEF OpOK, SessionOK, DataLabels
<1>2. UNCHANGED <<handle, is_connected, offset, response, op, got, short, ops, inbox, down, logged, marker,
                  pos, pipe>>
  BY DEF SendRetr, ConnectData, client, peer
<1>3. CASE Return(FALSE)
  <2>1. owed' = owed /\ leaked' \in Nat /\ (leaked' = leaked \/ down) /\ data' = "closed"
    BY <1>1, <1>3 DEF SendRetr, ConnectData, peer, Return, TypeOK
  <2> QED
    BY <1>1, <1>2, <1>3, <2>1, GivesUp DEF TypeOK
<1>4. CASE pc = "socket" /\ Send("RETR") /\ pc' = "connect" /\ UNCHANGED <<result, leaked, data>>
  <2>1. Quiet
    BY <1>1, <1>4 DEF ControlOK
  <2>2. owed' = (IF down THEN <<>> ELSE <<"RETR">>) /\ owed' \in Seq(Awaiting)
    <3>1. Append(<<>>, "RETR") = <<"RETR">> /\ <<"RETR">> \in Seq(Awaiting) /\ <<>> \in Seq(Awaiting)
      BY Labels
    <3> QED
      BY <1>4, <2>1, <3>1 DEF Send, Quiet
  <2>3. TypeOK'
    BY <1>1, <1>2, <1>4, <2>2 DEF TypeOK
  <2>4. OpOK' /\ SessionOK'
    BY <1>1, <1>2, <1>4 DEF OpOK, DataLabels, SessionOK
  <2>5. ControlOK'
    BY <1>1, <1>2, <1>4, <2>1, <2>2, Labels DEF ControlOK, AwaitsRetr, Quiet
  <2>6. MarkerOK'
    BY <1>1, <1>2, <1>4, <2>1, Labels DEF MarkerOK, Quiet
  <2>7. ContentOK'
    BY <1>1, <1>2, <1>4, <2>1, Labels DEF ContentOK, DataLabels, Quiet
  <2> QED
    BY <2>3, <2>4, <2>5, <2>6, <2>7 DEF Inv
<1>5. CASE pc = "connect" /\ data' = "open" /\ pc' = "RETR" /\ UNCHANGED <<result, owed, leaked>>
  <2>1. TypeOK'
    BY <1>1, <1>2, <1>5, Labels DEF TypeOK
  <2>2. OpOK' /\ SessionOK'
    BY <1>1, <1>2, <1>5 DEF OpOK, DataLabels, SessionOK
  <2>3. ControlOK'
    BY <1>1, <1>2, <1>5, Labels DEF ControlOK, AwaitsRetr, Answered, EndsWithTransfer
  <2>4. MarkerOK'
    BY <1>1, <1>2, <1>5, Labels DEF MarkerOK
  <2>5. ContentOK'
    <3>1. got = <<>> /\ pipe = <<>> /\ ~short /\ op.offset \in 0..FileSize
      BY <1>1, <1>5 DEF ContentOK, OpOK, Ops
    <3>2. pos > 0 => pos = op.offset + Len(got) + Len(pipe) + 1
      BY <1>1, <1>5, <3>1 DEF ContentOK
    <3> QED
      BY <1>1, <1>2, <1>5, <3>1, <3>2, Labels DEF ContentOK, DataLabels, Contiguous
  <2> QED
    BY <2>1, <2>2, <2>3, <2>4, <2>5 DEF Inv
<1> QED
  BY <1>3, <1>4, <1>5 DEF SendRetr, ConnectData, peer

(* RETR is answered: the reply is read, and behind it there is at most the *)
(* end of the transfer.                                                    *)
LEMMA RetrAnsweredInv ==
  ASSUME Inv, RetrAnswered
  PROVE  Inv'
<1>1. /\ TypeOK /\ OpOK /\ SessionOK /\ ControlOK /\ MarkerOK /\ ContentOK /\ AwaitsRetr
      /\ pc = "RETR" /\ op.name \in Transfers /\ ReadResponse
      /\ UNCHANGED <<handle, is_connected, offset, op, got, short, ops, leaked, owed, down, logged, marker,
                     pos>>
  BY DEF Inv, RetrAnswered, OpOK, DataLabels, ControlOK
<1>2. /\ inbox' \in Seq(Lines) /\ response' \in 0..5 /\ inbox \in Seq(Lines)
      /\ \A m \in DOMAIN inbox' : \E n \in DOMAIN inbox : inbox'[m] = inbox[n]
      /\ LastLines = {} => down /\ Class = 0
  BY <1>1, ReadAny DEF TypeOK
<1>3. CASE Class # 1
  <2>1. Return(FALSE) /\ data' = "closed" /\ pipe' = <<>>
    BY <1>3 DEF RetrAnswered
  <2> QED
    BY <1>1, <1>2, <2>1, GivesUp DEF TypeOK
<1>4. CASE Class = 1
  <2>1. pc' = "read" /\ UNCHANGED <<result, data, pipe>>
    BY <1>4 DEF RetrAnswered
  <2>2. inbox # <<>>
    BY <1>2, <1>4 DEF LastLines
  <2>3. AwaitsTransfer'
    <3>1. CASE owed = <<>> /\ Answered("RETR", 0)
      <4>1. PICK n \in {1, 2} : Len(inbox) = n /\ inbox[n].last /\ (n = 2 => ~inbox[1].last)
        BY <3>1 DEF Answered
      <4>2. Len(inbox') = 0
        BY <1>1, <4>1, ReadReply
      <4> QED
        BY <1>1, <1>2, <3>1, <4>2 DEF AwaitsTransfer
    <3>2. CASE owed = <<>> /\ Answered("RETR", 1) /\ EndsWithTransfer
      <4>1. PICK n \in {1, 2} : Len(inbox) = n + 1 /\ inbox[n].last /\ (n = 2 => ~inbox[1].last)
        BY <3>2 DEF Answered
      <4>2. Len(inbox') = Len(inbox) - n /\ \A m \in 1..(Len(inbox) - n) : inbox'[m] = inbox[n + m]
        <5>1. n <= Len(inbox)
          BY <4>1
        <5> QED
          BY <1>1, <4>1, <5>1, ReadReply
      <4>3. Len(inbox') = 1 /\ inbox'[1] = inbox[Len(inbox)]
        BY <4>1, <4>2
      <4> QED
        BY <1>1, <1>2, <3>2, <4>3 DEF AwaitsTransfer, EndsWithTransfer
    <3> QED
      BY <1>1, <2>2, <3>1, <3>2 DEF AwaitsRetr
  <2>4. TypeOK'
    BY <1>1, <1>2, <2>1 DEF TypeOK
  <2>5. OpOK'
    BY <1>1, <2>1 DEF OpOK, DataLabels
  <2>6. SessionOK'
    BY <1>1, <1>2, <2>1 DEF SessionOK
  <2>7. ControlOK'
    BY <2>1, <2>3, Labels DEF ControlOK
  <2>8. MarkerOK'
    BY <1>1, <2>1, <2>2, Labels DEF MarkerOK
  <2>9. ContentOK'
    BY <1>1, <2>1, Labels DEF ContentOK, DataLabels, Contiguous
  <2> QED
    BY <2>4, <2>5, <2>6, <2>7, <2>8, <2>9 DEF Inv
<1> QED
  BY <1>3, <1>4

(* The transfer loops. *)
LEMMA LoopInv ==
  ASSUME Inv, FtpRead \/ WriteCutShort \/ LoopEnds \/ WriteFails
  PROVE  Inv'
<1>1. /\ TypeOK /\ OpOK /\ SessionOK /\ AwaitsTransfer /\ MarkerOK /\ ContentOK
      /\ pc = "read" /\ op.name \in {"Get", "GetRange"} /\ op \in Ops /\ data # "closed"
      /\ got \in Seq(1..FileSize) /\ pipe \in Seq(1..FileSize) /\ op.offset \in 0..FileSize
      /\ pos \in 0..(FileSize + 1)
  <2>1. TypeOK /\ OpOK /\ SessionOK /\ ControlOK /\ MarkerOK /\ ContentOK /\ pc = "read"
    BY DEF Inv, FtpRead, WriteCutShort, LoopEnds, WriteFails
  <2> QED
    BY <2>1 DEF OpOK, SessionOK, ControlOK, DataLabels, Transfers, TypeOK, Ops
<1>2. UNCHANGED <<handle, is_connected, offset, response, result, ops, leaked, owed, inbox, down, logged,
                  marker, pos>>
  BY DEF FtpRead, WriteCutShort, LoopEnds, WriteFails, client
<1>3. CASE FtpRead
  <2>1. /\ pipe # <<>> /\ got' = Append(got, Head(pipe)) /\ pipe' = Tail(pipe)
        /\ UNCHANGED <<pc, op, short, data>>
    BY <1>3 DEF FtpRead
  <2>2. /\ got' \in Seq(1..FileSize) /\ pipe' \in Seq(1..FileSize)
        /\ Len(got) \in Nat /\ Len(pipe) \in Nat \ {0}
        /\ Len(got') = Len(got) + 1 /\ Len(pipe') = Len(pipe) - 1
        /\ got'[Len(got) + 1] = pipe[1] /\ \A n \in 1..Len(got) : got'[n] = got[n]
        /\ \A n \in 1..(Len(pipe) - 1) : pipe'[n] = pipe[n + 1]
    <3>1. Head(pipe) \in 1..FileSize /\ Head(pipe) = pipe[1]
      BY <1>1, <2>1, Popped
    <3>2. /\ pipe' \in Seq(1..FileSize) /\ Len(pipe) \in Nat \ {0} /\ Len(pipe') = Len(pipe) - 1
          /\ \A n \in 1..(Len(pipe) - 1) : pipe'[n] = pipe[n + 1]
      BY <1>1, <2>1, Popped
    <3>3. /\ got' \in Seq(1..FileSize) /\ Len(got) \in Nat /\ Len(got') = Len(got) + 1
          /\ got'[Len(got) + 1] = Head(pipe) /\ \A n \in 1..Len(got) : got'[n] = got[n]
      BY <1>1, <2>1, <3>1, Pushed
    <3> QED
      BY <3>1, <3>2, <3>3
  <2>3. TypeOK' /\ OpOK'
    BY <1>1, <1>2, <2>1, <2>2 DEF TypeOK, OpOK
  <2>4. SessionOK'
    BY <1>1, <1>2, <2>1 DEF SessionOK
  <2>5. ControlOK'
    BY <1>1, <1>2, <2>1, Labels DEF ControlOK, AwaitsTransfer, EndsWithTransfer
  <2>6. MarkerOK'
    BY <1>1, <1>2, <2>1, Labels DEF MarkerOK
  <2>7. ContentOK'
    <3>1. ASSUME ~short PROVE Contiguous' /\ \A n \in 1..Len(pipe') : pipe'[n] = op.offset + Len(got') + n
      <4>1. Contiguous /\ \A n \in 1..Len(pipe) : pipe[n] = op.offset + Len(got) + n
        BY <1>1, <3>1 DEF ContentOK
      <4> DEFINE g == Len(got)
                 q == Len(pipe)
      <4>2. g \in Nat /\ q \in Nat \ {0} /\ Len(got') = g + 1 /\ Len(pipe') = q - 1
        BY <2>2
      <4>3. pipe[1] = op.offset + g + 1
        BY <4>1, <4>2
      <4>4. ASSUME NEW n \in 1..Len(got') PROVE got'[n] = op.offset + n
        <5>1. n \in 1..g \/ n = g + 1
          <6> HIDE DEF g, q
          <6> QED
            BY <4>2, <4>4
        <5>2. CASE n \in 1..g
          BY <2>2, <4>1, <5>2 DEF Contiguous
        <5>3. CASE n = g + 1
          <6>1. got'[n] = pipe[1]
            BY <2>2, <5>3
          <6> HIDE DEF g, q
          <6> QED
            BY <1>1, <4>2, <4>3, <5>3, <6>1
        <5> QED
          BY <5>1, <5>2, <5>3
      <4>5. ASSUME NEW n \in 1..Len(pipe') PROVE pipe'[n] = op.offset + Len(got') + n
        <5>1. n \in 1..(q - 1) /\ n + 1 \in 1..q
          <6> HIDE DEF g, q
          <6> QED
            BY <4>2, <4>5
        <5>2. pipe'[n] = pipe[n + 1] /\ pipe[n + 1] = op.offset + g + (n + 1)
          BY <2>2, <4>1, <5>1
        <5> DEFINE o == op.offset
        <5>3. o \in Int /\ pipe'[n] = o + g + (n + 1) /\ g \in Int /\ n \in Int /\ Len(got') = g + 1
          BY <1>1, <4>2, <5>2
        <5> HIDE DEF g, q, o
        <5>4. o + g + (n + 1) = o + (g + 1) + n
          BY <5>3
        <5> QED
          BY <5>3, <5>4 DEF o
      <4> QED
        BY <2>1, <4>4, <4>5 DEF Contiguous
    <3>2. Len(got') + Len(pipe') = Len(got) + Len(pipe)
      BY <2>2
    <3>3. data = "open" /\ pos > 0 /\ ~short => pos = op.offset + Len(got') + Len(pipe') + 1
      <4>1. data = "open" /\ pos > 0 /\ ~short => pos = op.offset + Len(got) + Len(pipe) + 1
        BY <1>1 DEF ContentOK
      <4> QED
        BY <1>1, <2>2, <4>1
    <3>4. op.name = "GetRange" => ~short
      BY <1>1 DEF ContentOK
    <3>5. offset = op.offset
      BY <1>1 DEF ContentOK, DataLabels, Transfers
    <3> QED
      BY <1>1, <1>2, <2>1, <3>1, <3>3, <3>4, <3>5, Labels DEF ContentOK
  <2> QED
    BY <2>3, <2>4, <2>5, <2>6, <2>7 DEF Inv
<1>4. CASE WriteCutShort
  <2>1. /\ pipe # <<>> /\ op.name = "Get" /\ pipe' = Tail(pipe) /\ short' = TRUE
        /\ UNCHANGED <<pc, op, got, data>>
    BY <1>4 DEF WriteCutShort
  <2>2. pipe' \in Seq(1..FileSize)
    BY <1>1, <2>1
  <2>3. TypeOK' /\ OpOK'
    BY <1>1, <1>2, <2>1, <2>2 DEF TypeOK, OpOK
  <2>4. SessionOK'
    BY <1>1, <1>2, <2>1 DEF SessionOK
  <2>5. ControlOK'
    BY <1>1, <1>2, <2>1, Labels DEF ControlOK, AwaitsTransfer, EndsWithTransfer
  <2>6. MarkerOK'
    BY <1>1, <1>2, <2>1, Labels DEF MarkerOK
  <2>7. ContentOK'
    BY <1>1, <1>2, <2>1, Labels DEF ContentOK, DataLabels
  <2> QED
    BY <2>3, <2>4, <2>5, <2>6, <2>7 DEF Inv
<1>5. CASE LoopEnds \/ WriteFails
  <2>1. /\ data' = "closed" /\ pipe' = <<>> /\ pc' = "transfer" /\ got' = got
        /\ \/ op' = op /\ short' = short
           \/ op' = [op EXCEPT !.name = IF @ = "GetRange" THEN "Refused" ELSE @] /\ short' = TRUE
    BY <1>5 DEF LoopEnds, WriteFails, CloseData
  <2>2. /\ op' \in Ops /\ op'.offset = op.offset /\ op'.name \in Transfers
        /\ short' \in BOOLEAN
        /\ \/ short' = short /\ op'.name = op.name
           \/ short' = TRUE /\ op'.name # "GetRange"
    BY <1>1, <2>1 DEF Ops, Transfers, TypeOK
  <2>3. TypeOK'
    BY <1>1, <1>2, <2>1, <2>2, Labels DEF TypeOK
  <2>4. OpOK'
    BY <2>1, <2>2 DEF OpOK, DataLabels, Transfers
  <2>5. SessionOK'
    BY <1>1, <1>2, <2>1, <2>2 DEF SessionOK, Transfers
  <2>6. ControlOK'
    BY <1>1, <1>2, <2>1, Labels DEF ControlOK, AwaitsTransfer, EndsWithTransfer
  <2>7. MarkerOK'
    BY <1>1, <1>2, <2>1, Labels DEF MarkerOK
  <2>8. ContentOK'
    BY <1>1, <1>2, <2>1, <2>2, Labels DEF ContentOK, DataLabels, Contiguous, Transfers
  <2> QED
    BY <2>3, <2>4, <2>5, <2>6, <2>7, <2>8 DEF Inv
<1> QED
  BY <1>3, <1>4, <1>5

(* The reply that ends the transfer, and with it the operation. *)
LEMMA TransferAnsweredInv ==
  ASSUME Inv, TransferAnswered
  PROVE  Inv'
<1> DEFINE ok == Class = 2 /\ (op.name = "Get" \/ (op.name = "GetRange" /\ Len(got) = op.size))
<1>1. /\ TypeOK /\ OpOK /\ SessionOK /\ AwaitsTransfer /\ MarkerOK /\ ContentOK
      /\ pc = "transfer" /\ op.name \in Transfers /\ ReadResponse /\ data = "closed" /\ pipe = <<>>
  <2>1. TypeOK /\ OpOK /\ SessionOK /\ ControlOK /\ MarkerOK /\ ContentOK /\ pc = "transfer" /\ ReadResponse
    BY DEF Inv, TransferAnswered
  <2> QED
    BY <2>1 DEF OpOK, SessionOK, ControlOK, DataLabels, TypeOK
<1>2. /\ Return(ok) /\ offset' \in 0..FileSize
      /\ UNCHANGED <<handle, is_connected, op, got, short, ops, data, leaked, owed, down, logged, marker, pos,
                     pipe>>
  BY <1>1, FtpBounds DEF TransferAnswered, TypeOK
<1>3. /\ inbox' \in Seq(Lines) /\ response' \in 0..5 /\ inbox \in Seq(Lines)
      /\ \A m \in DOMAIN inbox' : \E n \in DOMAIN inbox : inbox'[m] = inbox[n]
      /\ LastLines = {} => Class = 0
  BY <1>1, ReadAny DEF TypeOK
<1>4. CASE ~ok
  BY <1>1, <1>2, <1>3, <1>4, GivesUp DEF TypeOK
<1>5. CASE ok
  <2>1. pc' = "idle" /\ result' = "ok"
    BY <1>2, <1>5 DEF Return
  <2>2. inbox # <<>>
    BY <1>3, <1>5 DEF LastLines
  <2>3. Len(inbox) = 1 /\ inbox[1].last /\ pos = 0 /\ owed = <<>> /\ marker = 0
    BY <1>1, <2>2 DEF AwaitsTransfer, EndsWithTransfer, MarkerOK
  <2>4. inbox' = <<>>
    <3>1. Len(inbox') = 0
      BY <1>1, <2>3, ReadReply
    <3> QED
      BY <1>3, <3>1
  <2>5. TypeOK'
    BY <1>1, <1>2, <1>3, <2>1 DEF TypeOK
  <2>6. OpOK'
    BY <1>1, <1>2, <2>1 DEF OpOK, DataLabels
  <2>7. SessionOK'
    BY <1>1, <1>2, <1>3, <2>1 DEF SessionOK, Transfers
  <2>8. ControlOK' /\ MarkerOK'
    BY <1>2, <2>1, <2>3, <2>4, Labels DEF ControlOK, MarkerOK, Quiet
  <2>9. ContentOK'
    BY <1>1, <1>2, <1>5, <2>1, Labels DEF ContentOK, DataLabels, Contiguous
  <2> QED
    BY <2>5, <2>6, <2>7, <2>8, <2>9 DEF Inv
<1> QED
  BY <1>4, <1>5

LEMMA NoOpNamed ==
  ASSUME NEW name \in {"Connect", "Quit"}
  PROVE  [NoOp EXCEPT !.name = name] \in Ops /\ [NoOp EXCEPT !.name = name].name = name
<1> DEFINE Todo == Seq(Plain \X SUBSET (0..5))
<1>1. <<>> \in Todo /\ 0 \in 0..FileSize
  BY FtpBounds
<1>2. [NoOp EXCEPT !.name = name] = [name |-> name, offset |-> 0, size |-> 0, todo |-> <<>>]
  BY DEF NoOp
<1>3. Ops = [name : {"none", "Connect", "Command", "Quit"} \cup Transfers,
             offset : 0..FileSize, size : Nat, todo : Todo]
  BY DEF Ops
<1> HIDE DEF Todo
<1> QED
  BY <1>1, <1>2, <1>3

(* Quitting: from whatever state the session is in. *)
LEMMA QuitInv ==
  ASSUME Inv, Quit \/ QuitAnswered
  PROVE  Inv'
<1>1. TypeOK /\ OpOK /\ SessionOK /\ ContentOK
  BY DEF Inv
<1>2. CASE Quit
  <2>1. /\ pc = "idle" /\ handle /\ op' = [NoOp EXCEPT !.name = "Quit"] /\ Send("QUIT") /\ pc' = "QUIT"
        /\ UNCHANGED <<handle, is_connected, offset, response, got, short, result, ops, data, leaked, inbox,
                       down, logged, marker, pos, pipe>>
    BY <1>2 DEF Quit, FtpSendCmd, client
  <2>2. owed' \in Seq(Awaiting)
    BY <1>1, <2>1, Labels DEF Send, TypeOK
  <2>3. op' \in Ops /\ op'.name = "Quit"
    BY <2>1, NoOpNamed
  <2>4. TypeOK'
    BY <1>1, <2>1, <2>2, Labels DEF TypeOK
  <2>5. OpOK'
    BY <2>1, <2>3 DEF OpOK, DataLabels
  <2>6. SessionOK'
    BY <1>1, <2>1, <2>3 DEF SessionOK
  <2>7. ControlOK' /\ MarkerOK' /\ ContentOK'
    BY <2>1, <2>3, Labels DEF ControlOK, MarkerOK, ContentOK, DataLabels
  <2> QED
    BY <2>4, <2>5, <2>6, <2>7 DEF Inv
<1>3. CASE QuitAnswered
  <2>1. /\ pc = "QUIT" /\ ReadResponse /\ handle' = FALSE /\ is_connected' = FALSE
        /\ pc' = "idle" /\ result' = (IF op.name = "Quit" THEN "ok" ELSE "failed")
        /\ UNCHANGED <<offset, op, got, short, ops, data, leaked, owed, down, logged, marker, pos, pipe>>
    BY <1>3 DEF QuitAnswered, Return
  <2>2. /\ inbox' \in Seq(Lines) /\ response' \in 0..5
        /\ \A m \in DOMAIN inbox' : \E n \in DOMAIN inbox : inbox'[m] = inbox[n]
    BY <1>1, <2>1, ReadAny
  <2>3. TypeOK'
    BY <1>1, <2>1, <2>2, Labels DEF TypeOK
  <2>4. OpOK'
    BY <1>1, <2>1 DEF OpOK, DataLabels
  <2>5. SessionOK'
    BY <1>1, <2>1, <2>2 DEF SessionOK
  <2>6. ControlOK' /\ MarkerOK' /\ ContentOK'
    BY <1>1, <2>1, Labels DEF ControlOK, MarkerOK, ContentOK, DataLabels
  <2> QED
    BY <2>3, <2>4, <2>5, <2>6 DEF Inv
<1> QED
  BY <1>2, <1>3

(* The greeting is awaited. *)
LEMMA ConnectInv ==
  ASSUME Inv, Connect
  PROVE  Inv'
<1>1. /\ TypeOK /\ OpOK /\ SessionOK /\ pc = "idle" /\ ops = 0 /\ ops' = 1
      /\ op' = [NoOp EXCEPT !.name = "Connect"] /\ offset' = 0 /\ response' = 0
      /\ UNCHANGED <<is_connected, got, short, data, leaked, inbox, down, logged, marker, pos, pipe>>
  BY DEF Inv, Connect
<1>2. op' \in Ops /\ op'.name = "Connect"
  BY <1>1, NoOpNamed
<1>3. /\ ~handle /\ ~is_connected /\ ~down /\ marker = 0 /\ inbox = <<>> /\ owed = <<>> /\ pos = 0
      /\ got = <<>> /\ ~short
  BY <1>1 DEF SessionOK
<1>4. \/ pc' = "idle" /\ result' = "failed" /\ UNCHANGED <<handle, owed>>
      \/ pc' = "greeting" /\ handle' = TRUE /\ owed' = <<"greeting">> /\ UNCHANGED result
  BY DEF Connect, Return
<1>5. TypeOK'
  <2>1. <<"greeting">> \in Seq(Awaiting)
    BY Labels
  <2>2. offset' \in 0..FileSize /\ response' \in 0..5 /\ ops' \in 0..MaxOps
    BY <1>1, FtpBounds
  <2> QED
    BY <1>1, <1>4, <2>1, <2>2, Labels DEF TypeOK
<1>6. OpOK'
  BY <1>2, <1>4 DEF OpOK, DataLabels
<1>7. SessionOK'
  BY <1>1, <1>2, <1>3, <1>4 DEF SessionOK
<1>8. ControlOK'
  BY <1>1, <1>3, <1>4, Labels DEF ControlOK, Awaits, Quiet
<1>9. MarkerOK'
  BY <1>1, <1>3, <1>4, Labels DEF MarkerOK
<1>10. ContentOK'
  BY <1>1, <1>2, <1>3, <1>4, Labels DEF ContentOK, DataLabels, Transfers
<1> QED
  BY <1>5, <1>6, <1>7, <1>8, <1>9, <1>10 DEF Inv

(* The first command of an operation of a usable client. *)
LEMMA StartInv ==
  ASSUME Inv, Usable, NEW name \in {"Command", "Get", "GetRange"}, NEW off \in 0..FileSize,
         NEW size \in Nat, NEW todo \in Seq(Plain \X SUBSET (0..5)), NEW first \in Plain,
         Start(name, off, size, todo, first),
         offset' \in 0..FileSize, name # "Command" => offset' = off
  PROVE  Inv'
<1>1. /\ TypeOK /\ OpOK /\ SessionOK /\ ControlOK /\ MarkerOK /\ pc = "idle" /\ ops < MaxOps /\ ops' = ops + 1
      /\ op' = [name |-> name, offset |-> off, size |-> size, todo |-> todo]
      /\ got' = <<>> /\ short' = FALSE
      /\ UNCHANGED <<handle, is_connected, response, data, leaked, inbox, down, logged, marker, pos, pipe>>
  BY DEF Inv, Start
<1>2. op' \in Ops /\ op'.name = name /\ op'.offset = off
  BY <1>1 DEF Ops, Transfers
<1>3. \/ handle /\ pc' = first /\ owed' = (IF down THEN owed ELSE Append(owed, first)) /\ UNCHANGED result
      \/ ~handle /\ pc' = "idle" /\ result' = "failed" /\ UNCHANGED owed
  BY DEF Start, FtpSendCmd, Send, Return
<1>4. handle => Quiet /\ marker = 0
  BY <1>1 DEF ControlOK, MarkerOK
<1>5. handle => owed' = (IF down THEN <<>> ELSE <<first>>)
  <2>1. Append(<<>>, first) = <<first>>
    OBVIOUS
  <2> QED
    BY <1>3, <1>4, <2>1 DEF Quiet
<1>6. TypeOK'
  <2>1. owed' \in Seq(Awaiting)
    <3>1. first \in Awaiting
      BY Labels
    <3>2. owed \in Seq(Awaiting)
      BY <1>1 DEF TypeOK
    <3> QED
      BY <1>3, <3>1, <3>2, Pushed
  <2>2. ops' \in 0..MaxOps
    BY <1>1, FtpBounds DEF TypeOK
  <2>3. pc' \in Awaiting \cup {"idle"} /\ result' \in {"none", "ok", "failed"}
    BY <1>1, <1>3, Labels DEF TypeOK
  <2>4. <<>> \in Seq(1..FileSize)
    OBVIOUS
  <2> QED
    BY <1>1, <2>1, <2>2, <2>3, <2>4 DEF TypeOK
<1>7. OpOK'
  BY <1>2, <1>3, Labels DEF OpOK, DataLabels
<1>8. SessionOK'
  <2>1. ops' # 0
    BY <1>1 DEF TypeOK
  <2> QED
    BY <1>1, <1>2, <1>3, <2>1, Labels DEF SessionOK
<1>9. ControlOK'
  BY <1>1, <1>3, <1>4, <1>5, Labels DEF ControlOK, Awaits, Quiet
<1>10. MarkerOK'
  BY <1>1, <1>3, <1>4, Labels DEF MarkerOK
<1>11. ContentOK'
  BY <1>1, <1>2, <1>3, Labels DEF ContentOK, DataLabels, Transfers
<1> QED
  BY <1>6, <1>7, <1>8, <1>9, <1>10, <1>11 DEF Inv

-----------------------------------------------------------------------------
(* A reply of one or two lines behind what the inbox holds. *)
LEMMA ReplyLines ==
  ASSUME NEW class \in 1..5, NEW cmd \in Awaiting, NEW lines \in Replies(class, cmd), inbox \in Seq(Lines)
  PROVE  /\ inbox \o lines \in Seq(Lines)
         /\ Len(lines) \in {1, 2} /\ lines[Len(lines)].last /\ (Len(lines) = 2 => ~lines[1].last)
         /\ \A n \in 1..Len(lines) : lines[n].to = cmd /\ lines[n].class = class
         /\ inbox = <<>> => inbox \o lines = lines
         /\ \A m \in DOMAIN (inbox \o lines) :
              \/ \E n \in DOMAIN inbox : (inbox \o lines)[m] = inbox[n]
              \/ (inbox \o lines)[m].to = cmd /\ (inbox \o lines)[m].class = class
<1>1. \A last \in BOOLEAN :
        /\ Line(class, cmd, last) \in Lines /\ Line(class, cmd, last).last = last
        /\ Line(class, cmd, last).to = cmd /\ Line(class, cmd, last).class = class
  BY DEF Line, Lines
<1>2. PICK first, final : /\ first = Line(class, cmd, FALSE) /\ final = Line(class, cmd, TRUE)
                          /\ lines = <<final>> \/ lines = <<first, final>>
  BY DEF Replies
<1>3. /\ first \in Lines /\ final \in Lines /\ final.last /\ ~first.last
      /\ first.to = cmd /\ final.to = cmd /\ first.class = class /\ final.class = class
  BY <1>1, <1>2
<1>4. /\ lines \in Seq(Lines) /\ Len(lines) \in {1, 2} /\ lines[Len(lines)] = final
      /\ Len(lines) = 2 => lines[1] = first
      /\ \A n \in 1..Len(lines) : lines[n] \in {first, final}
  <2>1. CASE lines = <<final>>
    <3>1. lines \in Seq(Lines) /\ Len(lines) = 1 /\ lines[1] = final
      BY <1>3, <2>1
    <3> QED
      BY <3>1
  <2>2. CASE lines = <<first, final>>
    <3>1. lines \in Seq(Lines) /\ Len(lines) = 2 /\ lines[1] = first /\ lines[2] = final
      BY <1>3, <2>2
    <3>2. \A n \in 1..2 : n = 1 \/ n = 2
      OBVIOUS
    <3> QED
      BY <3>1, <3>2
  <2> QED
    BY <1>2, <2>1, <2>2
<1>5. /\ inbox \o lines \in Seq(Lines) /\ Len(inbox \o lines) = Len(inbox) + Len(lines) /\ Len(inbox) \in Nat
      /\ \A m \in 1..Len(inbox) : (inbox \o lines)[m] = inbox[m]
      /\ \A m \in 1..Len(lines) : (inbox \o lines)[Len(inbox) + m] = lines[m]
  BY <1>4
<1>6. ASSUME NEW m \in DOMAIN (inbox \o lines)
      PROVE  \/ \E n \in DOMAIN inbox : (inbox \o lines)[m] = inbox[n]
             \/ (inbox \o lines)[m].to = cmd /\ (inbox \o lines)[m].class = class
  <2> DEFINE k == m - Len(inbox)
  <2>1. m \in 1..(Len(inbox) + Len(lines)) /\ Len(inbox) \in Nat /\ Len(lines) \in Nat
    BY <1>4, <1>5, <1>6
  <2>2. CASE m <= Len(inbox)
    BY <1>5, <2>1, <2>2
  <2>3. CASE m > Len(inbox)
    <3>1. k \in 1..Len(lines) /\ m = Len(inbox) + k
      BY <2>1, <2>3
    <3>2. (inbox \o lines)[m] = lines[k]
      BY <1>5, <3>1
    <3> QED
      BY <1>3, <1>4, <3>1, <3>2
  <2> QED
    BY <2>1, <2>2, <2>3
<1>7. inbox = <<>> => inbox \o lines = lines
  BY <1>4
<1> QED
  BY <1>3, <1>4, <1>5, <1>6, <1>7

LEMMA PeerAnswersInv ==
  ASSUME Inv, PeerAnswers
  PROVE  Inv'
<1>1. /\ TypeOK /\ OpOK /\ SessionOK /\ ControlOK /\ MarkerOK /\ ContentOK
      /\ owed # <<>> /\ ~down /\ owed' = Tail(owed) /\ owed \in Seq(Awaiting) /\ inbox \in Seq(Lines)
      /\ UNCHANGED <<handle, is_connected, offset, response, pc, op, got, short, result, ops, data, leaked,
                     down, pipe>>
  BY DEF Inv, PeerAnswers, client, progress, TypeOK
<1> DEFINE cmd == Head(owed)
<1>2. cmd \in Awaiting /\ owed' \in Seq(Awaiting)
  BY <1>1, Popped
<1>3. PICK class \in {Accepts(cmd), 5} \cup (IF cmd = "USER" THEN {3} ELSE {}) :
        /\ \E lines \in Replies(class, cmd) : inbox' = inbox \o lines
        /\ logged' = (logged \/ (cmd \in {"USER", "PASS"} /\ class = 2))
        /\ marker' = (CASE cmd = "REST" /\ class = 3 -> op.offset
                        [] cmd = "RETR" -> 0
                        [] OTHER -> marker)
        /\ pos' = IF cmd = "RETR" /\ class = 1 THEN marker + 1 ELSE pos
  BY DEF PeerAnswers
<1>3a. PICK lines \in Replies(class, cmd) : inbox' = inbox \o lines
  BY <1>3
<1>4. class \in 1..5
  BY <1>3 DEF Accepts
<1>5. /\ inbox' \in Seq(Lines)
      /\ Len(lines) \in {1, 2} /\ lines[Len(lines)].last /\ (Len(lines) = 2 => ~lines[1].last)
      /\ \A n \in 1..Len(lines) : lines[n].to = cmd /\ lines[n].class = class
      /\ inbox = <<>> => inbox' = lines
      /\ \A m \in DOMAIN inbox' :
           \/ \E n \in DOMAIN inbox : inbox'[m] = inbox[n]
           \/ inbox'[m].to = cmd /\ inbox'[m].class = class
  <2> HIDE DEF cmd
  <2>1. /\ inbox \o lines \in Seq(Lines)
        /\ Len(lines) \in {1, 2} /\ lines[Len(lines)].last /\ (Len(lines) = 2 => ~lines[1].last)
        /\ \A n \in 1..Len(lines) : lines[n].to = cmd /\ lines[n].class = class
        /\ inbox = <<>> => inbox \o lines = lines
    BY <1>1, <1>2, <1>4, ReplyLines
  <2>2. \A m \in DOMAIN (inbox \o lines) :
           \/ \E n \in DOMAIN inbox : (inbox \o lines)[m] = inbox[n]
           \/ (inbox \o lines)[m].to = cmd /\ (inbox \o lines)[m].class = class
    BY <1>1, <1>2, <1>4, ReplyLines
  <2> QED
    BY <1>3a, <2>1, <2>2
<1>6. /\ marker' \in 0..FileSize /\ pos' \in 0..(FileSize + 1) /\ logged' \in BOOLEAN
      /\ logged => logged'
  <2>1. /\ op.offset \in 0..FileSize /\ marker \in 0..FileSize /\ pos \in 0..(FileSize + 1)
        /\ logged \in BOOLEAN
    BY <1>1 DEF OpOK, Ops, TypeOK
  <2>2. marker + 1 \in 0..(FileSize + 1) /\ 0 \in 0..FileSize
    BY <2>1, FtpBounds
  <2> QED
    BY <1>3, <2>1, <2>2
<1>7. TypeOK' /\ OpOK'
  BY <1>1, <1>2, <1>5, <1>6 DEF TypeOK, OpOK
<1>8. SessionOK'
  <2>1. \A m \in DOMAIN inbox' : inbox'[m].to \in {"USER", "PASS"} /\ inbox'[m].class = 2 => logged'
    BY <1>1, <1>3, <1>5, <1>6 DEF SessionOK
  <2>2. ops # 0
    BY <1>1 DEF SessionOK
  <2> QED
    BY <1>1, <1>6, <2>1, <2>2 DEF SessionOK
<1>9. CASE pc \in Simple
  <2>1. owed = <<pc>> /\ inbox = <<>> /\ pos = 0
    BY <1>1, <1>9 DEF ControlOK, Awaits
  <2>2. cmd = pc /\ owed' = <<>> /\ inbox' = lines /\ pos' = 0
    BY <1>1, <1>3, <1>5, <1>9, <2>1, Labels
  <2>3. Answered(pc, 0)'
    BY <1>1, <1>5, <2>2 DEF Answered
  <2>4. ControlOK'
    BY <1>1, <1>9, <2>2, <2>3, Labels DEF ControlOK, Awaits
  <2>5. MarkerOK'
    <3>1. pc # "REST" => marker' = 0
      BY <1>1, <1>3, <1>9, <2>2, Labels DEF MarkerOK
    <3>2. ASSUME pc = "REST", inbox'[Len(inbox')].class = 3 PROVE marker' = op.offset
      <4>1. Len(lines) \in 1..Len(lines)
        <5>1. \A k \in {1, 2} : k \in 1..k
          OBVIOUS
        <5> QED
          BY <1>5, <5>1
      <4>2. class = 3 /\ cmd = "REST"
        BY <1>5, <2>2, <3>2, <4>1
      <4> HIDE DEF cmd
      <4> QED
        BY <1>3, <4>2
    <3> QED
      BY <1>1, <1>9, <3>1, <3>2, Labels DEF MarkerOK
  <2>6. ContentOK'
    BY <1>1, <1>9, <2>2, Labels DEF ContentOK, DataLabels
  <2> QED
    BY <1>7, <1>8, <2>4, <2>5, <2>6 DEF Inv
<1>10. CASE pc \in {"connect", "RETR"}
  <2>1. owed = <<"RETR">> /\ inbox = <<>> /\ pos = 0 /\ pipe = <<>> /\ marker = op.offset
    BY <1>1, <1>10 DEF ControlOK, AwaitsRetr, MarkerOK
  <2>2. cmd = "RETR" /\ owed' = <<>> /\ inbox' = lines /\ marker' = 0
    BY <1>1, <1>3, <1>5, <2>1
  <2>3. Answered("RETR", 0)'
    BY <1>5, <2>2 DEF Answered
  <2>4. ControlOK'
    BY <1>1, <1>10, <2>2, <2>3, Labels DEF ControlOK, AwaitsRetr
  <2>5. MarkerOK'
    BY <1>1, <1>10, <2>2, Labels DEF MarkerOK
  <2>6. ContentOK'
    <3>1. got = <<>> /\ ~short /\ op.offset \in 0..FileSize
      BY <1>1, <1>10 DEF ContentOK, OpOK, Ops
    <3>2. pos' > 0 => pos' = op.offset + 1
      BY <1>3, <2>1
    <3>3. pos' > 0 => pos' = op.offset + Len(got) + Len(pipe) + 1
      BY <2>1, <3>1, <3>2
    <3> QED
      BY <1>1, <1>10, <2>1, <2>2, <3>1, <3>2, <3>3, Labels DEF ContentOK, DataLabels, Contiguous
  <2> QED
    BY <1>7, <1>8, <2>4, <2>5, <2>6 DEF Inv
<1>11. CASE pc \notin Simple \cup {"connect", "RETR"}
  <2>1. pc \notin {"socket", "read", "transfer"} /\ ~(pc = "idle" /\ handle /\ Usable)
    BY <1>1 DEF ControlOK, Quiet, AwaitsTransfer
  <2>2. ControlOK' /\ MarkerOK'
    BY <1>1, <1>11, <2>1, Labels DEF ControlOK, MarkerOK, Usable
  <2>3. ContentOK'
    BY <1>1, <1>11, <2>1, Labels DEF ContentOK, DataLabels, Contiguous
  <2> QED
    BY <1>7, <1>8, <2>2, <2>3 DEF Inv
<1> QED
  BY <1>9, <1>10, <1>11

(* The peer sends a block. *)
LEMMA PeerSendsInv ==
  ASSUME Inv, PeerSends
  PROVE  Inv'
<1>1. /\ TypeOK /\ OpOK /\ SessionOK /\ ControlOK /\ MarkerOK /\ ContentOK
      /\ pos \in 1..FileSize /\ data = "open" /\ pipe' = Append(pipe, pos) /\ pos' = pos + 1
      /\ pipe \in Seq(1..FileSize) /\ got \in Seq(1..FileSize) /\ op.offset \in 0..FileSize
      /\ UNCHANGED <<handle, is_connected, offset, response, pc, op, got, short, result, ops, data, leaked,
                     owed, inbox, down, logged, marker>>
  BY DEF Inv, PeerSends, client, progress, TypeOK, OpOK, Ops
<1>2. pc \in {"RETR", "read"}
  BY <1>1 DEF SessionOK
<1>3. /\ pipe' \in Seq(1..FileSize) /\ Len(pipe) \in Nat /\ Len(pipe') = Len(pipe) + 1
      /\ pipe'[Len(pipe) + 1] = pos /\ \A n \in 1..Len(pipe) : pipe'[n] = pipe[n]
  BY <1>1, Pushed
<1>4. TypeOK' /\ OpOK'
  <2>1. pos' \in 0..(FileSize + 1)
    BY <1>1, FtpBounds
  <2> QED
    BY <1>1, <1>3, <2>1 DEF TypeOK, OpOK
<1>5. SessionOK'
  BY <1>1, <1>2 DEF SessionOK
<1>6. ControlOK'
  <2>1. CASE pc = "read"
    <3>1. owed = <<>> /\ inbox = <<>>
      BY <1>1, <2>1 DEF ControlOK, AwaitsTransfer, EndsWithTransfer
    <3> QED
      BY <1>1, <2>1, <3>1, Labels DEF ControlOK, AwaitsTransfer
  <2>2. CASE pc = "RETR"
    <3>1. owed = <<>> /\ Answered("RETR", 0)
      BY <1>1, <2>2 DEF ControlOK, AwaitsRetr, EndsWithTransfer
    <3> QED
      BY <1>1, <2>2, <3>1, Labels DEF ControlOK, AwaitsRetr, Answered
  <2> QED
    BY <1>2, <2>1, <2>2
<1>7. MarkerOK'
  BY <1>1, <1>2, Labels DEF MarkerOK
<1>8. ContentOK'
  <2> DEFINE g == Len(got)
             q == Len(pipe)
             o == op.offset
  <2>1. g \in Nat /\ q \in Nat /\ o \in Int
    BY <1>1, <1>3
  <2>2. ~short => pos = o + g + q + 1
    BY <1>1, <1>2 DEF ContentOK
  <2>3. ~short => \A n \in 1..q : pipe[n] = o + g + n
    BY <1>1, <1>2 DEF ContentOK
  <2>4. ASSUME ~short PROVE pos' = o + g + (q + 1) + 1
    <3> HIDE DEF g, q, o
    <3> QED
      BY <1>1, <2>1, <2>2, <2>4
  <2>5. ASSUME ~short, NEW n \in 1..(q + 1) PROVE pipe'[n] = o + g + n
    <3>1. n \in 1..q \/ n = q + 1
      <4> HIDE DEF q
      <4> QED
        BY <2>1
    <3>2. CASE n \in 1..q
      BY <1>3, <2>3, <2>5, <3>2
    <3>3. CASE n = q + 1
      <4>1. pipe'[n] = pos /\ pos = o + g + q + 1
        BY <1>3, <2>2, <2>5, <3>3
      <4> HIDE DEF g, q, o
      <4> QED
        BY <2>1, <3>3, <4>1
    <3> QED
      BY <3>1, <3>2, <3>3
  <2>6. /\ op.name = "GetRange" => ~short
        /\ op.name \in Transfers => offset = op.offset
        /\ pc = "RETR" => got = <<>> /\ ~short
        /\ ~short => Contiguous
    BY <1>1, <1>2 DEF ContentOK, DataLabels
  <2>7. owed = <<>>
    BY <1>1, <1>2 DEF ControlOK, AwaitsRetr, AwaitsTransfer
  <2> QED
    BY <1>1, <1>2, <1>3, <2>4, <2>5, <2>6, <2>7, Labels DEF ContentOK, Contiguous
<1> QED
  BY <1>4, <1>5, <1>6, <1>7, <1>8 DEF Inv

(* The peer ends a transfer with one more reply. *)
LEMMA PeerEndsTransferInv ==
  ASSUME Inv, PeerEndsTransfer
  PROVE  Inv'
<1>1. /\ TypeOK /\ OpOK /\ SessionOK /\ ControlOK /\ MarkerOK /\ ContentOK
      /\ pos > 0 /\ pc # "connect" /\ pos' = 0 /\ inbox \in Seq(Lines)
      /\ UNCHANGED <<handle, is_connected, offset, response, pc, op, got, short, result, ops, data, leaked,
                     owed, down, logged, marker, pipe>>
  BY DEF Inv, PeerEndsTransfer, client, progress, TypeOK
<1>2. PICK class \in {2, 4} : inbox' = Append(inbox, Line(class, "transfer", TRUE))
  BY DEF PeerEndsTransfer
<1>3. PICK l \in Lines : inbox' = Append(inbox, l) /\ l.to = "transfer" /\ l.last
  <2>1. Line(class, "transfer", TRUE) \in Lines
    BY Labels DEF Line, Lines
  <2>2. Line(class, "transfer", TRUE).to = "transfer" /\ Line(class, "transfer", TRUE).last
    BY DEF Line
  <2> QED
    BY <1>2, <2>1, <2>2
<1>4. /\ inbox' \in Seq(Lines) /\ Len(inbox) \in Nat /\ Len(inbox') = Len(inbox) + 1
      /\ inbox'[Len(inbox) + 1] = l /\ \A n \in 1..Len(inbox) : inbox'[n] = inbox[n]
  BY <1>1, <1>3, Pushed
<1>5. TypeOK' /\ OpOK'
  <2>1. pos' \in 0..(FileSize + 1)
    BY <1>1, FtpBounds
  <2> QED
    BY <1>1, <1>4, <2>1 DEF TypeOK, OpOK
<1>6. SessionOK'
  <2>1. ops # 0
    BY <1>1 DEF SessionOK
  <2>2. ASSUME NEW m \in DOMAIN inbox', inbox'[m].to \in {"USER", "PASS"}, inbox'[m].class = 2 PROVE logged
    <3> DEFINE k == Len(inbox)
    <3>1. m \in 1..(k + 1) /\ k \in Nat /\ DOMAIN inbox = 1..k
      BY <1>1, <1>4, <2>2
    <3>2. m \in 1..k \/ m = k + 1
      <4> HIDE DEF k
      <4> QED
        BY <3>1
    <3> QED
      BY <1>1, <1>3, <1>4, <2>2, <3>1, <3>2 DEF SessionOK
  <2> QED
    BY <1>1, <2>1, <2>2 DEF SessionOK
<1>7. EndsWithTransfer'
  BY <1>1, <1>3, <1>4 DEF EndsWithTransfer
<1>8. pc \notin Simple \cup {"socket", "connect"} /\ ~(pc = "idle" /\ handle /\ Usable)
  BY <1>1 DEF ControlOK, Awaits, Quiet
<1>9. ControlOK'
  <2>1. ASSUME pc = "RETR" PROVE AwaitsRetr'
    <3>1. owed = <<>> /\ Answered("RETR", 0)
      BY <1>1, <2>1 DEF ControlOK, AwaitsRetr, EndsWithTransfer
    <3>2. PICK n \in {1, 2} : /\ Len(inbox) = n /\ inbox[1].to = "RETR" /\ inbox[n].to = "RETR"
                              /\ inbox[n].last /\ (n = 2 => ~inbox[1].last)
      BY <3>1 DEF Answered
    <3>3. 1 \in 1..n /\ n \in 1..n
      BY <3>2
    <3>4. inbox'[1] = inbox[1] /\ inbox'[n] = inbox[n] /\ Len(inbox') = n + 1
      BY <1>4, <3>2, <3>3
    <3>5. Answered("RETR", 1)'
      BY <3>2, <3>4 DEF Answered
    <3> QED
      BY <1>1, <1>7, <3>1, <3>5 DEF AwaitsRetr
  <2>2. ASSUME pc \in {"read", "transfer"} PROVE AwaitsTransfer'
    <3>1. owed = <<>> /\ inbox = <<>>
      BY <1>1, <2>2 DEF ControlOK, AwaitsTransfer, EndsWithTransfer
    <3>2. Len(inbox') = 1
      BY <1>4, <3>1
    <3> QED
      BY <1>1, <1>7, <3>1, <3>2 DEF AwaitsTransfer
  <2> QED
    BY <1>1, <1>8, <2>1, <2>2 DEF ControlOK, Usable
<1>10. MarkerOK'
  <2>1. ASSUME pc = "RETR" PROVE marker = 0
    <3>1. inbox # <<>>
      BY <1>1, <2>1 DEF ControlOK, AwaitsRetr, Answered
    <3> QED
      BY <1>1, <2>1, <3>1 DEF MarkerOK
  <2>2. pc \in {"read", "transfer"} => marker = 0
    BY <1>1 DEF MarkerOK
  <2>3. pc = "RETR" => owed = <<>>
    BY <1>1 DEF ControlOK, AwaitsRetr
  <2> QED
    BY <1>1, <1>8, <2>1, <2>2, <2>3, Labels DEF MarkerOK, Usable
<1>11. ContentOK'
  BY <1>1, <1>8 DEF ContentOK, Contiguous
<1> QED
  BY <1>5, <1>6, <1>9, <1>10, <1>11 DEF Inv

(* The peer hangs up: what it owed is never answered. *)
LEMMA PeerClosesInv ==
  ASSUME Inv, PeerCloses
  PROVE  Inv'
<1>1. /\ TypeOK /\ OpOK /\ SessionOK /\ ControlOK /\ MarkerOK /\ ContentOK
      /\ handle /\ down' = TRUE /\ owed' = <<>> /\ pos' = 0
      /\ UNCHANGED <<handle, is_connected, offset, response, pc, op, got, short, result, ops, data, leaked,
                     inbox, logged, marker, pipe>>
  BY DEF Inv, PeerCloses, client, progress
<1>2. TypeOK' /\ OpOK'
  <2>1. pos' \in 0..(FileSize + 1) /\ <<>> \in Seq(Awaiting)
    BY <1>1, FtpBounds
  <2> QED
    BY <1>1, <2>1 DEF TypeOK, OpOK
<1>3. SessionOK'
  <2>1. ops # 0
    BY <1>1 DEF SessionOK
  <2> QED
    BY <1>1, <2>1 DEF SessionOK
<1>4. ControlOK'
  <2>1. ASSUME pc \in Simple PROVE Awaits(pc)'
    <3>1. inbox = <<>> \/ Answered(pc, 0)
      BY <1>1, <2>1 DEF ControlOK, Awaits
    <3>2. Answered(pc, 0) => Answered(pc, 0)'
      BY <1>1 DEF Answered
    <3> QED
      BY <1>1, <3>1, <3>2 DEF Awaits
  <2>2. ASSUME pc \in {"connect", "RETR"} PROVE AwaitsRetr'
    <3>1. \/ inbox = <<>>
          \/ Answered("RETR", 0)
          \/ Answered("RETR", 1) /\ EndsWithTransfer
      BY <1>1, <2>2 DEF ControlOK, AwaitsRetr
    <3>2. /\ Answered("RETR", 0) => Answered("RETR", 0)'
          /\ Answered("RETR", 1) => Answered("RETR", 1)'
          /\ EndsWithTransfer => EndsWithTransfer'
      BY <1>1 DEF Answered, EndsWithTransfer
    <3> QED
      BY <1>1, <3>1, <3>2 DEF AwaitsRetr
  <2>3. ASSUME pc \in {"read", "transfer"} PROVE AwaitsTransfer'
    BY <1>1, <2>3 DEF ControlOK, AwaitsTransfer, EndsWithTransfer
  <2> QED
    BY <1>1, <2>1, <2>2, <2>3 DEF ControlOK, Quiet, Usable
<1>5. MarkerOK'
  BY <1>1 DEF MarkerOK, Usable
<1>6. ContentOK'
  BY <1>1 DEF ContentOK, Contiguous
<1> QED
  BY <1>2, <1>3, <1>4, <1>5, <1>6 DEF Inv

(* The data connection breaks. *)
LEMMA DataResetInv ==
  ASSUME Inv, DataReset
  PROVE  Inv'
<1>1. /\ TypeOK /\ OpOK /\ SessionOK /\ ControlOK /\ MarkerOK /\ ContentOK
      /\ data = "open" /\ data' = "reset" /\ pipe' = <<>>
      /\ UNCHANGED <<handle, is_connected, offset, response, pc, op, got, short, result, ops, leaked,
                     owed, inbox, down, logged, marker, pos>>
  BY DEF Inv, DataReset, client, progress
<1>2. TypeOK' /\ OpOK'
  <2>1. <<>> \in Seq(1..FileSize)
    OBVIOUS
  <2> QED
    BY <1>1, <2>1 DEF TypeOK, OpOK
<1>3. SessionOK'
  BY <1>1 DEF SessionOK
<1>4. ControlOK'
  <2>1. /\ \A cmd : Awaits(cmd) => Awaits(cmd)'
        /\ AwaitsTransfer => AwaitsTransfer'
    BY <1>1 DEF Awaits, Answered, AwaitsTransfer, EndsWithTransfer
  <2>2. AwaitsRetr => AwaitsRetr'
    BY <1>1 DEF AwaitsRetr, Answered, EndsWithTransfer
  <2> QED
    BY <1>1, <2>1, <2>2 DEF ControlOK, Quiet, Usable
<1>5. MarkerOK'
  BY <1>1 DEF MarkerOK, Usable
<1>6. ContentOK'
  <2>1. \A n \in 1..Len(pipe') : pipe'[n] = op.offset + Len(got) + n
    <3>1. 1..Len(pipe') = {}
      BY <1>1
    <3> QED
      BY <3>1
  <2> QED
    BY <1>1, <2>1 DEF ContentOK, Contiguous
<1> QED
  BY <1>2, <1>3, <1>4, <1>5, <1>6 DEF Inv

-----------------------------------------------------------------------------
LEMMA OperationsInv ==
  ASSUME Inv, Command \/ \E off \in Offsets : Get(off) \/ \E size \in Sizes : GetRange(off, size)
  PROVE  Inv'
<1>0. "TYPE" \in Plain /\ <<>> \in Seq(Plain \X SUBSET (0..5)) /\ Offsets \subseteq 0..FileSize
      /\ Sizes \subseteq Nat /\ FileSize \in Nat /\ 0 \in 0..FileSize
  BY Labels, FtpBounds
<1>1. CASE Command
  <2>1. PICK c \in Commands : Start("Command", 0, 0, c, c[1][1])
    BY <1>1 DEF Command
  <2>2. Usable /\ offset' \in 0..FileSize
    BY <1>1 DEF Command, Inv, TypeOK
  <2>3. c \in Seq(Plain \X SUBSET (0..5)) /\ c[1][1] \in Plain
    BY CommandLists
  <2> QED
    BY <1>0, <2>1, <2>2, <2>3, StartInv
<1>2. ASSUME NEW off \in Offsets, Get(off) PROVE Inv'
  <2>1. Usable /\ Start("Get", off, FileSize, <<>>, "TYPE") /\ offset' = off /\ off \in 0..FileSize
    BY <1>0, <1>2 DEF Get
  <2> QED
    BY <1>0, <2>1, StartInv
<1>3. ASSUME NEW off \in Offsets, NEW size \in Sizes, GetRange(off, size) PROVE Inv'
  <2>1. /\ Usable /\ Start("GetRange", off, size, <<>>, "TYPE") /\ offset' = off
        /\ off \in 0..FileSize /\ size \in Nat
    BY <1>0, <1>3 DEF GetRange
  <2> QED
    BY <1>0, <2>1, StartInv
<1> QED
  BY <1>1, <1>2, <1>3

LEMMA StepInv == Inv /\ [Next]_vars => Inv'
<1> SUFFICES ASSUME Inv, [Next]_vars PROVE Inv'
  OBVIOUS
<1>1. CASE Running
  BY <1>1, LoginInv, QuitInv, CommandInv, AccessInv, RestInv, RetrInv, RetrAnsweredInv, LoopInv,
     TransferAnsweredInv DEF Running
<1>2. CASE Connect \/ Quit
  BY <1>2, ConnectInv, QuitInv
<1>3. CASE Command \/ \E off \in Offsets : Get(off) \/ \E size \in Sizes : GetRange(off, size)
  BY <1>3, OperationsInv
<1>4. CASE Peer
  BY <1>4, PeerAnswersInv, PeerSendsInv, PeerEndsTransferInv DEF Peer
<1>5. CASE PeerCloses \/ DataReset
  BY <1>5, PeerClosesInv, DataResetInv
<1>6. CASE UNCHANGED vars
  <2>1. /\ TypeOK /\ OpOK /\ SessionOK /\ ControlOK /\ MarkerOK /\ ContentOK
        /\ UNCHANGED <<handle, is_connected, offset, response, pc, op, got, short, result, ops, data, leaked,
                       owed, inbox, down, logged, marker, pos, pipe>>
    BY <1>6 DEF Inv, vars
  <2>2. TypeOK' /\ OpOK' /\ SessionOK'
    BY <2>1 DEF TypeOK, OpOK, SessionOK
  <2>3. ControlOK'
    <3>1. \A cmd, k : Answered(cmd, k) <=> Answered(cmd, k)'
      BY <2>1 DEF Answered
    <3> QED
      BY <2>1, <3>1 DEF ControlOK, Awaits, AwaitsRetr, AwaitsTransfer, EndsWithTransfer, Quiet, Usable
  <2>4. MarkerOK' /\ ContentOK'
    BY <2>1 DEF MarkerOK, ContentOK, Usable, Contiguous
  <2> QED
    BY <2>2, <2>3, <2>4 DEF Inv
<1> QED
  BY <1>1, <1>2, <1>3, <1>4, <1>5, <1>6 DEF Next

(***************************************************************************)
(* At every place of the code the control connection holds exactly what    *)
(* that place reads next: the reply to the last command, before or after   *)
(* the peer sent it, and for a transfer one closing reply.                 *)
(***************************************************************************)
THEOREM FtpSessionInv == Spec => []Inv
<1>1. Init => Inv
  BY InitInv
<1>2. Inv /\ [Next]_vars => Inv'
  BY StepInv
<1> QED
  BY <1>1, <1>2, PTL DEF Spec

(* The state of the session has its types: no REST offset, restart marker  *)
(* or block lies behind the end of the file, whatever the peer answers.    *)
THEOREM FtpTypeOK == Spec => []TypeOK
<1>1. Inv => TypeOK
  BY DEF Inv
<1> QED
  BY <1>1, FtpSessionInv, PTL

(* Every reply that decides something answers the command just sent,       *)
(* through refusals, resets, cut transfers and replies of several lines    *)
(* (FtpSendCmd and ReadResponse, ftpclient.cpp:181-233, 584-588).          *)
THEOREM FtpRepliesInStep == Spec => []RepliesInStep
<1>1. Inv => RepliesInStep
  <2> SUFFICES ASSUME Inv, pc \in Awaiting \ {"QUIT"}, inbox # <<>>
               PROVE  inbox[1].to = pc
    BY DEF RepliesInStep
  <2>1. CASE pc \in Simple
    BY <2>1 DEF Inv, ControlOK, Awaits, Answered
  <2>2. CASE pc = "RETR"
    BY <2>2 DEF Inv, ControlOK, AwaitsRetr, Answered
  <2>3. CASE pc = "transfer"
    BY <2>3 DEF Inv, ControlOK, AwaitsTransfer, EndsWithTransfer
  <2> QED
    BY <2>1, <2>2, <2>3 DEF Simple
<1> QED
  BY <1>1, FtpSessionInv, PTL

(* A client that goes back to the pool (http_server.cpp:280-288) has no    *)
(* reply outstanding or unread, no transfer under way, no data connection  *)
(* open or lost, and is logged in, unless the peer has hung up.            *)
THEOREM FtpPooledIsQuiet == Spec => []PooledIsQuiet
<1>1. Inv => PooledIsQuiet
  <2> SUFFICES ASSUME Inv, pc = "idle", is_connected, result = "ok", ~down
               PROVE  /\ inbox = <<>> /\ owed = <<>> /\ pos = 0
                      /\ data = "closed" /\ leaked = 0 /\ logged
    BY DEF PooledIsQuiet
  <2>1. handle /\ data = "closed" /\ leaked = 0 /\ logged /\ op.name # "Quit"
    BY DEF Inv, SessionOK
  <2>2. Quiet
    BY <2>1 DEF Inv, ControlOK, Usable
  <2> QED
    BY <2>1, <2>2 DEF Quiet
<1> QED
  BY <1>1, FtpSessionInv, PTL

(* A GetRange that returns 1 has given the sink exactly the blocks asked   *)
(* for, and a Get that returns 1 has written blocks from its offset on, in *)
(* order and without a gap (ftpclient.cpp:914-940, 1268-1296).             *)
THEOREM FtpSuccessIsExact == Spec => []SuccessIsExact
<1>1. Inv => SuccessIsExact
  <2> SUFFICES ASSUME Inv, pc = "idle", result = "ok"
               PROVE  /\ op.name = "GetRange" => got = Asked
                      /\ op.name = "Get" /\ ~short => got = SubSeq(Sent, 1, Len(got))
    BY DEF SuccessIsExact
  <2>1. got \in Seq(1..FileSize) /\ op.offset \in 0..FileSize /\ op.size \in Nat /\ FileSize \in Nat
    BY FtpBounds DEF Inv, TypeOK, OpOK, Ops
  <2>2. ASSUME op.name = "GetRange" PROVE got = Asked
    <3>1. Contiguous /\ Len(got) = op.size
      BY <2>2 DEF Inv, ContentOK
    <3>2. got = [n \in 1..Len(got) |-> got[n]]
      BY <2>1
    <3>3. \A n \in 1..Len(got) : got[n] = op.offset + n
      BY <3>1 DEF Contiguous
    <3> QED
      BY <3>1, <3>2, <3>3 DEF Asked
  <2>3. ASSUME op.name = "Get", ~short PROVE got = SubSeq(Sent, 1, Len(got))
    <3>1. \A n \in 1..Len(got) : got[n] = op.offset + n
      BY <2>3 DEF Inv, ContentOK, Contiguous
    <3> DEFINE k == Len(got)
               w == FileSize - op.offset
    <3>2. k \in Nat /\ w \in Nat
      BY <2>1
    <3>3. k <= w
      <4>1. CASE k = 0
        BY <3>2, <4>1
      <4>2. CASE k # 0
        <5>1. k \in 1..k
          BY <3>2, <4>2
        <5>2. got[k] \in 1..FileSize /\ got[k] = op.offset + k
          BY <2>1, <3>1, <5>1
        <5> HIDE DEF k
        <5> QED
          BY <2>1, <3>2, <5>2
      <4> QED
        BY <4>1, <4>2
    <3>4. got = [n \in 1..k |-> op.offset + n]
      <4>1. got = [n \in 1..k |-> got[n]]
        BY <2>1
      <4> QED
        BY <3>1, <4>1
    <3> HIDE DEF k, w
    <3>5. SubSeq(Sent, 1, k) = [n \in 1..k |-> op.offset + n]
      <4>1. Sent \in Seq(Int) /\ Len(Sent) = w /\ \A n \in 1..w : Sent[n] = op.offset + n
        <5>1. Sent = [n \in 1..w |-> op.offset + n]
          BY DEF Sent, w
        <5>2. \A n \in 1..w : op.offset + n \in Int
          BY <2>1
        <5> QED
          BY <3>2, <5>1, <5>2
      <4>2. Len(SubSeq(Sent, 1, k)) = k /\ SubSeq(Sent, 1, k) \in Seq(Int)
        BY <3>2, <3>3, <4>1
      <4>3. \A n \in 1..k : SubSeq(Sent, 1, k)[n] = Sent[n]
        BY <3>2, <3>3, <4>1
      <4>4. \A n \in 1..k : SubSeq(Sent, 1, k)[n] = op.offset + n
        BY <3>2, <3>3, <4>1, <4>3
      <4>5. SubSeq(Sent, 1, k) = [n \in 1..k |-> SubSeq(Sent, 1, k)[n]]
        BY <4>2
      <4> QED
        BY <4>4, <4>5
    <3> QED
      BY <3>4, <3>5 DEF k
  <2> QED
    BY <2>2, <2>3
<1> QED
  BY <1>1, FtpSessionInv, PTL

-----------------------------------------------------------------------------
(* The client implements RemoteClient.  A step inside of an operation is   *)
(* none of the interface's.                                                *)
LEMMA StaysInside ==
  ASSUME pc # "idle", pc' # "idle", op'.size = op.size,
         op'.name = op.name \/ (op.name = "GetRange" /\ op'.name = "Refused"),
         UNCHANGED <<got, result, is_connected>>
  PROVE  UNCHANGED Interface!vars
<1>1. Called' = Called /\ Handed' = Handed
  BY DEF Called, Handed
<1> QED
  BY <1>1 DEF Interface!vars

(* The return of an operation.                                             *)
LEMMA ReturnsMap ==
  ASSUME Inv, pc # "idle", NEW ok \in BOOLEAN, Return(ok), UNCHANGED <<op, got>>,
         op.name \in {"Connect", "Command", "Quit"} \cup Transfers,
         ok => op.name # "Refused" /\ (op.name = "GetRange" => Len(got) = op.size),
         op.name = "Connect" => is_connected' \in BOOLEAN /\ (is_connected' => ok),
         op.name = "Quit" => is_connected' = FALSE,
         op.name \in {"Command"} \cup Transfers => is_connected' = is_connected
  PROVE  Interface!Return
<1> DEFINE r == IF result' = "ok" THEN 1 ELSE 0
<1>1. Called # "none" /\ Called' = "none" /\ Handed' = Handed /\ op'.size = op.size
  BY DEF Called, Handed, Return, Transfers
<1>2. r \in {0, 1} /\ (r = 1 <=> ok)
  BY DEF Return
<1>3. Called = "Connect" <=> op.name = "Connect"
  BY DEF Called, Transfers
<1>4. Called = "Quit" <=> op.name = "Quit"
  BY DEF Called, Transfers
<1>5. r = 1 /\ Called \in {"GetRange"} => Handed = op.size
  BY <1>2 DEF Called, Handed
<1> HIDE DEF r
<1>7. CASE op.name = "Connect"
  <2>1. Called = "Connect" /\ (is_connected' => r = 1)
    BY <1>2, <1>3, <1>7
  <2> QED
    BY <1>1, <1>2, <1>5, <1>7, <2>1 DEF Interface!Return, r
<1>8. CASE op.name = "Quit"
  <2>1. Called = "Quit" /\ is_connected' = FALSE
    BY <1>4, <1>8
  <2> QED
    BY <1>1, <1>2, <1>5, <2>1 DEF Interface!Return, r
<1>9. CASE op.name \in {"Command"} \cup Transfers
  <2>1. Called # "Connect" /\ Called # "Quit" /\ is_connected' = is_connected
    BY <1>3, <1>4, <1>9 DEF Transfers
  <2> QED
    BY <1>1, <1>2, <1>5, <2>1 DEF Interface!Return, r
<1> QED
  BY <1>7, <1>8, <1>9

(* The begin of an operation, or its failure without a socket.             *)
LEMMA BeginsMap ==
  ASSUME Inv, Connect \/ Quit \/ Command \/ \E off \in Offsets : Get(off) \/ \E size \in Sizes : GetRange(off, size)
  PROVE  Interface!Begin \/ Interface!Refuse
<1>1. ASSUME NEW name \in {"Connect", "Get", "GetRange", "Command", "Quit"}, NEW size \in Sizes \cup {0, FileSize},
             pc = "idle", op'.name = name, op'.size = size, is_connected' = is_connected,
             name \in {"Get", "GetRange"} => got' = <<>>,
             (pc' # "idle" /\ UNCHANGED result) \/ Return(FALSE)
      PROVE  Interface!Begin \/ Interface!Refuse
  <2>1. Called = "none" /\ op'.size \in Sizes \cup {0, FileSize}
    BY <1>1 DEF Called
  <2>2. Handed' = 0
    BY <1>1 DEF Handed
  <2>3. CASE pc' # "idle" /\ UNCHANGED result
    <3>1. Called' = name
      BY <1>1, <2>3 DEF Called
    <3> QED
      BY <1>1, <2>1, <2>2, <2>3, <3>1 DEF Interface!Begin, Interface!Operations
  <2>4. CASE Return(FALSE)
    <3>1. Called' = "none" /\ result' = "failed"
      BY <2>4 DEF Called, Return
    <3> QED
      BY <1>1, <2>1, <2>2, <3>1 DEF Interface!Refuse
  <2> QED
    BY <1>1, <2>3, <2>4
<1>2. CASE Connect
  <2>1. op'.name = "Connect" /\ op'.size = 0
    BY <1>2 DEF Connect, NoOp
  <2> QED
    BY <1>1, <1>2, <2>1 DEF Connect
<1>3. CASE Quit
  <2>1. op'.name = "Quit" /\ op'.size = 0
    BY <1>3 DEF Quit, NoOp
  <2> QED
    BY <1>1, <1>3, <2>1 DEF Quit, FtpSendCmd, client
<1>4. ASSUME NEW name \in {"Get", "GetRange", "Command"}, NEW off, NEW size \in Sizes \cup {0, FileSize},
             NEW todo, NEW first \in Plain, Start(name, off, size, todo, first)
      PROVE  Interface!Begin \/ Interface!Refuse
  <2>1. op'.name = name /\ op'.size = size /\ got' = <<>> /\ pc = "idle" /\ is_connected' = is_connected
    BY <1>4 DEF Start
  <2>2. (pc' # "idle" /\ UNCHANGED result) \/ Return(FALSE)
    BY <1>4, Labels DEF Start, FtpSendCmd
  <2> QED
    BY <1>1, <2>1, <2>2
<1>5. CASE Command
  <2>1. PICK c \in Commands : Start("Command", 0, 0, c, c[1][1])
    BY <1>5 DEF Command
  <2> QED
    BY <1>4, <2>1, CommandLists
<1>6. CASE \E off \in Offsets : Get(off) \/ \E size \in Sizes : GetRange(off, size)
  BY <1>4, <1>6, Labels DEF Get, GetRange
<1> QED
  BY <1>2, <1>3, <1>5, <1>6

(* The steps of the client inside of an operation and at its return.       *)
LEMMA RunningMaps ==
  ASSUME Inv, Running
  PROVE  Interface!Transfer \/ Interface!Return \/ UNCHANGED Interface!vars
<1>1. op \in Ops /\ is_connected \in BOOLEAN
  BY DEF Inv, OpOK, TypeOK
<1>2. CASE Greeted \/ UserAnswered \/ PassAnswered
  <2>1. pc # "idle" /\ op.name = "Connect" /\ ~is_connected
    BY <1>2 DEF Inv, OpOK, SessionOK, Greeted, UserAnswered, PassAnswered
  <2>2. UNCHANGED <<op, got>>
    BY <1>2 DEF Greeted, UserAnswered, PassAnswered
  <2>3. \/ pc' # "idle" /\ UNCHANGED <<result, is_connected>>
        \/ Return(FALSE) /\ is_connected' = is_connected
        \/ Return(TRUE) /\ is_connected' = TRUE
    BY <1>2 DEF Greeted, UserAnswered, PassAnswered
  <2>4. CASE pc' # "idle" /\ UNCHANGED <<result, is_connected>>
    BY <2>1, <2>2, <2>4, StaysInside
  <2>5. CASE Return(FALSE) /\ is_connected' = is_connected
    <3>1. is_connected' \in BOOLEAN /\ ~is_connected'
      BY <1>1, <2>1, <2>5
    <3> QED
      BY <2>1, <2>2, <2>5, <3>1, ReturnsMap
  <2>6. CASE Return(TRUE) /\ is_connected' = TRUE
    <3>1. is_connected' \in BOOLEAN
      BY <2>6
    <3>2. PICK ok \in BOOLEAN : ok /\ Return(ok)
      BY <2>6
    <3>3. op.name \notin {"Quit", "Command"} \cup Transfers /\ op.name # "Refused" /\ op.name # "GetRange"
      BY <2>1 DEF Transfers
    <3> QED
      BY <2>1, <2>2, <3>1, <3>2, <3>3, ReturnsMap
  <2> QED
    BY <2>3, <2>4, <2>5, <2>6
<1>3. CASE QuitAnswered
  <2>1. /\ pc # "idle" /\ is_connected' = FALSE /\ Return(op.name = "Quit")
        /\ UNCHANGED <<op, got>>
    BY <1>3 DEF QuitAnswered
  <2>2. op.name \in {"Connect", "Quit"}
    BY <1>3 DEF QuitAnswered, Inv, OpOK
  <2> QED
    BY <2>1, <2>2, ReturnsMap DEF Transfers
<1>4. CASE CommandAnswered
  <2>1. op.name = "Command" /\ op.todo # <<>> /\ pc = op.todo[1][1] /\ UNCHANGED <<got, is_connected>>
    BY <1>4 DEF CommandAnswered
  <2>2. pc # "idle"
    <3>1. op.todo \in Seq(Plain \X SUBSET (0..5))
      BY <1>1 DEF Ops
    <3>2. op.todo[1] \in Plain \X SUBSET (0..5)
      BY <2>1, <3>1
    <3> QED
      BY <2>1, <3>2, Labels
  <2> DEFINE ok == Class \in op.todo[1][2]
             more == Class \in op.todo[1][2] /\ Len(op.todo) # 1
  <2>3. CASE ~more
    <3>1. ok \in BOOLEAN /\ UNCHANGED op /\ Return(ok)
      BY <1>4, <2>3 DEF CommandAnswered
    <3> HIDE DEF ok
    <3> QED
      BY <2>1, <2>2, <3>1, ReturnsMap
  <2>4. CASE more
    <3>1. op' = [op EXCEPT !.todo = Tail(op.todo)] /\ UNCHANGED result /\ pc' = op.todo[2][1]
      BY <1>4, <2>4 DEF CommandAnswered
    <3>2. op'.name = op.name /\ op'.size = op.size
      BY <1>1, <3>1 DEF Ops
    <3>3. pc' # "idle"
      <4> DEFINE Todo == Plain \X SUBSET (0..5)
                 len == Len(op.todo)
      <4>1. op.todo \in Seq(Todo) /\ len \in Nat /\ len # 0 /\ len # 1
        BY <1>1, <2>1, <2>4 DEF Ops
      <4>2. 2 \in 1..len
        <5> HIDE DEF len
        <5> QED
          BY <4>1
      <4>3. op.todo[2] \in Todo
        <5> HIDE DEF Todo
        <5> QED
          BY <4>1, <4>2
      <4> QED
        BY <3>1, <4>3, Labels
    <3> QED
      BY <2>1, <2>2, <3>1, <3>2, <3>3, StaysInside
  <2> QED
    BY <2>3, <2>4
<1>5. CASE TypeAnswered \/ PasvAnswered \/ RestAnswered \/ SendRetr \/ ConnectData \/ RetrAnswered
  <2>1. /\ pc # "idle" /\ op.name \in {"Get", "GetRange"} /\ UNCHANGED <<op, got, is_connected>>
    BY <1>5 DEF TypeAnswered, PasvAnswered, RestAnswered, SendRetr, ConnectData, RetrAnswered, client, progress,
       Inv, OpOK, DataLabels, Transfers
  <2>2. Return(FALSE) \/ (pc' # "idle" /\ UNCHANGED result)
    BY <1>5 DEF TypeAnswered, PasvAnswered, RestAnswered, SendRetr, ConnectData, RetrAnswered, progress
  <2>3. CASE Return(FALSE)
    BY <2>1, <2>3, ReturnsMap DEF Transfers
  <2> QED
    BY <2>1, <2>2, <2>3, StaysInside
<1>6. CASE FtpRead
  <2>1. /\ Called \in {"Get", "GetRange"} /\ Called' = Called /\ op' = op /\ result' = result
        /\ is_connected' = is_connected
    BY <1>6 DEF FtpRead, Called, client, Inv, OpOK, DataLabels, Transfers
  <2>2. Len(got) \in Nat /\ Len(got') = Len(got) + 1
    BY <1>6, Popped DEF FtpRead, Inv, TypeOK
  <2>3. Handed = Len(got) /\ Handed' = Len(got')
    BY <1>6, <2>1 DEF Handed, FtpRead, Inv, OpOK, DataLabels, Transfers
  <2> QED
    BY <2>1, <2>2, <2>3 DEF Interface!Transfer
<1>7. CASE WriteCutShort \/ LoopEnds \/ WriteFails
  <2>1. pc # "idle" /\ pc' # "idle" /\ UNCHANGED <<got, result, is_connected>>
    BY <1>7 DEF WriteCutShort, LoopEnds, WriteFails, CloseData, client
  <2>2. CASE WriteCutShort \/ LoopEnds
    BY <2>1, <2>2, StaysInside DEF WriteCutShort, LoopEnds
  <2>3. CASE WriteFails
    <3>1. op' = [op EXCEPT !.name = IF op.name = "GetRange" THEN "Refused" ELSE op.name]
      BY <2>3 DEF WriteFails
    <3>2. op'.size = op.size /\ (op'.name = op.name \/ (op.name = "GetRange" /\ op'.name = "Refused"))
      BY <1>1, <3>1 DEF Ops
    <3> QED
      BY <2>1, <3>2, StaysInside
  <2> QED
    BY <1>7, <2>2, <2>3
<1>8. CASE TransferAnswered
  <2> DEFINE ok == Class = 2 /\ (op.name = "Get" \/ (op.name = "GetRange" /\ Len(got) = op.size))
  <2>1. /\ pc # "idle" /\ op.name \in Transfers /\ Return(ok) /\ UNCHANGED <<op, got, is_connected>>
    BY <1>8 DEF TransferAnswered, Inv, OpOK, DataLabels
  <2>2. ok \in BOOLEAN /\ (ok => op.name # "Refused" /\ (op.name = "GetRange" => Len(got) = op.size))
    OBVIOUS
  <2> HIDE DEF ok
  <2> QED
    BY <2>1, <2>2, ReturnsMap DEF Transfers
<1> QED
  BY <1>2, <1>3, <1>4, <1>5, <1>6, <1>7, <1>8 DEF Running

(* The peer takes no step of the interface.                                *)
LEMMA StepMaps == Inv /\ [Next]_vars => [Interface!Next]_Interface!vars
<1> SUFFICES ASSUME Inv, [Next]_vars PROVE Interface!Next \/ UNCHANGED Interface!vars
  OBVIOUS
<1>1. CASE Running
  BY <1>1, RunningMaps DEF Interface!Next
<1>2. CASE Connect \/ Quit \/ Command \/ \E off \in Offsets : Get(off) \/ \E size \in Sizes : GetRange(off, size)
  BY <1>2, BeginsMap DEF Interface!Next
<1>3. CASE Peer \/ PeerCloses \/ DataReset \/ UNCHANGED vars
  <2>1. UNCHANGED <<pc, op, got, result, is_connected>>
    BY <1>3 DEF Peer, PeerAnswers, PeerSends, PeerEndsTransfer, PeerCloses, DataReset, client, progress, vars
  <2> QED
    BY <2>1 DEF Interface!vars, Called, Handed
<1> QED
  BY <1>1, <1>2, <1>3 DEF Next

(* The FTP client keeps the promises of RemoteClient, against every peer:  *)
(* what IsConnected reports was connected, a GetRange that returns 1 has   *)
(* handed over the bytes asked for, and after Quit it is not connected     *)
(* (ftpclient.cpp:235-327, 914-940, 1268-1296).                            *)
THEOREM FtpClientRefines == Spec => ImplementsRemoteClient
<1>1. Init => Interface!Init
  BY DEF Init, ClearHandle, NoOp, Interface!Init, Called, Handed
<1> QED
  BY <1>1, StepMaps, FtpSessionInv, PTL DEF Spec, ImplementsRemoteClient, Interface!Spec

-----------------------------------------------------------------------------
(***************************************************************************)
(* What OperationsReturn rests on: the part of its argument that needs no  *)
(* fairness.  Waits counts the places of the code still ahead, Pending     *)
(* what can happen while the client waits at one of them.                  *)
(***************************************************************************)
Waits ==
  IF pc = "idle" THEN 0
  ELSE IF op.name = "Command" THEN Len(op.todo)
  ELSE CASE pc \in {"greeting", "TYPE"} -> 9
         [] pc \in {"USER", "PASV"} -> 8
         [] pc \in {"PASS", "REST"} -> 7
         [] pc \in {"QUIT", "socket"} -> 6
         [] pc = "connect" -> 5
         [] pc = "RETR" -> 4
         [] pc = "read" -> 3
         [] pc = "transfer" -> 2
         [] OTHER -> 1

Unsent == IF pos > 0 THEN 2 * (FileSize + 1 - pos) + 1 ELSE 0
Pending ==
  Len(owed) * (2 * FileSize + 4) + Unsent + Len(pipe)
    + (IF down THEN 0 ELSE 1) + (IF data = "open" THEN 1 ELSE 0)

NearerToReturn == pc # "idle" => Waits' < Waits \/ (Waits' = Waits /\ Pending' < Pending)

(* A product that grows with its first factor. *)
LEMMA OneMore ==
  ASSUME NEW n \in Nat, NEW k \in Nat
  PROVE  n * k \in Nat /\ (n + 1) * k = n * k + k
OBVIOUS

(* A reply outweighs the transfer that it may start. *)
LEMMA Outweighs ==
  ASSUME NEW x \in Nat, NEW u \in Nat, NEW v \in Nat, NEW n \in Nat, NEW f \in Nat, NEW k \in Nat,
         NEW b \in {0, 1}, NEW c \in {0, 1}, v <= u + 2 * f + 1, k = 2 * f + 4
  PROVE  x + v + n + b + c < x + k + u + n + b + c
OBVIOUS

(* Every step of the client but a read leads to a later place.             *)
LEMMA StepsAhead ==
  ASSUME Inv, Running, ~FtpRead, ~WriteCutShort
  PROVE  Waits' < Waits
<1>1. op \in Ops
  BY DEF Inv, OpOK
<1>2. CASE CommandAnswered
  <2> DEFINE Todo == Plain \X SUBSET (0..5)
  <2>1. op.name = "Command" /\ op.todo \in Seq(Todo) /\ op.todo # <<>> /\ pc = op.todo[1][1]
    BY <1>1, <1>2 DEF CommandAnswered, Ops
  <2>2. op.todo[1] \in Todo
    BY <2>1
  <2>3. pc # "idle"
    BY <2>1, <2>2, Labels
  <2> HIDE DEF Todo
  <2>4. Len(op.todo) \in Nat \ {0} /\ Len(Tail(op.todo)) = Len(op.todo) - 1
    BY <2>1, Popped
  <2>5. Waits = Len(op.todo)
    BY <2>1, <2>3 DEF Waits
  <2>6. pc' = "idle" \/ op' = [op EXCEPT !.todo = Tail(op.todo)]
    BY <1>2 DEF CommandAnswered, Return
  <2>7. CASE pc' = "idle"
    BY <2>4, <2>5, <2>7 DEF Waits
  <2>8. CASE op' = [op EXCEPT !.todo = Tail(op.todo)]
    <3>1. op'.name = "Command" /\ op'.todo = Tail(op.todo)
      BY <1>1, <2>1, <2>8 DEF Ops
    <3>2. Waits' \in {0, Len(Tail(op.todo))}
      BY <3>1 DEF Waits
    <3> QED
      BY <2>4, <2>5, <3>2
  <2> QED
    BY <2>6, <2>7, <2>8
<1>3. CASE Greeted \/ UserAnswered \/ PassAnswered \/ QuitAnswered
  <2>1. op.name # "Command" /\ op' = op
    BY <1>3 DEF Inv, OpOK, Greeted, UserAnswered, PassAnswered, QuitAnswered
  <2>2. \/ pc = "greeting" /\ pc' \in {"USER", "idle"}
        \/ pc = "USER" /\ pc' \in {"PASS", "QUIT", "idle"}
        \/ pc = "PASS" /\ pc' \in {"QUIT", "idle"}
        \/ pc = "QUIT" /\ pc' = "idle"
    BY <1>3 DEF Greeted, UserAnswered, PassAnswered, QuitAnswered, Return
  <2> QED
    BY <2>1, <2>2 DEF Waits
<1>4. CASE TypeAnswered \/ PasvAnswered \/ RestAnswered \/ SendRetr \/ ConnectData \/ RetrAnswered
           \/ LoopEnds \/ TransferAnswered
  <2>1. op.name # "Command" /\ op' = op
    BY <1>4 DEF Inv, OpOK, DataLabels, Transfers, TypeAnswered, PasvAnswered, RestAnswered, SendRetr, ConnectData,
       RetrAnswered, LoopEnds, TransferAnswered, progress
  <2>2. \/ pc = "TYPE" /\ pc' \in {"PASV", "idle"}
        \/ pc = "PASV" /\ pc' \in {"REST", "socket", "idle"}
        \/ pc = "REST" /\ pc' \in {"socket", "undefined"}
        \/ pc = "socket" /\ pc' \in {"connect", "idle"}
        \/ pc = "connect" /\ pc' \in {"RETR", "idle"}
        \/ pc = "RETR" /\ pc' \in {"read", "idle"}
        \/ pc = "read" /\ pc' = "transfer"
        \/ pc = "transfer" /\ pc' = "idle"
    BY <1>4 DEF TypeAnswered, PasvAnswered, RestAnswered, SendRetr, ConnectData, RetrAnswered, LoopEnds,
       TransferAnswered, Return, CloseData
  <2> QED
    BY <2>1, <2>2 DEF Waits
<1>5. CASE WriteFails
  <2>1. op.name # "Command" /\ pc = "read" /\ pc' = "transfer"
    BY <1>5 DEF Inv, OpOK, DataLabels, Transfers, WriteFails, CloseData
  <2>2. op' = [op EXCEPT !.name = IF op.name = "GetRange" THEN "Refused" ELSE op.name]
    BY <1>5 DEF WriteFails
  <2>3. op'.name # "Command"
    BY <1>1, <2>1, <2>2 DEF Ops
  <2> QED
    BY <2>1, <2>3 DEF Waits
<1> QED
  BY <1>2, <1>3, <1>4, <1>5 DEF Running

(* Where the client stays put, what can still happen gets less.            *)
LEMMA LessPending ==
  ASSUME Inv, Peer \/ PeerCloses \/ DataReset \/ FtpRead \/ WriteCutShort
  PROVE  Waits' = Waits /\ Pending' < Pending
<1> DEFINE K == 2 * FileSize + 4
           Up == IF down THEN 0 ELSE 1
           Open == IF data = "open" THEN 1 ELSE 0
<1>1. /\ FileSize \in Nat /\ K \in Nat /\ Len(owed) \in Nat /\ Len(pipe) \in Nat
      /\ pos \in 0..(FileSize + 1) /\ marker \in 0..FileSize
      /\ owed \in Seq(Awaiting) /\ pipe \in Seq(1..FileSize)
  BY FtpBounds DEF Inv, TypeOK
<1>2. Waits' = Waits
  <2>1. UNCHANGED <<pc, op>>
    BY DEF Peer, PeerAnswers, PeerSends, PeerEndsTransfer, PeerCloses, DataReset, FtpRead, WriteCutShort,
       progress
  <2> QED
    BY <2>1 DEF Waits
<1>3. Unsent \in Nat /\ Up \in {0, 1} /\ Open \in {0, 1} /\ Len(owed) * K \in Nat
  BY <1>1, OneMore DEF Unsent
<1>4. Pending = Len(owed) * K + Unsent + Len(pipe) + Up + Open
  BY DEF Pending
<1>5. Pending' = Len(owed') * K + Unsent' + Len(pipe') + Up' + Open'
  BY DEF Pending
<1>6. CASE PeerAnswers
  <2>1. Len(owed') \in Nat /\ Len(owed) = Len(owed') + 1
    BY <1>1, <1>6, Popped DEF PeerAnswers
  <2>2. Len(owed) * K = Len(owed') * K + K /\ Len(owed') * K \in Nat
    BY <1>1, <2>1, OneMore
  <2>3. pos' \in {pos, marker + 1} /\ UNCHANGED <<pipe, down, data>>
    BY <1>6 DEF PeerAnswers
  <2>4. Unsent' \in Nat /\ Unsent' <= Unsent + 2 * FileSize + 1
    <3>1. CASE pos' = pos
      BY <1>1, <1>3, <3>1 DEF Unsent
    <3>2. CASE pos' = marker + 1
      <4>1. Unsent' = 2 * (FileSize + 1 - (marker + 1)) + 1
        BY <1>1, <3>2 DEF Unsent
      <4> QED
        BY <1>1, <1>3, <4>1
    <3> QED
      BY <2>3, <3>1, <3>2
  <2>5. Up' = Up /\ Open' = Open /\ Len(pipe') = Len(pipe)
    BY <2>3
  <2>6. K = 2 * FileSize + 4
    OBVIOUS
  <2> HIDE DEF Up, Open, K
  <2>7. Pending' = Len(owed') * K + Unsent' + Len(pipe) + Up + Open
    BY <1>5, <2>5
  <2>8. Pending = Len(owed') * K + K + Unsent + Len(pipe) + Up + Open
    BY <1>4, <2>2
  <2>9. Len(owed') * K + Unsent' + Len(pipe) + Up + Open < Len(owed') * K + K + Unsent + Len(pipe) + Up + Open
    BY <1>1, <1>3, <2>2, <2>4, <2>6, Outweighs
  <2> QED
    BY <1>2, <2>7, <2>8, <2>9
<1>7. CASE PeerSends
  <2>1. Len(pipe') = Len(pipe) + 1
    BY <1>1, <1>7, Pushed DEF PeerSends
  <2>2. pos \in 1..FileSize /\ pos' = pos + 1 /\ UNCHANGED <<owed, down, data>>
    BY <1>7 DEF PeerSends
  <2>3. Unsent' = Unsent - 2
    BY <1>1, <2>2 DEF Unsent
  <2>5. Up' = Up /\ Open' = Open /\ Len(owed') * K = Len(owed) * K
    BY <2>2
  <2> HIDE DEF Up, Open, K
  <2> QED
    BY <1>1, <1>2, <1>3, <1>4, <1>5, <2>1, <2>3, <2>5
<1>8. CASE PeerEndsTransfer
  <2>1. pos > 0 /\ pos' = 0 /\ UNCHANGED <<owed, down, data, pipe>>
    BY <1>8 DEF PeerEndsTransfer
  <2>2. Unsent' < Unsent /\ Unsent' \in Nat
    BY <1>1, <2>1 DEF Unsent
  <2>3. Up' = Up /\ Open' = Open /\ Len(owed') * K = Len(owed) * K /\ Len(pipe') = Len(pipe)
    BY <2>1
  <2> HIDE DEF Up, Open, K
  <2>4. Pending' = Len(owed) * K + Unsent' + Len(pipe) + Up + Open
    BY <1>5, <2>3
  <2>5. Pending' < Pending
    BY <1>1, <1>3, <1>4, <2>2, <2>4
  <2> QED
    BY <1>2, <2>5
<1>9. CASE PeerCloses
  <2>1. ~down /\ down' = TRUE /\ owed' = <<>> /\ pos' = 0 /\ UNCHANGED <<data, pipe>>
    BY <1>9 DEF PeerCloses
  <2>2. Unsent' = 0 /\ Len(owed') = 0 /\ Up = 1 /\ Up' = 0 /\ Open' = Open /\ Len(pipe') = Len(pipe)
    BY <2>1 DEF Unsent
  <2>3. Len(owed') * K = 0
    BY <1>1, <2>2
  <2> HIDE DEF Up, Open, K
  <2> QED
    BY <1>1, <1>2, <1>3, <1>4, <1>5, <2>2, <2>3
<1>10. CASE DataReset
  <2>1. data = "open" /\ data' = "reset" /\ pipe' = <<>> /\ UNCHANGED <<owed, down, pos>>
    BY <1>10 DEF DataReset
  <2>2. Unsent' = Unsent /\ Up' = Up /\ Open = 1 /\ Open' = 0 /\ Len(pipe') = 0 /\ Len(owed') * K = Len(owed) * K
    BY <2>1 DEF Unsent
  <2> HIDE DEF Up, Open, K
  <2> QED
    BY <1>1, <1>2, <1>3, <1>4, <1>5, <2>2
<1>11. CASE FtpRead \/ WriteCutShort
  <2>1. pipe # <<>> /\ pipe' = Tail(pipe) /\ UNCHANGED <<owed, down, pos, data>>
    BY <1>11 DEF FtpRead, WriteCutShort
  <2>2. Len(pipe) \in Nat /\ Len(pipe') = Len(pipe) - 1
    BY <1>1, <2>1, Popped
  <2>3. Unsent' = Unsent /\ Up' = Up /\ Open' = Open /\ Len(owed') * K = Len(owed) * K
    BY <2>1 DEF Unsent
  <2> HIDE DEF Up, Open, K
  <2> QED
    BY <1>1, <1>2, <1>3, <1>4, <1>5, <2>2, <2>3
<1> QED
  BY <1>6, <1>7, <1>8, <1>9, <1>10, <1>11 DEF Peer

(***************************************************************************)
(* No operation goes round in circles: whatever the client, the peer or    *)
(* the network does while it runs brings it nearer to its return, in an    *)
(* order without infinite descent.  An operation of FtpClient takes a      *)
(* bounded number of steps, peers that refuse, cut off or hang up included *)
(* (ftpclient.cpp:181-233, 496-706, 857-940, 1000-1034, 1268-1296).        *)
(***************************************************************************)
THEOREM FtpOperationsShrink ==
  Spec => [](Waits \in Nat /\ Pending \in Nat) /\ [][NearerToReturn]_vars
<1>1. Inv /\ [Next]_vars => [NearerToReturn]_vars
  <2> SUFFICES ASSUME Inv, Next, pc # "idle" PROVE Waits' < Waits \/ (Waits' = Waits /\ Pending' < Pending)
    BY DEF NearerToReturn
  <2>1. ~(Connect \/ Quit \/ Command \/ \E off \in Offsets : Get(off) \/ \E size \in Sizes : GetRange(off, size))
    BY DEF Connect, Quit, Command, Get, GetRange, Start
  <2> QED
    BY <2>1, StepsAhead, LessPending DEF Next
<1>2. Inv => Waits \in Nat /\ Pending \in Nat
  <2> SUFFICES ASSUME Inv PROVE Waits \in Nat /\ Pending \in Nat
    OBVIOUS
  <2>1. Waits \in Nat
    <3>1. Len(op.todo) \in Nat
      BY DEF Inv, OpOK, Ops
    <3> QED
      BY <3>1 DEF Waits
  <2> DEFINE K == 2 * FileSize + 4
  <2>2. K \in Nat /\ Len(owed) \in Nat /\ Len(pipe) \in Nat
    BY FtpBounds DEF Inv, TypeOK
  <2>3. Unsent \in Nat
    BY FtpBounds DEF Inv, TypeOK, Unsent
  <2>4. Len(owed) * K \in Nat
    BY <2>2, OneMore
  <2>5. Pending = Len(owed) * K + Unsent + Len(pipe) + (IF down THEN 0 ELSE 1) + (IF data = "open" THEN 1 ELSE 0)
    BY DEF Pending
  <2> QED
    BY <2>1, <2>2, <2>3, <2>4, <2>5
<1> QED
  BY <1>1, <1>2, FtpSessionInv, PTL DEF Spec

(***************************************************************************)
(* What is on its way while the client waits: Inv says that nothing else   *)
(* is, this that something is.  A transfer that RETR's reply announces has *)
(* begun, and goes on until its last reply.                                *)
(***************************************************************************)
RepliesOnTheirWay ==
  /\ pc = "QUIT" => down \/ owed # <<>> \/ LastLines # {}
  /\ pc \in {"connect", "RETR"} =>
       \A n \in DOMAIN inbox : inbox[n].to = "RETR" /\ inbox[n].class = 1 =>
         down \/ pos > 0 \/ inbox[Len(inbox)].to = "transfer"
  /\ pc \in {"read", "transfer"} => down \/ pos > 0 \/ inbox # <<>>

(* The client waits for a reply only while it has one to read, the peer    *)
(* has hung up, or the peer owes one: to a command, or to end a transfer.  *)
NeverWaitsInVain == pc \in Awaiting => Readable \/ (~down /\ (owed # <<>> \/ pos > 0))

LEMMA RunningOnTheirWay ==
  ASSUME Inv, RepliesOnTheirWay, Running
  PROVE  RepliesOnTheirWay'
<1> DEFINE Far == {"QUIT", "connect", "RETR", "read", "transfer"}
<1>1. ASSUME pc' \notin Far PROVE RepliesOnTheirWay'
  BY <1>1 DEF RepliesOnTheirWay
<1>2. CASE Greeted \/ UserAnswered \/ PassAnswered \/ QuitAnswered
  <2>1. pc' \notin Far \/ (pc' = "QUIT" /\ Send("QUIT") /\ down' = down)
    BY <1>2 DEF Greeted, UserAnswered, PassAnswered, QuitAnswered, Return
  <2>2. ASSUME pc' = "QUIT", Send("QUIT"), down' = down PROVE RepliesOnTheirWay'
    <3>1. owed \in Seq(Awaiting) /\ "QUIT" \in Awaiting
      BY Labels DEF Inv, TypeOK
    <3>2. down' \/ owed' # <<>>
      <4>1. Len(owed) \in Nat /\ Len(Append(owed, "QUIT")) = Len(owed) + 1
        BY <3>1, Pushed
      <4> QED
        BY <2>2, <4>1 DEF Send
    <3> QED
      BY <2>2, <3>2 DEF RepliesOnTheirWay
  <2> QED
    BY <1>1, <2>1, <2>2
<1>3. CASE CommandAnswered
  <2>1. pc' \notin Far
    <3> DEFINE Todo == Plain \X SUBSET (0..5)
               len == Len(op.todo)
    <3>1. op.todo \in Seq(Todo) /\ len \in Nat /\ len # 0
      BY <1>3 DEF CommandAnswered, Inv, OpOK, Ops
    <3>2. pc' = "idle" \/ (len # 1 /\ pc' = op.todo[2][1])
      BY <1>3 DEF CommandAnswered, Return
    <3>3. len # 1 => 2 \in 1..len
      <4> HIDE DEF len
      <4> QED
        BY <3>1
    <3>4. len # 1 => op.todo[2] \in Todo
      <4> HIDE DEF Todo
      <4> QED
        BY <3>1, <3>3
    <3> QED
      BY <3>2, <3>4, Labels
  <2> QED
    BY <1>1, <2>1
<1>4. CASE TypeAnswered \/ PasvAnswered \/ RestAnswered \/ TransferAnswered
  <2>1. pc' \notin Far
    BY <1>4 DEF TypeAnswered, PasvAnswered, RestAnswered, TransferAnswered, Return
  <2> QED
    BY <1>1, <2>1
<1>5. CASE SendRetr
  <2>1. inbox = <<>> /\ inbox' = inbox /\ pc' \in {"idle", "connect"}
    BY <1>5 DEF SendRetr, Return, Inv, ControlOK, Quiet
  <2> QED
    BY <2>1 DEF RepliesOnTheirWay
<1>6. CASE ConnectData
  <2>1. pc = "connect" /\ pc' \in {"idle", "RETR"} /\ UNCHANGED <<inbox, down, pos>>
    BY <1>6 DEF ConnectData, Return, peer
  <2> QED
    BY <2>1 DEF RepliesOnTheirWay
<1>7. CASE RetrAnswered
  <2>1. TypeOK /\ AwaitsRetr /\ ReadResponse /\ pc = "RETR" /\ UNCHANGED <<down, pos>>
    BY <1>7 DEF RetrAnswered, Inv, ControlOK
  <2>2. pc' = "idle" \/ (pc' = "read" /\ Class = 1)
    BY <1>7 DEF RetrAnswered, Return
  <2>3. ASSUME pc' = "read", Class = 1 PROVE down \/ pos > 0 \/ inbox' # <<>>
    <3>1. LastLines # {}
      BY <2>3 DEF Class
    <3>2. inbox # <<>>
      BY <3>1 DEF LastLines
    <3>3. PICK k \in {0, 1} : Answered("RETR", k)
      BY <2>1, <3>2 DEF AwaitsRetr
    <3>4. PICK n \in {1, 2} : /\ Len(inbox) = n + k /\ inbox[n].to = "RETR" /\ inbox[n].last
                              /\ n = 2 => ~inbox[1].last
      BY <3>3 DEF Answered
    <3>5. n <= Len(inbox) /\ n \in DOMAIN inbox
      BY <2>1, <3>4 DEF TypeOK
    <3>6. Class = inbox[n].class /\ Len(inbox') = Len(inbox) - n
      BY <2>1, <3>4, <3>5, ReadReply
    <3>7. CASE k = 0
      <4>1. inbox[Len(inbox)].to # "transfer"
        BY <3>4, <3>7
      <4> QED
        BY <2>1, <2>3, <3>4, <3>5, <3>6, <4>1 DEF RepliesOnTheirWay
    <3>8. CASE k = 1
      <4>1. Len(inbox') = 1
        BY <3>4, <3>6, <3>8
      <4> QED
        BY <4>1
    <3> QED
      BY <3>7, <3>8
  <2> QED
    BY <2>1, <2>2, <2>3 DEF RepliesOnTheirWay
<1>8. CASE FtpRead \/ WriteCutShort \/ LoopEnds \/ WriteFails
  <2>1. pc = "read" /\ pc' \in {"read", "transfer"} /\ UNCHANGED <<inbox, down, pos>>
    BY <1>8 DEF FtpRead, WriteCutShort, LoopEnds, WriteFails, CloseData
  <2> QED
    BY <2>1 DEF RepliesOnTheirWay
<1> QED
  BY <1>2, <1>3, <1>4, <1>5, <1>6, <1>7, <1>8 DEF Running

(* A reply that has arrived can be read up to its last line. *)
LEMMA ReplyEnds ==
  ASSUME NEW class \in 1..5, NEW cmd \in Awaiting, NEW lines \in Replies(class, cmd), inbox \in Seq(Lines)
  PROVE  \E m \in DOMAIN (inbox \o lines) : (inbox \o lines)[m].last
<1>1. \A last \in BOOLEAN : Line(class, cmd, last) \in Lines /\ Line(class, cmd, last).last = last
  BY DEF Line, Lines
<1>2. PICK first \in Lines, final \in Lines : final.last /\ (lines = <<final>> \/ lines = <<first, final>>)
  BY <1>1 DEF Replies
<1>3. Len(inbox) \in Nat
  OBVIOUS
<1>4. CASE lines = <<final>>
  <2>1. /\ Len(inbox) + 1 \in DOMAIN (inbox \o lines)
        /\ (inbox \o lines)[Len(inbox) + 1] = final
    BY <1>2, <1>3, <1>4
  <2> QED
    BY <1>2, <2>1
<1>5. CASE lines = <<first, final>>
  <2>1. /\ Len(inbox) + 2 \in DOMAIN (inbox \o lines)
        /\ (inbox \o lines)[Len(inbox) + 2] = final
    BY <1>2, <1>3, <1>5
  <2> QED
    BY <1>2, <2>1
<1> QED
  BY <1>2, <1>4, <1>5

LEMMA PeerOnTheirWay ==
  ASSUME Inv, RepliesOnTheirWay, Peer \/ PeerCloses \/ DataReset
  PROVE  RepliesOnTheirWay'
<1>1. /\ inbox \in Seq(Lines) /\ Len(inbox) \in Nat /\ DOMAIN inbox = 1..Len(inbox)
      /\ pos \in Nat /\ marker \in Nat
  BY FtpBounds DEF Inv, TypeOK
<1>2. CASE PeerAnswers
  <2>0. PICK class \in 1..5 :
          \E lines \in Replies(class, Head(owed)) :
            /\ inbox' = inbox \o lines
            /\ pos' = IF Head(owed) = "RETR" /\ class = 1 THEN marker + 1 ELSE pos
    <3>1. \A cmd : {Accepts(cmd), 5} \cup (IF cmd = "USER" THEN {3} ELSE {}) \subseteq 1..5
      BY DEF Accepts
    <3> QED
      BY <1>2, <3>1 DEF PeerAnswers
  <2>1. PICK lines :
          /\ lines \in Replies(class, Head(owed)) /\ inbox' = inbox \o lines
          /\ pos' = IF Head(owed) = "RETR" /\ class = 1 THEN marker + 1 ELSE pos
    BY <2>0, Zenon
  <2>2. Head(owed) \in Awaiting /\ pc' = pc
    BY <1>2, Popped DEF PeerAnswers, Inv, TypeOK
  <2>3. /\ inbox' \in Seq(Lines) /\ Len(lines) \in {1, 2} /\ lines[Len(lines)].last
        /\ \A n \in 1..Len(lines) : lines[n].to = Head(owed) /\ lines[n].class = class
        /\ inbox = <<>> => inbox' = lines
    BY <1>1, <2>1, <2>2, ReplyLines
  <2>4. CASE pc = "QUIT"
    <3>1. \E m \in DOMAIN inbox' : inbox'[m].last
      BY <1>1, <2>1, <2>2, ReplyEnds
    <3>2. LastLines' # {}
      BY <3>1 DEF LastLines
    <3> QED
      BY <2>2, <2>4, <3>2 DEF RepliesOnTheirWay
  <2>5. CASE pc \in {"connect", "RETR"}
    <3>1. owed = <<"RETR">> /\ inbox = <<>>
      BY <1>2, <2>5 DEF PeerAnswers, Inv, ControlOK, AwaitsRetr
    <3>2. Head(owed) = "RETR" /\ inbox' = lines
      BY <2>3, <3>1
    <3>3. class = 1 => pos' > 0
      BY <1>1, <2>1, <3>2
    <3>4. DOMAIN inbox' = 1..Len(lines)
      BY <2>3, <3>2
    <3> QED
      BY <2>2, <2>3, <2>5, <3>2, <3>3, <3>4 DEF RepliesOnTheirWay
  <2>6. CASE pc \in {"read", "transfer"}
    BY <1>2, <2>6 DEF PeerAnswers, Inv, ControlOK, AwaitsTransfer
  <2> QED
    BY <2>2, <2>4, <2>5, <2>6 DEF RepliesOnTheirWay
<1>3. CASE PeerSends
  <2>1. pos' > 0 /\ UNCHANGED <<pc, owed, inbox, down>>
    BY <1>1, <1>3 DEF PeerSends
  <2> QED
    BY <2>1 DEF RepliesOnTheirWay, LastLines
<1>4. CASE PeerEndsTransfer
  <2>1. PICK class \in {2, 4} : inbox' = Append(inbox, Line(class, "transfer", TRUE))
    BY <1>4 DEF PeerEndsTransfer
  <2> DEFINE line == Line(class, "transfer", TRUE)
  <2>2. line \in Lines /\ line.to = "transfer" /\ line.last
    BY Labels DEF Line, Lines
  <2>3. inbox' = Append(inbox, line)
    BY <2>1
  <2> HIDE DEF line
  <2>4. inbox' \in Seq(Lines) /\ Len(inbox') = Len(inbox) + 1 /\ inbox'[Len(inbox) + 1] = line
    BY <1>1, <2>2, <2>3, Pushed
  <2>5. Len(inbox') \in DOMAIN inbox' /\ inbox'[Len(inbox')].to = "transfer" /\ inbox'[Len(inbox')].last
    BY <1>1, <2>2, <2>4
  <2>6. LastLines' # {} /\ inbox' # <<>>
    BY <2>5 DEF LastLines
  <2> QED
    BY <2>5, <2>6 DEF RepliesOnTheirWay
<1>5. CASE PeerCloses
  <2>1. down'
    BY <1>5 DEF PeerCloses
  <2> QED
    BY <2>1 DEF RepliesOnTheirWay
<1>6. CASE DataReset
  <2>1. UNCHANGED <<pc, owed, inbox, down, pos>>
    BY <1>6 DEF DataReset
  <2> QED
    BY <2>1 DEF RepliesOnTheirWay, LastLines
<1> QED
  BY <1>2, <1>3, <1>4, <1>5, <1>6 DEF Peer

(***************************************************************************)
(* The client never waits for a reply nobody owes it, which would be for   *)
(* ever, as it has no timeout: not after refusals, cut transfers or data   *)
(* connections that could not be opened, and not in the Quit of a client   *)
(* that failed (ReadResponse and FtpClose, ftpclient.cpp:181-233,          *)
(* 1000-1034).                                                             *)
(***************************************************************************)
THEOREM FtpNeverWaitsInVain == Spec => []NeverWaitsInVain
<1>1. Init => RepliesOnTheirWay
  BY DEF Init, RepliesOnTheirWay
<1>2. Inv /\ RepliesOnTheirWay /\ [Next]_vars => RepliesOnTheirWay'
  <2> SUFFICES ASSUME Inv, RepliesOnTheirWay, [Next]_vars PROVE RepliesOnTheirWay'
    OBVIOUS
  <2>1. CASE Connect \/ Command \/ \E off \in Offsets : Get(off) \/ \E size \in Sizes : GetRange(off, size)
    <3>1. pc' \in Plain \cup {"idle", "greeting"}
      <4>1. ASSUME NEW name, NEW off, NEW size, NEW todo, NEW first \in Plain, Start(name, off, size, todo, first)
            PROVE  pc' \in Plain \cup {"idle"}
        BY <4>1 DEF Start, FtpSendCmd, Return
      <4>2. CASE Command
        <5>1. PICK c \in Commands : Start("Command", 0, 0, c, c[1][1])
          BY <4>2 DEF Command
        <5> QED
          BY <4>1, <5>1, CommandLists
      <4> QED
        BY <2>1, <4>1, <4>2, Labels DEF Connect, Get, GetRange, Return
    <3> QED
      BY <3>1, Labels DEF RepliesOnTheirWay
  <2>2. CASE Quit
    <3>1. pc' = "QUIT" /\ Send("QUIT") /\ down' = down
      BY <2>2 DEF Quit, FtpSendCmd
    <3>2. Len(owed) \in Nat /\ Len(Append(owed, "QUIT")) = Len(owed) + 1
      BY Pushed, Labels DEF Inv, TypeOK
    <3>3. down' \/ owed' # <<>>
      BY <3>1, <3>2 DEF Send
    <3> QED
      BY <3>1, <3>3 DEF RepliesOnTheirWay
  <2>3. CASE UNCHANGED vars
    BY <2>3 DEF RepliesOnTheirWay, LastLines, vars
  <2> QED
    BY <2>1, <2>2, <2>3, RunningOnTheirWay, PeerOnTheirWay DEF Next
<1>3. Inv /\ RepliesOnTheirWay => NeverWaitsInVain
  <2> SUFFICES ASSUME Inv, RepliesOnTheirWay, pc \in Awaiting, ~down, owed = <<>>, ~(pos > 0)
               PROVE  LastLines # {}
    BY DEF NeverWaitsInVain, Readable
  <2>1. DOMAIN inbox = 1..Len(inbox) /\ Len(inbox) \in Nat
    BY DEF Inv, TypeOK
  <2>2. ASSUME NEW n \in 1..Len(inbox), inbox[n].last PROVE LastLines # {}
    BY <2>1, <2>2 DEF LastLines
  <2>3. ASSUME NEW cmd, NEW k \in {0, 1}, Answered(cmd, k) PROVE LastLines # {}
    BY <2>1, <2>2, <2>3 DEF Answered
  <2>4. CASE pc = "QUIT"
    BY <2>4 DEF RepliesOnTheirWay
  <2>5. CASE pc \in Simple
    BY <2>3, <2>5 DEF Inv, ControlOK, Awaits
  <2>6. CASE pc = "RETR"
    BY <2>3, <2>6 DEF Inv, ControlOK, AwaitsRetr
  <2>7. CASE pc = "transfer"
    <3>1. Len(inbox) = 1 /\ inbox[1].last
      BY <2>7 DEF RepliesOnTheirWay, Inv, ControlOK, AwaitsTransfer, EndsWithTransfer
    <3> QED
      BY <2>2, <3>1
  <2> QED
    BY <2>4, <2>5, <2>6, <2>7 DEF Simple
<1> QED
  BY <1>1, <1>2, <1>3, FtpSessionInv, PTL DEF Spec
=============================================================================
