-------------------------- MODULE FileClientsProofs --------------------------
(***************************************************************************)
(* Proofs about FileClients, for a remote file of any size and any number  *)
(* of transfers: nothing is left open, and the three clients implement     *)
(* RemoteClient.                                                           *)
(***************************************************************************)
EXTENDS FileClients, TLAPS

(* The types of the session, of the running call and of what is open.      *)
Types ==
  /\ proto \in {"sftp", "smb", "nfs"} /\ life \in {"new", "used", "gone"}
  /\ sock \in BOOLEAN /\ sftp \in BOOLEAN /\ connected \in BOOLEAN
  /\ ctx \in {"null", "live", "destroyed"}
  /\ call \in {"none", "Connect", "Get", "GetRange", "Quit"} /\ ret \in {0, 1}
  /\ pc \in {"idle", "connect", "open", "create", "read", "quit", "undefined"}
  /\ want \in Nat /\ got \in Nat /\ pos \in Nat /\ handles \in Nat /\ out \in BOOLEAN
  /\ calls \in Nat /\ lost \in [handles : Nat, sock : BOOLEAN]

(* Which call is at which step, and at which point of the client's life.   *)
Steps ==
  /\ pc = "idle" <=> call = "none"
  /\ pc = "connect" => call = "Connect" /\ life = "used"
  /\ pc = "open" => call \in {"Get", "GetRange"} /\ life = "used"
  /\ pc = "read" => call \in {"Get", "GetRange"} /\ life = "used"
  /\ pc = "create" => call = "Get" /\ life = "used"
  /\ pc = "quit" => call = "Quit" /\ life = "gone"
  /\ life = "new" => pc = "idle"

(* How far a transfer is: the rest of the file is the rest of a Get.       *)
Progress ==
  /\ pc = "open" => got = 0
  /\ pc \in {"open", "create", "read"} =>
       IF call = "Get" THEN want = got + LeftFrom(pos) ELSE got <= want

(* A transfer has the remote file open from its open to its end, a Get the *)
(* local one while it reads.                                               *)
OpenFiles ==
  /\ handles = lost.handles + (IF pc \in {"create", "read"} THEN 1 ELSE 0)
  /\ out <=> pc = "read" /\ call = "Get"

(* A client that has not been connected has nothing, a socket without a    *)
(* session was lost, and a client that is gone has no session.             *)
SessionOK ==
  /\ life = "new" \/ pc = "connect" => ctx = "null" /\ ~sock /\ ~sftp /\ ~connected
  /\ sock /\ ctx = "null" => lost.sock
  /\ sock => proto = "sftp"
  /\ life = "gone" /\ pc = "idle" => ctx = "null"

(* The inductive invariant. *)
Inv == Types /\ Steps /\ Progress /\ OpenFiles /\ SessionOK

(* What is left of the file after some of it was read.                     *)
LEMMA LeftAfter ==
  ASSUME NEW p \in Nat
  PROVE  /\ LeftFrom(p) \in 0..FileSize
         /\ \A n \in 0..LeftFrom(p) : LeftFrom(p + n) = LeftFrom(p) - n
BY FileBounds DEF LeftFrom

(* A read brings at most what was asked for and what is left.              *)
LEMMA ReadableBounds ==
  ASSUME Types, Progress, pc = "read"
  PROVE  /\ Readable \in Nat /\ Wanted \in Nat /\ Readable <= LeftFrom(pos)
         /\ call # "Get" => Readable <= want - got
<1>1. LeftFrom(pos) \in Nat
  BY LeftAfter, FileBounds DEF Types
<1> QED
  BY <1>1 DEF Types, Progress, Readable, Wanted

LEMMA InitInv == Init => Inv
<1> SUFFICES ASSUME Init PROVE Inv
  OBVIOUS
<1>1. lost = [handles |-> 0, sock |-> FALSE] /\ lost.handles = 0 /\ handles = 0
  BY DEF Init
<1>2. Types
  <2>1. lost \in [handles : Nat, sock : BOOLEAN]
    BY <1>1
  <2>2. proto \in {"sftp", "smb", "nfs"}
    BY FileBounds DEF Init
  <2> QED
    BY <2>1, <2>2 DEF Init, Types
<1>3. Steps /\ Progress /\ OpenFiles /\ SessionOK
  BY <1>1 DEF Init, Steps, Progress, OpenFiles, SessionOK
<1> QED
  BY <1>2, <1>3 DEF Inv

-----------------------------------------------------------------------------
(* One lemma per group of steps. *)

(* Calling an operation. *)
LEMMA CallInv ==
  ASSUME Inv, CallConnect \/ Get \/ GetRange \/ CallQuit
  PROVE  Inv'
<1> USE DEF Inv
<1>1. CASE CallConnect \/ CallQuit
  BY <1>1 DEF CallConnect, CallQuit, Begin, session, Types, Steps, Progress, OpenFiles, SessionOK
<1>2. ASSUME NEW operation \in {"Get", "GetRange"}, NEW offset \in Nat, NEW length \in Nat,
             operation = "Get" => length = LeftFrom(offset),
             Transfer(operation, offset, length)
      PROVE  Inv'
  <2>1. /\ life = "used" /\ pc = "idle" /\ call = "none" /\ pc' = "open" /\ call' = operation
        /\ want' = length /\ got' = 0 /\ pos' = offset /\ calls' = calls + 1
        /\ UNCHANGED <<proto, life, sock, ctx, sftp, connected, ret, handles, out, lost>>
    BY <1>2 DEF Transfer, Begin, session, Steps
  <2>2. Types'
    BY <2>1 DEF Types
  <2>3. Steps' /\ OpenFiles' /\ SessionOK'
    BY <2>1 DEF Steps, OpenFiles, SessionOK
  <2>4. Progress'
    BY <1>2, <2>1, LeftAfter, FileBounds DEF Progress, LeftFrom
  <2> QED
    BY <2>2, <2>3, <2>4
<1>3. CASE Get
  BY <1>2, <1>3, LeftAfter, FileBounds DEF Get
<1>4. CASE GetRange
  BY <1>2, <1>4, FileBounds DEF GetRange
<1> QED
  BY <1>1, <1>3, <1>4

(* Connect and Quit. *)
LEMMA SessionInv ==
  ASSUME Inv, SftpConnect \/ SmbConnect \/ NfsConnect \/ SftpQuit \/ SmbQuit \/ NfsQuit
  PROVE  Inv'
<1>1. CASE SftpConnect
  <2>1. /\ pc = "connect" /\ proto = "sftp" /\ pc' \in {"idle", "undefined"}
        /\ UNCHANGED <<proto, life, want, got, pos, handles, out, calls>>
    BY <1>1 DEF SftpConnect, Return
  <2>2. lost' = lost \/ lost' = [lost EXCEPT !.sock = TRUE]
    BY <1>1 DEF SftpConnect
  <2>3. lost' \in [handles : Nat, sock : BOOLEAN] /\ lost'.handles = lost.handles
    BY <2>2 DEF Inv, Types
  <2>4. Types'
    BY <1>1, <2>1, <2>3 DEF Inv, Types, SftpConnect, Return, session
  <2>5. Steps' /\ Progress'
    BY <1>1, <2>1 DEF Inv, Types, Steps, Progress, SftpConnect, Return
  <2>6. OpenFiles'
    BY <2>1, <2>3 DEF Inv, OpenFiles
  <2>7. sock' /\ ctx' = "null" => lost'.sock
    BY <1>1, <2>1 DEF Inv, Types, SessionOK, SftpConnect, session
  <2>8. SessionOK'
    BY <2>1, <2>7 DEF Inv, Steps, SessionOK
  <2> QED
    BY <2>4, <2>5, <2>6, <2>8 DEF Inv
<1>2. CASE SmbConnect
  BY <1>2 DEF Inv, SmbConnect, Return, Types, Steps, Progress, OpenFiles, SessionOK
<1>3. CASE NfsConnect
  BY <1>3 DEF Inv, NfsConnect, Return, Types, Steps, Progress, OpenFiles, SessionOK
<1>4. CASE SftpQuit
  BY <1>4 DEF Inv, SftpQuit, Return, Types, Steps, Progress, OpenFiles, SessionOK
<1>5. CASE SmbQuit
  BY <1>5 DEF Inv, SmbQuit, Return, Types, Steps, Progress, OpenFiles, SessionOK
<1>6. CASE NfsQuit
  BY <1>6 DEF Inv, NfsQuit, Return, Types, Steps, Progress, OpenFiles, SessionOK
<1> QED
  BY <1>1, <1>2, <1>3, <1>4, <1>5, <1>6

(* Opening the remote and the local file. *)
LEMMA OpenInv ==
  ASSUME Inv, Open \/ Create
  PROVE  Inv'
<1>1. CASE Open
  <2>1. /\ pc = "open"
        /\ UNCHANGED <<proto, life, sock, ctx, sftp, connected, want, got, pos, out, calls, lost>>
        /\ \/ handles' = handles + 1 /\ pc' = (IF call = "Get" THEN "create" ELSE "read")
              /\ UNCHANGED <<call, ret>>
           \/ call' = "none" /\ pc' = "idle" /\ ret' = 0 /\ UNCHANGED handles
           \/ pc' = "undefined" /\ UNCHANGED <<call, ret, handles>>
    BY <1>1 DEF Open, Return, session
  <2> QED
    BY <2>1 DEF Inv, Types, Steps, Progress, OpenFiles, SessionOK, LeftFrom
<1>2. CASE Create
  <2>1. /\ pc = "create" /\ call = "Get"
        /\ UNCHANGED <<proto, life, sock, ctx, sftp, connected, want, got, pos, handles, calls>>
    BY <1>2 DEF Create, session, Inv, Steps
  <2>2. CASE out' = TRUE /\ pc' = "read" /\ UNCHANGED <<call, ret, lost>>
    BY <2>1, <2>2 DEF Inv, Types, Steps, Progress, OpenFiles, SessionOK, LeftFrom
  <2>3. CASE Return(0) /\ lost' = [lost EXCEPT !.handles = @ + 1] /\ UNCHANGED out
    <3>1. /\ lost' \in [handles : Nat, sock : BOOLEAN]
          /\ lost'.handles = lost.handles + 1 /\ lost'.sock = lost.sock
      BY <2>3 DEF Inv, Types
    <3> QED
      BY <2>1, <2>3, <3>1 DEF Return, Inv, Types, Steps, Progress, OpenFiles, SessionOK
  <2> QED
    BY <1>2, <2>2, <2>3 DEF Create
<1> QED
  BY <1>1, <1>2

(* Reading: some bytes, nothing more, or an error. *)
LEMMA ReadInv ==
  ASSUME Inv, Read \/ ReadNothing \/ ReadFails
  PROVE  Inv'
<1>1. /\ pc = "read" /\ call \in {"Get", "GetRange"}
      /\ UNCHANGED <<proto, life, sock, ctx, sftp, connected, want, calls, lost>>
  BY DEF Inv, Steps, Read, ReadNothing, ReadFails, session
<1>2. ASSUME NEW n \in 1..Readable, got' = got + n, pos' = pos + n,
             UNCHANGED <<call, ret, pc, out, handles>>
      PROVE  Inv'
  <2>1. Readable \in Nat /\ Readable <= LeftFrom(pos) /\ (call # "Get" => Readable <= want - got)
    BY <1>1, ReadableBounds DEF Inv
  <2>2. n \in Nat /\ n \in 0..LeftFrom(pos) /\ LeftFrom(pos) \in Nat
    BY <1>2, <2>1, LeftAfter, FileBounds DEF Inv, Types
  <2>3. LeftFrom(pos') = LeftFrom(pos) - n
    BY <1>2, <2>2, LeftAfter DEF Inv, Types
  <2>4. LeftFrom(pos)' = LeftFrom(pos')
    BY DEF LeftFrom
  <2>5. Progress'
    BY <1>1, <1>2, <2>1, <2>2, <2>3, <2>4 DEF Inv, Types, Progress
  <2> QED
    BY <1>1, <1>2, <2>2, <2>5 DEF Inv, Types, Steps, OpenFiles, SessionOK
<1>3. ASSUME NEW r \in {0, 1}, Finish(r), UNCHANGED <<got, pos>> PROVE Inv'
  <2>1. /\ pc' = "idle" /\ call' = "none" /\ ret' = r /\ out' = FALSE
        /\ handles' = handles - 1 /\ handles = lost.handles + 1 /\ lost.handles \in Nat
    BY <1>1, <1>3 DEF Finish, Return, Inv, OpenFiles, Types
  <2>2. handles' = lost.handles /\ handles' \in Nat
    BY <2>1
  <2>3. Types'
    BY <1>1, <1>3, <2>1, <2>2 DEF Inv, Types
  <2> QED
    BY <1>1, <2>1, <2>2, <2>3 DEF Inv, Steps, Progress, OpenFiles, SessionOK
<1> QED
  BY <1>2, <1>3 DEF Read, ReadNothing, ReadFails, AtEnd

(* Every step of the client preserves the invariant. *)
LEMMA StepInv == Inv /\ [Next]_vars => Inv'
<1> SUFFICES ASSUME Inv, [Next]_vars PROVE Inv'
  OBVIOUS
<1>1. CASE Next
  BY <1>1, CallInv, SessionInv, OpenInv, ReadInv DEF Next
<1>2. CASE UNCHANGED vars
  BY <1>2 DEF vars, Inv, Types, Steps, Progress, OpenFiles, SessionOK, LeftFrom
<1> QED
  BY <1>1, <1>2

(* The inductive invariant holds in every reachable state. *)
THEOREM FileClientsInv == Spec => []Inv
BY InitInv, StepInv, PTL DEF Spec

(* Between operations nothing is open that was not lost on an early return *)
(* (sftpclient.cpp:87, 209, smbclient.cpp:112, nfsclient.cpp:113).         *)
THEOREM FileClientsNothingLeftOpen == Spec => []NothingLeftOpen
<1>1. Inv => NothingLeftOpen
  BY DEF Inv, Types, OpenFiles, SessionOK, NothingLeftOpen
<1> QED
  BY <1>1, FileClientsInv, PTL

-----------------------------------------------------------------------------
(* The refinement: one lemma per group of steps. *)

LEMMA InitMaps == Init => Interface!Init
BY DEF Init, Interface!Init, IsConnected

(* A call begins an operation of the interface. *)
LEMMA CallMaps ==
  ASSUME Inv, CallConnect \/ Get \/ GetRange \/ CallQuit
  PROVE  Interface!Begin
<1>1. \A p \in Nat : LeftFrom(p) \in 0..(FileSize + 1)
  BY LeftAfter, FileBounds
<1>2. 0 \in 0..(FileSize + 1) /\ 0..FileSize \subseteq Nat /\ 0..(FileSize + 1) \subseteq Nat
  BY FileBounds
<1>3. IsConnected' = IsConnected /\ ret' = ret
  BY DEF IsConnected, CallConnect, CallQuit, Get, GetRange, Transfer, session
<1> QED
  BY <1>1, <1>2, <1>3 DEF Interface!Begin, Interface!Operations, CallConnect, CallQuit, Get,
                          GetRange, Transfer, Begin

(* Connect and Quit return, or run into an undefined call. *)
LEMMA SessionMaps ==
  ASSUME Inv, SftpConnect \/ SmbConnect \/ NfsConnect \/ SftpQuit \/ SmbQuit \/ NfsQuit
  PROVE  Interface!Return \/ UNCHANGED Interface!vars
<1> USE DEF Inv, Types, Steps, SessionOK, Interface!Return, Interface!vars, Return, IsConnected
<1>1. CASE SftpConnect
  BY <1>1 DEF SftpConnect, session
<1>2. CASE SmbConnect
  BY <1>2 DEF SmbConnect
<1>3. CASE NfsConnect
  BY <1>3 DEF NfsConnect
<1>4. CASE SftpQuit
  BY <1>4 DEF SftpQuit
<1>5. CASE SmbQuit
  BY <1>5 DEF SmbQuit
<1>6. CASE NfsQuit
  BY <1>6 DEF NfsQuit
<1> QED
  BY <1>1, <1>2, <1>3, <1>4, <1>5, <1>6

(* Opening a file is no step of the interface, unless it fails. *)
LEMMA OpenMaps ==
  ASSUME Inv, Open \/ Create
  PROVE  Interface!Return \/ UNCHANGED Interface!vars
<1>1. /\ call \in {"Get", "GetRange"}
      /\ UNCHANGED <<proto, sock, ctx, sftp, connected, want, got>>
      /\ UNCHANGED <<call, ret>> \/ (call' = "none" /\ ret' = 0)
  <2>1. CASE Open
    BY <2>1 DEF Inv, Steps, Open, Return, session
  <2>2. CASE Create
    BY <2>2 DEF Inv, Steps, Create, Return, session
  <2> QED
    BY <2>1, <2>2
<1> QED
  BY <1>1 DEF Interface!Return, Interface!vars, IsConnected

(* A read hands over bytes, and a transfer that succeeds has handed over   *)
(* all of them.                                                            *)
LEMMA ReadMaps ==
  ASSUME Inv, Read \/ ReadNothing \/ ReadFails
  PROVE  Interface!Transfer \/ Interface!Return
<1>1. /\ pc = "read" /\ call \in {"Get", "GetRange"} /\ got \in Nat
      /\ UNCHANGED <<proto, sock, ctx, sftp, connected, want>>
  BY DEF Inv, Types, Steps, Read, ReadNothing, ReadFails, session
<1>2. IsConnected' = IsConnected
  BY <1>1 DEF IsConnected
<1>3. ASSUME NEW n \in 1..Readable, got' = got + n, UNCHANGED <<call, ret>>
      PROVE  Interface!Transfer
  <2>1. n \in Nat /\ n > 0
    BY <1>1, <1>3, ReadableBounds DEF Inv
  <2> QED
    BY <1>1, <1>2, <1>3, <2>1 DEF Interface!Transfer
<1>4. ASSUME Finish(0), UNCHANGED got PROVE Interface!Return
  BY <1>1, <1>2, <1>4 DEF Interface!Return, Finish, Return
<1>5. CASE ReadNothing
  <2>1. AtEnd = 1 => got = want
    <3>1. LeftFrom(pos) \in Nat /\ Readable = 0
      BY <1>5, LeftAfter, FileBounds DEF Inv, Types, ReadNothing
    <3> QED
      BY <1>1, <3>1 DEF Inv, Types, Progress, AtEnd, Readable, Wanted
  <2>2. AtEnd \in {0, 1} /\ Finish(AtEnd) /\ UNCHANGED got
    BY <1>5 DEF ReadNothing, AtEnd
  <2> QED
    BY <1>1, <1>2, <2>1, <2>2 DEF Interface!Return, Finish, Return
<1> QED
  BY <1>3, <1>4, <1>5 DEF Read, ReadFails

(* Every step of a client is a step of the interface, or none. *)
LEMMA StepMaps == Inv /\ [Next]_vars => [Interface!Next]_Interface!vars
<1> SUFFICES ASSUME Inv, [Next]_vars PROVE Interface!Next \/ UNCHANGED Interface!vars
  OBVIOUS
<1>1. CASE Next
  BY <1>1, CallMaps, SessionMaps, OpenMaps, ReadMaps DEF Next, Interface!Next
<1>2. CASE UNCHANGED vars
  BY <1>2 DEF vars, Interface!vars, IsConnected
<1> QED
  BY <1>1, <1>2

(* The SFTP, SMB and NFS clients keep the promises of RemoteClient: what   *)
(* IsConnected reports was connected, and a Get or GetRange that succeeds  *)
(* has handed over exactly the bytes asked for (sftpclient.cpp:190-314,    *)
(* smbclient.cpp:90-251, nfsclient.cpp:92-224).                            *)
THEOREM FileClientsRefine == Spec => ImplementsRemoteClient
BY InitMaps, StepMaps, FileClientsInv, PTL DEF Spec, ImplementsRemoteClient, Interface!Spec

=============================================================================
