-------------------------- MODULE HttpClientProofs --------------------------
(***************************************************************************)
(* Proofs about HttpClient, for any responses, sizes and number of         *)
(* redirects, over TLS and not: every request is answered by its own       *)
(* response, one body reaches the receiver, and the client implements      *)
(* RemoteClient.                                                           *)
(***************************************************************************)
EXTENDS HttpClient, FiniteSetTheorems, TLAPS

Labels == {"idle", "acquire", "tls", "write", "answer", "body", "handle", "exit", "return"}
Errors == {"Success", "Connection", "ConnectionTimeout", "SSLConnection", "Write", "Read",
           "SSLPeerCouldBeClosed", "Canceled", "ExceedRedirectCount", "Unknown"}
Kinds == [status : Nat, location : {"none", "same", "other"}, length : Nat,
          framing : {"length", "chunked", "none"}, close : BOOLEAN, cookie : BOOLEAN]
Frames == [id : Ids, tries : {1, 2}, redirects : Nat, ret : BOOLEAN]
Transfers == {"Get", "GetRange"}

(* The types. *)
Types ==
  /\ client \in BOOLEAN /\ connected \in BOOLEAN
  /\ call \in Transfers \cup {"none", "Connect", "Quit"} /\ want \in Sizes \cup {0} /\ got \in Nat
  /\ pc \in Labels /\ sends \in Seq(Frames) /\ error \in Errors
  /\ sock \in [Ids -> [open : BOOLEAN, alive : BOOLEAN, unread : Nat, cut : BOOLEAN]]
  /\ res \in [answer : Kinds, read : Nat, serial : Nat]

(* The call and its sends: each redirect has one redirect less to follow,  *)
(* so that the stack never has more sends than there are clients.  A       *)
(* client that is connected has nothing to do to connect.                  *)
CallOK ==
  /\ pc = "idle" <=> call = "none"
  /\ pc # "idle" => sends # <<>>
  /\ \A n \in DOMAIN sends : n + sends[n].redirects <= MaxRedirects + 1
  /\ connected => client
  /\ call = "Connect" => client
  /\ call = "Connect" /\ connected => pc = "return" /\ Top.ret
  /\ call = "Quit" => pc = "return"

(* What is left unread on a socket belongs to a body without a length, or  *)
(* to the send that has just failed and will close the socket.             *)
SocketsOK ==
  \A i \in Ids : sock[i].unread > 0 /\ ~sock[i].cut => pc = "exit" /\ ~Top.ret /\ i = Id

(* A closed TLS peer is only on record while its send fails, and until the *)
(* second try has a new socket.                                            *)
ErrorOK ==
  error = "SSLPeerCouldBeClosed" =>
    /\ pc \in {"acquire", "exit", "return", "idle"}
    /\ pc = "exit" => ~Top.ret
    /\ pc = "acquire" => ~sock[Id].open

(* What was handed over is the body of the response being read, and once   *)
(* something was handed over no other response is asked for.               *)
BodyOK ==
  /\ res.read <= res.answer.length
  /\ sources = {} => got = 0
  /\ sources \subseteq {res.serial}
  /\ pc \in {"acquire", "tls", "write", "answer"} => sources = {}
  /\ sources # {} => call \in Transfers \cup {"none"}
  /\ sources # {} => ~Redirects(res.answer) /\ error # "SSLPeerCouldBeClosed"
  /\ pc \in {"body", "handle"} /\ call \in Transfers =>
       got = IF Redirects(res.answer) THEN 0 ELSE res.read
  /\ pc = "handle" => res.answer.framing = "none" \/ res.read = res.answer.length
  /\ pc \in {"exit", "return"} /\ call \in Transfers /\ Top.ret =>
       /\ ~Redirects(res.answer)
       /\ got = res.answer.length \/ res.answer.framing = "none"

Inv == Types /\ CallOK /\ SocketsOK /\ ErrorOK /\ BodyOK

-----------------------------------------------------------------------------
(* The innermost send, and what is known of it. *)
LEMMA TopFrame ==
  ASSUME Types, CallOK, pc # "idle"
  PROVE  /\ sends \in Seq(Frames) /\ Len(sends) \in Nat \ {0} /\ Len(sends) \in DOMAIN sends
         /\ Top \in Frames /\ Id \in Ids /\ Top.redirects \in Nat
         /\ Len(sends) + Top.redirects <= MaxRedirects + 1
<1>1. sends \in Seq(Frames) /\ sends # <<>>
  BY DEF Types, CallOK
<1>2. Len(sends) \in Nat \ {0} /\ Len(sends) \in 1..Len(sends) /\ DOMAIN sends = 1..Len(sends)
  BY <1>1
<1>3. Top \in Frames
  BY <1>1, <1>2 DEF Top
<1>4. Id \in Ids /\ Top.redirects \in Nat
  BY <1>3 DEF Frames, Id
<1>5. Len(sends) + Top.redirects <= MaxRedirects + 1
  BY <1>2 DEF CallOK, Top
<1> QED
  BY <1>1, <1>2, <1>3, <1>4, <1>5

(* A field of the last send is set.                                        *)
LEMMA LastSet ==
  ASSUME NEW s \in Seq(Frames), s # <<>>, NEW f \in Frames, f.id = s[Len(s)].id,
         f.redirects = s[Len(s)].redirects, NEW t, t = [s EXCEPT ![Len(s)] = f]
  PROVE  /\ t \in Seq(Frames) /\ t # <<>> /\ Len(t) = Len(s) /\ t[Len(t)] = f
         /\ \A n \in DOMAIN t : n \in DOMAIN s /\ t[n].redirects = s[n].redirects
<1>1. Len(s) \in Nat \ {0} /\ DOMAIN s = 1..Len(s) /\ Len(s) \in DOMAIN s
  OBVIOUS
<1>2. DOMAIN t = DOMAIN s /\ \A n \in DOMAIN s : t[n] = IF n = Len(s) THEN f ELSE s[n]
  BY <1>1
<1>3. t \in [1..Len(s) -> Frames]
  <2>1. \A n \in 1..Len(s) : s[n] \in Frames
    BY <1>1
  <2>2. t = [n \in 1..Len(s) |-> IF n = Len(s) THEN f ELSE s[n]]
    BY <1>1
  <2> QED
    BY <2>1, <2>2
<1>4. t \in Seq(Frames) /\ Len(t) = Len(s)
  <2> DEFINE k == Len(s)
  <2>1. k \in Nat /\ t \in [1..k -> Frames]
    BY <1>1, <1>3
  <2> HIDE DEF k
  <2>2. t \in Seq(Frames) /\ Len(t) = k
    BY <2>1
  <2> QED
    BY <2>2 DEF k
<1> QED
  BY <1>1, <1>2, <1>4

(* The innermost send is over. *)
LEMMA EndsTop ==
  ASSUME Types, CallOK, pc # "idle", NEW r \in BOOLEAN, NEW err, Ends(r, err)
  PROVE  /\ pc' = "exit" /\ error' = err
         /\ sends' \in Seq(Frames) /\ sends' # <<>> /\ Top'.ret = r /\ Id' = Id
         /\ \A n \in DOMAIN sends' : n \in DOMAIN sends /\ sends'[n].redirects = sends[n].redirects
<1>1. /\ sends \in Seq(Frames) /\ sends # <<>> /\ Len(sends) \in DOMAIN sends /\ Top \in Frames
  BY TopFrame DEF Types, CallOK
<1> DEFINE f == [Top EXCEPT !.ret = r]
<1>2. f \in Frames /\ f.id = Top.id /\ f.redirects = Top.redirects /\ f.ret = r
  BY <1>1 DEF Frames
<1>3. sends' = [sends EXCEPT ![Len(sends)] = f]
  BY <1>1 DEF Ends, Top
<1> HIDE DEF f
<1>4. /\ sends' \in Seq(Frames) /\ sends' # <<>> /\ sends'[Len(sends')] = f
      /\ \A n \in DOMAIN sends' : n \in DOMAIN sends /\ sends'[n].redirects = sends[n].redirects
  BY <1>1, <1>2, <1>3, LastSet DEF Top
<1>5. Top' = f /\ Id' = Id
  BY <1>2, <1>4 DEF Top, Id
<1> QED
  BY <1>2, <1>4, <1>5 DEF Ends

(* Nothing of the call, of the sockets' remains or of the body is touched  *)
(* by a step between two steps of the innermost send.                      *)
LEMMA CallFrame ==
  ASSUME Inv, pc \notin {"idle", "return"}, pc' \notin {"idle", "return"}, UNCHANGED interface,
         sends' # <<>>,
         \A n \in DOMAIN sends' : n \in DOMAIN sends /\ sends'[n].redirects = sends[n].redirects
  PROVE  CallOK'
BY DEF Inv, CallOK, interface

Sockets == [open : BOOLEAN, alive : BOOLEAN, unread : Nat, cut : BOOLEAN]

LEMMA SocketValues ==
  /\ NoSocket \in Sockets /\ Fresh \in Sockets
  /\ NoSocket.unread = 0 /\ Fresh.unread = 0 /\ ~NoSocket.open
BY DEF Sockets, NoSocket, Fresh

(* A socket is replaced. *)
LEMMA SocketSet ==
  ASSUME Types, NEW i \in Ids, NEW e \in Sockets, sock' = [sock EXCEPT ![i] = e]
  PROVE  /\ sock' \in [Ids -> Sockets] /\ sock'[i] = e
         /\ \A j \in Ids : j # i => sock'[j] = sock[j]
BY DEF Types, Sockets

LEMMA InitInv == Init => Inv
<1> SUFFICES ASSUME Init PROVE Inv
  OBVIOUS
<1>1. NoAnswer \in Kinds /\ NoResponse \in [answer : Kinds, read : Nat, serial : Nat]
      /\ NoResponse.read = 0 /\ NoResponse.answer.length = 0
  BY DEF NoAnswer, NoResponse, Kinds
<1>2. sock \in [Ids -> Sockets] /\ \A i \in Ids : sock[i].unread = 0
  BY SocketValues DEF Init
<1>3. Types
  <2>1. sends \in Seq(Frames)
    BY DEF Init
  <2> QED
    BY <1>1, <1>2, <2>1 DEF Init, Types, Labels, Errors, Sockets
<1>4. CallOK
  BY DEF Init, CallOK
<1>5. SocketsOK /\ ErrorOK
  BY <1>2 DEF Init, SocketsOK, ErrorOK
<1>6. BodyOK
  BY <1>1 DEF Init, BodyOK
<1> QED
  BY <1>3, <1>4, <1>5, <1>6 DEF Inv

(* A call begins: with a request, or with nothing to send. *)
LEMMA BeginInv ==
  ASSUME Inv, pc = "idle", NEW operation \in Transfers \cup {"Connect", "Quit"}, call' = operation,
         want' \in Sizes \cup {0}, got' = 0, error' = "Success", res' = NoResponse, sources' = {},
         connected' = connected, client' \in BOOLEAN, client => client',
         operation = "Connect" => client',
         sock' = sock \/ sock' = [sock EXCEPT ![1] = NoSocket],
         \/ /\ pc' = "acquire" /\ sends' = <<Send(1, MaxRedirects)>> /\ operation # "Quit"
            /\ operation = "Connect" => ~connected
         \/ pc' = "return" /\ sends' = <<[Send(1, 0) EXCEPT !.ret = TRUE]>> /\ operation \notin Transfers
  PROVE  Inv'
<1>1. /\ NoResponse \in [answer : Kinds, read : Nat, serial : Nat]
      /\ NoResponse.read = 0 /\ NoResponse.answer.length = 0
  BY DEF NoAnswer, NoResponse, Kinds
<1>2. 1 \in Ids /\ MaxRedirects \in Nat
  BY HttpBounds DEF Ids
<1>3. sock' \in [Ids -> Sockets] /\ \A i \in Ids : sock'[i].unread > 0 => sock'[i] = sock[i]
  BY <1>2, SocketValues DEF Inv, Types, Sockets
<1>4. PICK f \in Frames : /\ sends' = <<f>> /\ f.redirects <= MaxRedirects
                          /\ pc' = "return" => f.ret
  <2>1. /\ Send(1, MaxRedirects) \in Frames /\ Send(1, MaxRedirects).redirects = MaxRedirects
        /\ [Send(1, 0) EXCEPT !.ret = TRUE] \in Frames /\ [Send(1, 0) EXCEPT !.ret = TRUE].ret
        /\ [Send(1, 0) EXCEPT !.ret = TRUE].redirects = 0
    BY <1>2 DEF Send, Frames
  <2>2. 0 <= MaxRedirects /\ MaxRedirects <= MaxRedirects
    BY <1>2
  <2>3. CASE pc' = "acquire"
    BY <2>1, <2>2, <2>3
  <2>4. CASE pc' = "return"
    BY <2>1, <2>2, <2>4
  <2> QED
    BY <2>3, <2>4
<1>5. /\ sends' \in Seq(Frames) /\ sends' # <<>> /\ DOMAIN sends' = {1} /\ sends'[1] = f
      /\ Len(sends') = 1 /\ Top' = f
  BY <1>4 DEF Top
<1>6. Types'
  BY <1>1, <1>3, <1>5 DEF Inv, Types, Labels, Errors, Sockets
<1>7. CallOK'
  <2>1. f.redirects \in Nat
    BY DEF Frames
  <2>2. \A n \in DOMAIN sends' : n + sends'[n].redirects <= MaxRedirects + 1
    BY <1>2, <1>4, <1>5, <2>1
  <2> QED
    BY <1>4, <1>5, <2>2 DEF Inv, CallOK, Transfers
<1>8. SocketsOK'
  BY <1>3 DEF Inv, SocketsOK
<1>9. ErrorOK'
  BY DEF ErrorOK
<1>10. BodyOK'
  BY <1>1 DEF BodyOK
<1> QED
  BY <1>6, <1>7, <1>8, <1>9, <1>10 DEF Inv

LEMMA OperationsInv ==
  ASSUME Inv, Connect \/ Get \/ GetRange \/ Quit
  PROVE  Inv'
<1>1. call = "none" => pc = "idle"
  BY DEF Inv, CallOK
<1>2. client \in BOOLEAN /\ connected \in BOOLEAN /\ (connected => client)
  BY DEF Inv, Types, CallOK
<1>3. CASE Get
  BY <1>1, <1>2, <1>3, BeginInv DEF Get, Request, Transfers
<1>4. CASE GetRange
  BY <1>1, <1>2, <1>4, BeginInv DEF GetRange, Request, Transfers
<1>5. CASE Quit
  BY <1>1, <1>2, <1>5, BeginInv DEF Quit, Transfers
<1>6. CASE Connect
  BY <1>1, <1>2, <1>6, BeginInv DEF Connect, Post, Request, Transfers
<1> QED
  BY <1>3, <1>4, <1>5, <1>6

(* A call returns. *)
LEMMA ReturnInv ==
  ASSUME Inv, Return
  PROVE  Inv'
<1>1. /\ pc = "return" /\ call' = "none" /\ pc' = "idle" /\ sends' = <<>>
      /\ UNCHANGED <<want, got, error, res, sources>>
      /\ client' = (client /\ call # "Quit")
      /\ sock' = sock \/ sock' = [sock EXCEPT ![1] = NoSocket]
  BY DEF Return
<1>2. /\ connected' \in BOOLEAN /\ client' \in BOOLEAN
      /\ connected' => client'
  <2>1. connected \in BOOLEAN /\ client \in BOOLEAN /\ (connected => client) /\ (call = "Connect" => client)
    BY DEF Inv, Types, CallOK
  <2>2. CASE call = "Connect"
    BY <1>1, <2>1, <2>2 DEF Return
  <2>3. CASE call = "Quit"
    BY <1>1, <2>1, <2>3 DEF Return
  <2>4. CASE call \notin {"Connect", "Quit"}
    BY <1>1, <2>1, <2>4 DEF Return
  <2> QED
    BY <2>2, <2>3, <2>4
<1>3. sock' \in [Ids -> Sockets] /\ \A i \in Ids : sock'[i].unread > 0 => sock'[i] = sock[i]
  <2>1. 1 \in Ids
    BY HttpBounds DEF Ids
  <2> QED
    BY <1>1, <2>1, SocketValues DEF Inv, Types, Sockets
<1>4. Types'
  BY <1>1, <1>2, <1>3 DEF Inv, Types, Labels, Sockets
<1>5. CallOK'
  BY <1>1, <1>2 DEF CallOK
<1>6. SocketsOK' /\ ErrorOK'
  BY <1>1, <1>3 DEF Inv, SocketsOK, ErrorOK
<1>7. BodyOK'
  BY <1>1 DEF Inv, BodyOK
<1> QED
  BY <1>4, <1>5, <1>6, <1>7 DEF Inv

-----------------------------------------------------------------------------
Working == {"acquire", "tls", "write", "answer", "body", "handle"}

(* The innermost send fails, whatever it leaves on its own socket. *)
LEMMA FailsInv ==
  ASSUME Inv, pc \in Working, NEW err \in Errors, Ends(FALSE, err), UNCHANGED interface,
         sock' \in [Ids -> Sockets], \A i \in Ids : i # Id => sock'[i] = sock[i],
         res' \in [answer : Kinds, read : Nat, serial : Nat],
         res'.answer = res.answer, res'.serial = res.serial, res'.read <= res.answer.length,
         got' \in Nat, sources' \subseteq {res.serial}, sources' = {} => got' = 0,
         sources' # {} => call \in Transfers /\ ~Redirects(res.answer) /\ err # "SSLPeerCouldBeClosed"
  PROVE  Inv'
<1>1. /\ Types /\ CallOK /\ pc # "idle" /\ pc # "return" /\ pc # "exit"
  BY DEF Inv, Working
<1>2. /\ pc' = "exit" /\ error' = err
      /\ sends' \in Seq(Frames) /\ sends' # <<>> /\ Top'.ret = FALSE /\ Id' = Id
      /\ \A n \in DOMAIN sends' : n \in DOMAIN sends /\ sends'[n].redirects = sends[n].redirects
  BY <1>1, EndsTop
<1>3. Types'
  BY <1>1, <1>2 DEF Types, Labels, Sockets, interface
<1>4. CallOK'
  BY <1>1, <1>2, CallFrame
<1>5. SocketsOK'
  BY <1>1, <1>2 DEF Inv, SocketsOK
<1>6. ErrorOK'
  BY <1>2 DEF ErrorOK
<1>7. BodyOK'
  BY <1>2 DEF BodyOK, Redirects, interface
<1> QED
  BY <1>3, <1>4, <1>5, <1>6, <1>7 DEF Inv

(* The innermost send goes on towards its response. *)
LEMMA GoesOnInv ==
  ASSUME Inv, pc \in {"acquire", "tls", "write"}, pc' \in {"tls", "write", "answer"},
         error' \in Errors \ {"SSLPeerCouldBeClosed"}, UNCHANGED <<interface, got, res, sources, sends>>,
         sock' \in [Ids -> Sockets], \A i \in Ids : i # Id => sock'[i] = sock[i],
         sock'[Id] = sock[Id] \/ sock'[Id].unread = 0
  PROVE  Inv'
<1>1. /\ Types /\ CallOK /\ pc # "idle" /\ pc # "return" /\ pc # "exit" /\ sends # <<>>
  BY DEF Inv, CallOK
<1>2. Types'
  BY <1>1 DEF Types, Labels, Sockets, interface
<1>3. CallOK'
  BY <1>1, CallFrame
<1>4. SocketsOK'
  BY <1>1 DEF Inv, SocketsOK
<1>5. ErrorOK'
  BY DEF ErrorOK
<1>6. BodyOK'
  BY DEF Inv, BodyOK, interface
<1> QED
  BY <1>2, <1>3, <1>4, <1>5, <1>6 DEF Inv

(* Getting a socket, the handshake and the request. *)
LEMMA RequestInv ==
  ASSUME Inv, Acquire \/ InitializeSsl \/ WriteRequest
  PROVE  Inv'
<1>1. /\ Types /\ CallOK /\ pc \in {"acquire", "tls", "write"} /\ sources = {} /\ got \in Nat /\ got = 0
      /\ UNCHANGED <<interface, got, res, sources>>
      /\ res \in [answer : Kinds, read : Nat, serial : Nat] /\ res.read <= res.answer.length
  BY DEF Inv, BodyOK, Types, Acquire, InitializeSsl, WriteRequest
<1>2. Id \in Ids
  BY <1>1, TopFrame
<1>3. error \in Errors /\ (pc # "acquire" => error # "SSLPeerCouldBeClosed")
      /\ sock \in [Ids -> Sockets]
  BY <1>1 DEF Inv, ErrorOK, Types, Sockets
<1>4. ASSUME sock' = CloseSocket(Id)
      PROVE  sock' \in [Ids -> Sockets] /\ \A i \in Ids : i # Id => sock'[i] = sock[i]
  BY <1>1, <1>2, <1>4, SocketSet, SocketValues DEF CloseSocket
<1>5. CASE Acquire
  <2>1. CASE IsSocketAlive(sock[Id]) /\ pc' = "write" /\ UNCHANGED <<sends, sock, error>>
    <3>1. error # "SSLPeerCouldBeClosed"
      BY <1>5, <2>1 DEF Inv, ErrorOK, Acquire, IsSocketAlive
    <3> QED
      BY <1>1, <1>3, <2>1, <3>1, GoesOnInv
  <2>2. CASE CreateClientSocket
    <3>1. CASE sock' = [sock EXCEPT ![Id] = Fresh] /\ pc' = (IF Tls THEN "tls" ELSE "write")
               /\ error' = Connected /\ UNCHANGED sends
      <4>1. /\ sock' \in [Ids -> Sockets] /\ sock'[Id] = Fresh
            /\ \A i \in Ids : i # Id => sock'[i] = sock[i]
        BY <1>1, <1>2, <3>1, SocketSet, SocketValues
      <4>2. error' \in Errors \ {"SSLPeerCouldBeClosed"} /\ pc' \in {"tls", "write"}
        BY <3>1 DEF Connected, Errors
      <4> QED
        BY <1>1, <3>1, <4>1, <4>2, SocketValues, GoesOnInv
    <3>2. ASSUME NEW e \in WaitUntilSocketIsReady, sock' = CloseSocket(Id), Ends(FALSE, e) PROVE Inv'
      <4>1. e \in Errors
        BY <3>2 DEF WaitUntilSocketIsReady, Errors
      <4> QED
        BY <1>1, <1>4, <3>2, <4>1, FailsInv DEF Working
    <3> QED
      BY <2>2, <3>1, <3>2 DEF CreateClientSocket
  <2> QED
    BY <1>5, <2>1, <2>2 DEF Acquire
<1>6. CASE InitializeSsl
  <2>1. CASE pc' = "write" /\ UNCHANGED <<sends, sock, error>>
    BY <1>1, <1>3, <1>6, <2>1, GoesOnInv DEF InitializeSsl
  <2>2. CASE sock' = CloseSocket(Id) /\ Ends(FALSE, "SSLConnection")
    BY <1>1, <1>4, <2>2, FailsInv DEF Working, Errors
  <2> QED
    BY <1>6, <2>1, <2>2 DEF InitializeSsl
<1>7. CASE WriteRequest
  <2>1. CASE pc' = "answer" /\ UNCHANGED <<sends, error>>
    BY <1>1, <1>3, <1>7, <2>1, GoesOnInv DEF WriteRequest
  <2>2. CASE Ends(FALSE, "Write")
    BY <1>1, <1>3, <1>7, <2>2, FailsInv DEF Working, Errors, WriteRequest
  <2> QED
    BY <1>7, <2>1, <2>2 DEF WriteRequest
<1> QED
  BY <1>5, <1>6, <1>7

(* The response line and headers. *)
LEMMA AnswerInv ==
  ASSUME Inv, ReadAnswer
  PROVE  Inv'
<1>1. /\ Types /\ CallOK /\ pc = "answer" /\ sources = {} /\ got \in Nat /\ got = 0
      /\ UNCHANGED <<interface, got, sock, sources>> /\ sock \in [Ids -> Sockets]
      /\ res \in [answer : Kinds, read : Nat, serial : Nat] /\ res.read <= res.answer.length
      /\ error # "SSLPeerCouldBeClosed" /\ sends # <<>>
  BY DEF Inv, BodyOK, CallOK, ErrorOK, Types, Sockets, ReadAnswer
<1>2. ASSUME NEW err \in {"Read", "SSLPeerCouldBeClosed"}, Ends(FALSE, err), UNCHANGED res PROVE Inv'
  BY <1>1, <1>2, FailsInv DEF Working, Errors
<1>3. ASSUME NEW a \in Answers, res' = [answer |-> a, read |-> 0, serial |-> res.serial + 1],
             pc' = "body", UNCHANGED <<sends, error>>
      PROVE  Inv'
  <2>1. a \in Kinds
    BY HttpBounds DEF Kinds
  <2>2. a.length \in Nat
    BY <2>1 DEF Kinds
  <2>3. /\ res' \in [answer : Kinds, read : Nat, serial : Nat] /\ res'.read = 0 /\ res'.answer = a
        /\ res'.read <= res'.answer.length
    BY <1>1, <1>3, <2>1, <2>2
  <2>4. Types'
    BY <1>1, <1>3, <2>3 DEF Types, Labels, interface
  <2>5. CallOK'
    BY <1>1, <1>3, CallFrame
  <2>6. SocketsOK' /\ ErrorOK'
    BY <1>1, <1>3 DEF Inv, SocketsOK, ErrorOK
  <2>7. BodyOK'
    BY <1>1, <1>3, <2>3 DEF BodyOK
  <2> QED
    BY <2>4, <2>5, <2>6, <2>7 DEF Inv
<1> QED
  BY <1>2, <1>3 DEF ReadAnswer

(* What the body steps know of the response. *)
LEMMA Body ==
  ASSUME Inv, pc = "body"
  PROVE  /\ Types /\ CallOK /\ sends # <<>> /\ got \in Nat /\ Id \in Ids /\ error # "SSLPeerCouldBeClosed"
         /\ error \in Errors /\ sock \in [Ids -> Sockets] /\ sock[Id] \in Sockets
         /\ res \in [answer : Kinds, read : Nat, serial : Nat]
         /\ res.answer.length \in Nat /\ res.read \in Nat /\ res.read <= res.answer.length
         /\ Rest \in Nat
<1>1. /\ Types /\ CallOK /\ sends # <<>> /\ got \in Nat /\ Id \in Ids /\ error # "SSLPeerCouldBeClosed"
      /\ error \in Errors /\ sock \in [Ids -> Sockets]
      /\ res \in [answer : Kinds, read : Nat, serial : Nat] /\ res.read <= res.answer.length
  BY TopFrame DEF Inv, BodyOK, CallOK, ErrorOK, Types, Sockets
<1>2. res.answer.length \in Nat /\ res.read \in Nat
  BY <1>1 DEF Kinds
<1>3. Rest \in Nat
  BY <1>1, <1>2 DEF Rest
<1> QED
  BY <1>1, <1>2, <1>3

(* Something of the body was read. *)
LEMMA ReadContentInv ==
  ASSUME Inv, ReadContent
  PROVE  Inv'
<1>1. pc = "body" /\ Rest > 0 /\ UNCHANGED interface
  BY DEF ReadContent
<1>2. PICK n \in StreamRead :
        /\ res' = [res EXCEPT !.read = @ + n]
        /\ got' = IF Given THEN got + n ELSE got
        /\ sources' = IF Given THEN sources \cup {res.serial} ELSE sources
        /\ \/ UNCHANGED <<pc, sends, error, sock>>
           \/ /\ call = "GetRange" /\ Given
              /\ sock' = [sock EXCEPT ![Id].unread = Rest - n]
              /\ Ends(FALSE, "Canceled")
  BY DEF ReadContent
<1>3. n \in Nat /\ n >= 1 /\ n <= Rest /\ Rest - n \in Nat
  BY <1>1, Body DEF StreamRead
<1>4. res.read + n \in Nat /\ res.read + n <= res.answer.length
  BY <1>1, <1>3, Body DEF Rest
<1>5. /\ res' \in [answer : Kinds, read : Nat, serial : Nat] /\ res'.read = res.read + n
      /\ res'.answer = res.answer /\ res'.serial = res.serial
  BY <1>1, <1>2, <1>4, Body
<1>6. got' \in Nat
  BY <1>1, <1>2, <1>3, Body
<1>7. /\ sources' \subseteq {res.serial} /\ (sources' = {} => got' = 0)
      /\ sources' # {} => call \in Transfers /\ ~Redirects(res.answer)
  <2>1. /\ sources \subseteq {res.serial} /\ (sources = {} => got = 0)
        /\ sources # {} => call \in Transfers /\ ~Redirects(res.answer)
    BY <1>1 DEF Inv, BodyOK, CallOK
  <2>2. CASE Given
    BY <1>2, <2>1, <2>2 DEF Given, Transfers
  <2>3. CASE ~Given
    BY <1>2, <2>1, <2>3
  <2> QED
    BY <2>2, <2>3
<1>8. CASE UNCHANGED <<pc, sends, error, sock>>
  <2>1. Types'
    BY <1>1, <1>5, <1>6, <1>8 DEF Inv, Types, interface
  <2>2. CallOK'
    BY <1>1, <1>8, Body, CallFrame
  <2>3. SocketsOK' /\ ErrorOK'
    BY <1>1, <1>8 DEF Inv, SocketsOK, ErrorOK, Top, Id
  <2>4. call \in Transfers => got' = IF Redirects(res.answer) THEN 0 ELSE res.read + n
    <3>1. call \in Transfers => got = IF Redirects(res.answer) THEN 0 ELSE res.read
      BY <1>1 DEF Inv, BodyOK
    <3> QED
      BY <1>2, <3>1 DEF Given, Transfers
  <2>5. BodyOK'
    BY <1>1, <1>4, <1>5, <1>7, <1>8, <2>4, Body DEF BodyOK, Redirects, interface
  <2> QED
    BY <2>1, <2>2, <2>3, <2>5 DEF Inv
<1>9. CASE sock' = [sock EXCEPT ![Id].unread = Rest - n] /\ Ends(FALSE, "Canceled")
  <2> DEFINE e == [sock[Id] EXCEPT !.unread = Rest - n]
  <2>1. e \in Sockets /\ sock' = [sock EXCEPT ![Id] = e]
    BY <1>1, <1>3, <1>9, Body DEF Sockets
  <2> HIDE DEF e
  <2>2. sock' \in [Ids -> Sockets] /\ \A i \in Ids : i # Id => sock'[i] = sock[i]
    BY <1>1, <2>1, Body, SocketSet
  <2> QED
    BY <1>1, <1>4, <1>5, <1>6, <1>7, <1>9, <2>2, FailsInv DEF Working, Errors
<1> QED
  BY <1>2, <1>8, <1>9

(* The body ends. *)
LEMMA ReadEndsInv ==
  ASSUME Inv, ReadEnds
  PROVE  Inv'
<1>1. pc = "body" /\ UNCHANGED <<interface, got, res, sources>>
  BY DEF ReadEnds
<1>2. CASE pc' = "handle" /\ (Rest = 0 \/ ~Framed) /\ UNCHANGED <<sends, error>>
           /\ (sock' = sock \/ sock' = [sock EXCEPT ![Id].unread = Rest, ![Id].cut = TRUE])
  <2>1. sock' \in [Ids -> Sockets] /\ \A i \in Ids : sock'[i] = sock[i] \/ sock'[i].cut
    <3>1. CASE sock' = sock
      BY <1>1, <3>1, Body
    <3>2. CASE sock' = [sock EXCEPT ![Id].unread = Rest, ![Id].cut = TRUE]
      <4> DEFINE e == [sock[Id] EXCEPT !.unread = Rest, !.cut = TRUE]
      <4>1. e \in Sockets /\ e.cut /\ sock' = [sock EXCEPT ![Id] = e]
        BY <1>1, <3>2, Body DEF Sockets
      <4> HIDE DEF e
      <4> QED
        BY <1>1, <4>1, Body, SocketSet
    <3> QED
      BY <1>2, <3>1, <3>2
  <2>2. Types'
    BY <1>1, <1>2, <2>1 DEF Inv, Types, Labels, Sockets, interface
  <2>3. CallOK'
    BY <1>1, <1>2, Body, CallFrame
  <2>4. SocketsOK' /\ ErrorOK'
    BY <1>1, <1>2, <2>1 DEF Inv, SocketsOK, ErrorOK
  <2>5. res.answer.framing = "none" \/ res.read = res.answer.length
    BY <1>1, <1>2, Body DEF Rest, Framed
  <2>6. BodyOK'
    BY <1>1, <1>2, <2>5 DEF Inv, BodyOK, interface
  <2> QED
    BY <2>2, <2>3, <2>4, <2>6 DEF Inv
<1>3. CASE sock' = [sock EXCEPT ![Id].unread = Rest] /\ Ends(FALSE, "Read")
  <2> DEFINE e == [sock[Id] EXCEPT !.unread = Rest]
  <2>1. e \in Sockets /\ sock' = [sock EXCEPT ![Id] = e]
    BY <1>1, <1>3, Body DEF Sockets
  <2> HIDE DEF e
  <2>2. sock' \in [Ids -> Sockets] /\ \A i \in Ids : i # Id => sock'[i] = sock[i]
    BY <1>1, <2>1, Body, SocketSet
  <2>3. /\ sources \subseteq {res.serial} /\ (sources = {} => got = 0)
        /\ sources # {} => call \in Transfers /\ ~Redirects(res.answer)
    BY <1>1 DEF Inv, BodyOK, CallOK
  <2> QED
    BY <1>1, <1>3, <2>2, <2>3, Body, FailsInv DEF Working, Errors
<1> QED
  BY <1>1, <1>2, <1>3 DEF ReadEnds

(* The response is handled: the send ends, or another one begins. *)
LEMMA HandleInv ==
  ASSUME Inv, HandleResponse
  PROVE  Inv'
<1>1. /\ Types /\ CallOK /\ pc = "handle" /\ UNCHANGED <<interface, got, res, sources>>
      /\ sock \in [Ids -> Sockets] /\ error \in Errors /\ error # "SSLPeerCouldBeClosed" /\ got \in Nat
      /\ res \in [answer : Kinds, read : Nat, serial : Nat] /\ res.read <= res.answer.length
      /\ sources \subseteq {res.serial} /\ (sources = {} => got = 0)
      /\ sources # {} => call \in Transfers /\ ~Redirects(res.answer)
  BY DEF Inv, BodyOK, CallOK, ErrorOK, Types, Sockets, HandleResponse
<1>2. /\ sends \in Seq(Frames) /\ Len(sends) \in Nat \ {0} /\ Top.redirects \in Nat /\ Id \in Ids
      /\ Len(sends) + Top.redirects <= MaxRedirects + 1
  BY <1>1, TopFrame
<1>3. /\ sock' \in [Ids -> Sockets] /\ \A i \in Ids : i # Id => sock'[i] = sock[i]
      /\ sock'[Id] = sock[Id] \/ sock'[Id].unread = 0
  <2>1. sock' = sock \/ sock' = [sock EXCEPT ![Id] = NoSocket]
    BY DEF HandleResponse, CloseSocket
  <2> QED
    BY <1>1, <1>2, <2>1, SocketSet, SocketValues
<1>4. ASSUME NEW err \in Errors, Ends(FALSE, err), err # "SSLPeerCouldBeClosed" PROVE Inv'
  BY <1>1, <1>3, <1>4, FailsInv DEF Working
<1>5. CASE ~Redirects(res.answer) /\ Ends(TRUE, error)
  <2>1. /\ pc' = "exit" /\ error' = error
        /\ sends' \in Seq(Frames) /\ sends' # <<>> /\ Top'.ret = TRUE /\ Id' = Id
        /\ \A n \in DOMAIN sends' : n \in DOMAIN sends /\ sends'[n].redirects = sends[n].redirects
    BY <1>1, <1>5, EndsTop
  <2>2. Types'
    BY <1>1, <1>3, <2>1 DEF Types, Labels, Sockets, interface
  <2>3. CallOK'
    BY <1>1, <2>1, CallFrame
  <2>4. SocketsOK' /\ ErrorOK'
    BY <1>1, <1>3, <2>1 DEF Inv, SocketsOK, ErrorOK
  <2>5. /\ call \in Transfers => got = res.read
        /\ res.answer.framing = "none" \/ res.read = res.answer.length
    BY <1>1, <1>5 DEF Inv, BodyOK
  <2>6. BodyOK'
    BY <1>1, <1>5, <2>1, <2>5 DEF BodyOK, interface
  <2> QED
    BY <2>2, <2>3, <2>4, <2>6 DEF Inv
<1>6. ASSUME NEW i, i = (IF res.answer.location = "same" THEN Id ELSE Len(sends) + 1),
             Redirects(res.answer), Top.redirects > 0,
             sends' = Append(sends, Send(i, Top.redirects - 1)), pc' = "acquire", UNCHANGED error
      PROVE  Inv'
  <2> DEFINE k == Len(sends)
             d == Top.redirects
  <2>1. i \in Ids
    <3>1. k \in Nat \ {0} /\ d \in Nat /\ d > 0 /\ k + d <= MaxRedirects + 1 /\ MaxRedirects \in Nat
      BY <1>2, <1>6, HttpBounds
    <3> HIDE DEF k, d
    <3>2. k + 1 \in Ids
      BY <3>1 DEF Ids
    <3> QED
      BY <1>2, <1>6, <3>2 DEF k
  <2>2. Send(i, d - 1) \in Frames /\ Send(i, d - 1).redirects = d - 1 /\ d - 1 \in Nat
    <3>1. d \in Nat /\ d > 0
      BY <1>2, <1>6
    <3> HIDE DEF d
    <3>2. d - 1 \in Nat
      BY <3>1
    <3> QED
      BY <2>1, <3>2 DEF Send, Frames
  <2>3. /\ sends' \in Seq(Frames) /\ sends' # <<>> /\ Len(sends') = k + 1
        /\ sends'[k + 1] = Send(i, d - 1) /\ \A n \in 1..k : sends'[n] = sends[n]
    BY <1>2, <1>6, <2>2
  <2>4. \A n \in DOMAIN sends' : n + sends'[n].redirects <= MaxRedirects + 1
    <3> SUFFICES ASSUME NEW n \in DOMAIN sends' PROVE n + sends'[n].redirects <= MaxRedirects + 1
      OBVIOUS
    <3>1. n \in 1..(k + 1) /\ k \in Nat /\ DOMAIN sends = 1..k
      BY <1>2, <2>3
    <3>2. n \in 1..k \/ n = k + 1
      <4> HIDE DEF k
      <4> QED
        BY <3>1
    <3>3. CASE n \in 1..k
      BY <1>1, <2>3, <3>1, <3>3 DEF CallOK
    <3>4. CASE n = k + 1
      <4>1. sends'[n].redirects = d - 1 /\ k + d <= MaxRedirects + 1 /\ d \in Nat
        BY <1>2, <2>2, <2>3, <3>4
      <4> HIDE DEF k, d
      <4> QED
        BY <3>1, <3>4, <4>1, HttpBounds
    <3> QED
      BY <3>2, <3>3, <3>4
  <2>5. Types'
    BY <1>1, <1>3, <1>6, <2>3 DEF Types, Labels, Sockets, interface
  <2>6. CallOK'
    BY <1>1, <1>6, <2>3, <2>4 DEF CallOK, interface
  <2>7. SocketsOK' /\ ErrorOK'
    BY <1>1, <1>3, <1>6 DEF Inv, SocketsOK, ErrorOK
  <2>8. BodyOK'
    BY <1>1, <1>6 DEF BodyOK, interface
  <2> QED
    BY <2>5, <2>6, <2>7, <2>8 DEF Inv
<1> QED
  BY <1>1, <1>4, <1>5, <1>6 DEF HandleResponse, Errors

(* A send ends: its socket is closed if it failed, and it is tried again,  *)
(* returns to the call, or to the send it was a redirect of.               *)
LEMMA SendEndsInv ==
  ASSUME Inv, SendEnds
  PROVE  Inv'
<1> DEFINE after == [sock EXCEPT ![Id] = ClosedUnless(Top.ret, @)]
           k == Len(sends)
<1>1. /\ Types /\ CallOK /\ SocketsOK /\ ErrorOK /\ BodyOK /\ pc = "exit"
      /\ UNCHANGED <<interface, got, res, sources>> /\ sock \in [Ids -> Sockets] /\ error \in Errors
  BY DEF Inv, Types, Sockets, SendEnds
<1>2. /\ sends \in Seq(Frames) /\ k \in Nat \ {0} /\ Top \in Frames /\ Id \in Ids /\ k \in DOMAIN sends
      /\ sends # <<>> /\ DOMAIN sends = 1..k /\ Top.ret \in BOOLEAN
  <2>1. sends \in Seq(Frames) /\ k \in Nat \ {0} /\ Top \in Frames /\ Id \in Ids /\ k \in DOMAIN sends
    BY <1>1, TopFrame
  <2> QED
    BY <1>1, <2>1 DEF Frames, CallOK
<1>3. error' \in Errors /\ (error' = "SSLPeerCouldBeClosed" <=> error = "SSLPeerCouldBeClosed")
  BY <1>1 DEF SendEnds, Errors
<1>4. /\ after \in [Ids -> Sockets] /\ \A i \in Ids : after[i].unread > 0 => after[i].cut
      /\ ~Top.ret => after[Id] = NoSocket
  <2> DEFINE e == ClosedUnless(Top.ret, sock[Id])
  <2>1. e \in Sockets /\ (e.unread > 0 => e.cut) /\ (~Top.ret => e = NoSocket)
    BY <1>1, <1>2, SocketValues DEF ClosedUnless, SocketsOK
  <2>2. after = [sock EXCEPT ![Id] = e]
    OBVIOUS
  <2> HIDE DEF e, after
  <2>3. /\ after \in [Ids -> Sockets] /\ after[Id] = e
        /\ \A i \in Ids : i # Id => after[i] = sock[i]
    BY <1>1, <1>2, <2>1, <2>2
  <2> QED
    BY <1>1, <2>1, <2>3 DEF SocketsOK
<1>5. CASE TriesOnce /\ sends' = [sends EXCEPT ![Len(sends)].tries = 2] /\ pc' = "acquire" /\ sock' = after
  <2> DEFINE f == [Top EXCEPT !.tries = 2]
  <2>1. f \in Frames /\ f.id = Top.id /\ f.redirects = Top.redirects /\ f.ret = Top.ret
    BY <1>2 DEF Frames
  <2>2. sends' = [sends EXCEPT ![k] = f]
    BY <1>2, <1>5 DEF Top
  <2> HIDE DEF f
  <2>3. /\ sends' \in Seq(Frames) /\ sends' # <<>> /\ Top' = f
        /\ \A n \in DOMAIN sends' : n \in DOMAIN sends /\ sends'[n].redirects = sends[n].redirects
    BY <1>2, <2>1, <2>2, LastSet DEF Top
  <2>4. Id' = Id
    BY <2>1, <2>3 DEF Id
  <2> HIDE DEF after, k
  <2>5. Types'
    BY <1>1, <1>3, <1>4, <1>5, <2>3 DEF Types, Labels, Sockets, interface
  <2>6. CallOK'
    BY <1>1, <1>5, <2>3, CallFrame DEF Inv
  <2>7. SocketsOK'
    BY <1>4, <1>5 DEF SocketsOK
  <2>8. error = "SSLPeerCouldBeClosed" /\ ~Top.ret /\ sources = {}
    BY <1>1, <1>5 DEF TriesOnce, ErrorOK, BodyOK
  <2>9. ErrorOK'
    BY <1>4, <1>5, <2>4, <2>8, SocketValues DEF ErrorOK
  <2>10. BodyOK'
    BY <1>1, <1>5, <2>8 DEF BodyOK, interface
  <2> QED
    BY <2>5, <2>6, <2>7, <2>9, <2>10 DEF Inv
<1>6. CASE k = 1 /\ pc' = "return" /\ sock' = after /\ UNCHANGED sends
  <2> HIDE DEF after, k
  <2>1. Types'
    BY <1>1, <1>3, <1>4, <1>6 DEF Types, Labels, Sockets, interface
  <2>2. CallOK'
    BY <1>1, <1>6 DEF CallOK, interface, Top
  <2>3. SocketsOK' /\ ErrorOK'
    BY <1>4, <1>6 DEF SocketsOK, ErrorOK
  <2>4. BodyOK'
    BY <1>1, <1>3, <1>6 DEF BodyOK, interface, Top
  <2> QED
    BY <2>1, <2>2, <2>3, <2>4 DEF Inv
<1>7. CASE /\ k > 1
           /\ sends' = [SubSeq(sends, 1, Len(sends) - 1) EXCEPT ![Len(sends) - 1].ret = Top.ret]
           /\ sock' = after \/ sock' = CloseSocket(Id)
           /\ UNCHANGED pc
  <2> DEFINE s == SubSeq(sends, 1, k - 1)
             f == [s[k - 1] EXCEPT !.ret = Top.ret]
  <2>1. /\ s \in Seq(Frames) /\ s # <<>> /\ Len(s) = k - 1
        /\ \A n \in DOMAIN s : n \in DOMAIN sends /\ s[n] = sends[n]
    <3>1. s \in Seq(Frames) /\ Len(s) = k - 1
      BY <1>2, <1>7
    <3>2. \A n \in 1..(k - 1) : s[n] = sends[n]
      BY <1>2, <1>7
    <3>3. k \in Nat /\ k > 1
      BY <1>2, <1>7
    <3>4. DOMAIN s = 1..(k - 1) /\ s # <<>> /\ 1..(k - 1) \subseteq 1..k
      <4> HIDE DEF s, k
      <4>1. 1..(k - 1) \subseteq 1..k /\ k - 1 # 0
        BY <3>3
      <4>2. ASSUME NEW z \in Seq(Frames) PROVE DOMAIN z = 1..Len(z) /\ (Len(z) # 0 => z # <<>>)
        OBVIOUS
      <4> QED
        BY <3>1, <4>1, <4>2
    <3> QED
      BY <1>2, <3>1, <3>2, <3>4
  <2>2. k - 1 \in DOMAIN s
    BY <1>2, <1>7, <2>1
  <2>3. s[k - 1] \in Frames
    BY <2>1, <2>2
  <2>4. f \in Frames /\ f.id = s[k - 1].id /\ f.redirects = s[k - 1].redirects /\ f.ret = Top.ret
    <3> HIDE DEF s
    <3> QED
      BY <1>2, <2>3 DEF Frames
  <2>5. sends' = [s EXCEPT ![Len(s)] = f]
    BY <1>7, <2>1
  <2> HIDE DEF f, s
  <2>6. /\ sends' \in Seq(Frames) /\ sends' # <<>> /\ Len(sends') = Len(s) /\ sends'[Len(sends')] = f
        /\ \A n \in DOMAIN sends' : n \in DOMAIN s /\ sends'[n].redirects = s[n].redirects
    BY <2>1, <2>4, <2>5, LastSet
  <2>7. /\ Top'.ret = Top.ret
        /\ \A n \in DOMAIN sends' : n \in DOMAIN sends /\ sends'[n].redirects = sends[n].redirects
    BY <2>1, <2>4, <2>6 DEF Top
  <2>8. sock' \in [Ids -> Sockets] /\ \A i \in Ids : sock'[i].unread > 0 => sock'[i].cut
    <3>1. CASE sock' = after
      BY <1>4, <3>1
    <3>2. CASE sock' = CloseSocket(Id)
      <4>1. /\ sock' \in [Ids -> Sockets] /\ sock'[Id] = NoSocket
            /\ \A i \in Ids : i # Id => sock'[i] = sock[i]
        BY <1>1, <1>2, <3>2, SocketSet, SocketValues DEF CloseSocket
      <4> QED
        BY <1>1, <4>1, SocketValues DEF SocketsOK
    <3> QED
      BY <1>7, <3>1, <3>2
  <2> HIDE DEF after, k
  <2>9. Types'
    BY <1>1, <1>3, <1>7, <2>6, <2>8 DEF Types, Labels, Sockets, interface
  <2>10. CallOK'
    BY <1>1, <1>7, <2>6, <2>7, CallFrame DEF Inv
  <2>11. SocketsOK' /\ ErrorOK'
    BY <1>1, <1>3, <1>7, <2>7, <2>8 DEF SocketsOK, ErrorOK
  <2>12. BodyOK'
    BY <1>1, <1>3, <1>7, <2>7 DEF BodyOK, interface
  <2> QED
    BY <2>9, <2>10, <2>11, <2>12 DEF Inv
<1> QED
  BY <1>1, <1>5, <1>6, <1>7 DEF SendEnds

(* The peer closes a connection. *)
LEMMA PeerClosesInv ==
  ASSUME Inv, PeerCloses
  PROVE  Inv'
<1>1. PICK i \in Ids : sock' = [sock EXCEPT ![i].alive = FALSE]
                       /\ UNCHANGED <<interface, got, pc, sends, error, res, sources>>
  BY DEF PeerCloses
<1> DEFINE e == [sock[i] EXCEPT !.alive = FALSE]
<1>2. /\ e \in Sockets /\ e.unread = sock[i].unread /\ e.cut = sock[i].cut /\ e.open = sock[i].open
      /\ sock' = [sock EXCEPT ![i] = e]
  BY <1>1 DEF Inv, Types, Sockets
<1> HIDE DEF e
<1>3. /\ sock' \in [Ids -> Sockets]
      /\ \A j \in Ids : /\ sock'[j].unread = sock[j].unread /\ sock'[j].cut = sock[j].cut
                        /\ sock'[j].open = sock[j].open
  BY <1>1, <1>2, SocketSet DEF Inv
<1>4. Top' = Top /\ Id' = Id
  BY <1>1 DEF Top, Id
<1>5. Types'
  BY <1>1, <1>3 DEF Inv, Types, Sockets, interface
<1>6. CallOK'
  BY <1>1, <1>4 DEF Inv, CallOK, interface
<1>7. SocketsOK'
  BY <1>1, <1>3, <1>4 DEF Inv, SocketsOK
<1>8. ErrorOK'
  <2>1. pc # "idle" => Id \in Ids
    BY TopFrame DEF Inv
  <2> QED
    BY <1>1, <1>3, <1>4, <2>1 DEF Inv, ErrorOK
<1>9. BodyOK'
  BY <1>1, <1>4 DEF Inv, BodyOK, interface
<1> QED
  BY <1>5, <1>6, <1>7, <1>8, <1>9 DEF Inv

LEMMA StepInv == Inv /\ [Next]_vars => Inv'
<1> SUFFICES ASSUME Inv, [Next]_vars PROVE Inv'
  OBVIOUS
<1>1. CASE Next
  BY <1>1, OperationsInv, ReturnInv, RequestInv, AnswerInv, ReadContentInv, ReadEndsInv, HandleInv,
     SendEndsInv, PeerClosesInv DEF Next, Step
<1>2. CASE UNCHANGED vars
  BY <1>2 DEF Inv, vars, Types, CallOK, SocketsOK, ErrorOK, BodyOK, Top, Id, Redirects
<1> QED
  BY <1>1, <1>2

(***************************************************************************)
(* The state of the nested sends: the stack never outgrows the redirects   *)
(* allowed, what was handed over is one response's body, and only a failed *)
(* send leaves something unread on its socket.                             *)
(***************************************************************************)
THEOREM HttpClientInv == Spec => []Inv
<1>1. Init => Inv
  BY InitInv
<1>2. Inv /\ [Next]_vars => Inv'
  BY StepInv
<1> QED
  BY <1>1, <1>2, PTL DEF Spec

(* On a connection that is used again nothing is left of an earlier body,  *)
(* except of one without a length that timed out (httplib.cpp:4667-4683).  *)
THEOREM HttpAnswersInStep == Spec => []AnswersInStep
<1>1. Inv => AnswersInStep
  <2> SUFFICES ASSUME Inv, pc = "answer" PROVE sock[Id].unread = 0 \/ sock[Id].cut
    BY DEF AnswersInStep
  <2>1. Id \in Ids
    BY TopFrame DEF Inv
  <2>2. sock[Id].unread \in Nat
    BY <2>1 DEF Inv, Types
  <2> QED
    BY <2>1, <2>2 DEF Inv, SocketsOK
<1> QED
  BY <1>1, HttpClientInv, PTL

(* Through retries and redirects, what the receiver got is the body of one *)
(* response; when the request succeeds it is that of the last one, whole   *)
(* unless it came without a length (httplib.cpp:5098-5180, 1972-1997).     *)
THEOREM HttpOneBody == Spec => []OneBody
<1>1. Inv => OneBody
  <2> SUFFICES ASSUME Inv PROVE OneBody
    OBVIOUS
  <2>1. sources = {} \/ sources = {res.serial}
    BY DEF Inv, BodyOK
  <2>2. Cardinality(sources) \in {0, 1}
    <3>1. CASE sources = {}
      BY <3>1, FS_EmptySet
    <3>2. CASE sources = {res.serial}
      BY <3>2, FS_Singleton
    <3> QED
      BY <2>1, <3>1, <3>2
  <2> QED
    BY <2>2 DEF Inv, BodyOK, OneBody, Transfers
<1> QED
  BY <1>1, HttpClientInv, PTL

(* The assertion before the second try (httplib.cpp:4613) holds, also when *)
(* the closed TLS peer was met by the send of a redirect.                  *)
THEOREM HttpRetryAfterFailure == Spec => []RetryAfterFailure
<1>1. Inv => RetryAfterFailure
  BY DEF Inv, ErrorOK, RetryAfterFailure
<1> QED
  BY <1>1, HttpClientInv, PTL

-----------------------------------------------------------------------------
(* The mapping of the initial states. *)
LEMMA InitMaps == Init => Interface!Init
BY DEF Init, Interface!Init

(* Every step is one of the interface, or none. *)
LEMMA StepMaps == Inv /\ [Next]_vars => [Interface!Next]_Interface!vars
<1> SUFFICES ASSUME Inv, [Next]_vars PROVE Interface!Next \/ UNCHANGED Interface!vars
  OBVIOUS
<1>0. /\ connected \in BOOLEAN /\ client \in BOOLEAN /\ (connected => client)
      /\ (call = "Connect" => client) /\ got \in Nat
  BY DEF Inv, Types, CallOK
<1>1. CASE Connect \/ Get \/ GetRange \/ Quit
  <2>1. /\ call = "none" /\ call' \in {"Connect", "Get", "GetRange", "Quit"} /\ want' \in Sizes \cup {0}
        /\ got' = 0 /\ UNCHANGED <<connected, ret>> /\ (client => client')
    BY <1>0, <1>1 DEF Connect, Get, GetRange, Quit, Post, Request
  <2>2. (connected /\ client)' = (connected /\ client)
    BY <1>0, <2>1
  <2> QED
    BY <2>1, <2>2 DEF Interface!Next, Interface!Begin, Interface!Operations
<1>2. CASE Return
  <2>1. /\ call # "none" /\ call' = "none" /\ ret' \in {0, 1} /\ UNCHANGED <<want, got>>
        /\ ret' = 1 /\ call = "GetRange" => got = want
    BY <1>2 DEF Inv, CallOK, Return, Judge
  <2>2. CASE call = "Connect"
    <3>1. connected => ret' = 1
      BY <1>2, <2>2 DEF Inv, CallOK, Return, Judge
    <3>2. connected' = (connected \/ ret' = 1) /\ client' = client
      BY <1>0, <1>2, <2>2 DEF Return
    <3>3. (connected /\ client)' \in BOOLEAN /\ ((connected /\ client)' => ret' = 1)
      BY <1>0, <3>1, <3>2
    <3> QED
      BY <2>1, <2>2, <3>3 DEF Interface!Next, Interface!Return
  <2>3. CASE call = "Quit"
    <3>1. (connected /\ client)' = FALSE
      BY <1>2, <2>3 DEF Return
    <3> QED
      BY <2>1, <2>3, <3>1 DEF Interface!Next, Interface!Return
  <2>4. CASE call \notin {"Connect", "Quit"}
    <3>1. (connected /\ client)' = (connected /\ client)
      BY <1>0, <1>2, <2>4 DEF Return
    <3> QED
      BY <2>1, <2>4, <3>1 DEF Interface!Next, Interface!Return
  <2> QED
    BY <2>2, <2>3, <2>4
<1>3. CASE ReadContent
  <2>1. pc = "body" /\ Rest > 0 /\ UNCHANGED interface
    BY <1>3 DEF ReadContent
  <2>2. PICK n \in StreamRead : got' = IF Given THEN got + n ELSE got
    BY <1>3 DEF ReadContent
  <2>3. n \in Nat /\ n >= 1
    BY <2>1, Body DEF StreamRead
  <2>4. CASE Given
    <3>1. got' \in Nat /\ got' > got
      BY <1>0, <2>2, <2>3, <2>4
    <3> QED
      BY <2>1, <2>4, <3>1 DEF Interface!Next, Interface!Transfer, Given, interface
  <2>5. CASE ~Given
    BY <2>1, <2>2, <2>5 DEF Interface!vars, interface
  <2> QED
    BY <2>4, <2>5
<1>4. CASE \/ Acquire \/ InitializeSsl \/ WriteRequest \/ ReadAnswer \/ ReadEnds \/ HandleResponse
           \/ SendEnds \/ PeerCloses \/ UNCHANGED vars
  <2>1. UNCHANGED <<interface, got>>
    BY <1>4 DEF Acquire, InitializeSsl, WriteRequest, ReadAnswer, ReadEnds, HandleResponse, SendEnds,
                PeerCloses, vars, interface
  <2> QED
    BY <2>1 DEF Interface!vars, interface
<1> QED
  BY <1>1, <1>2, <1>3, <1>4 DEF Next, Step

(* BaseClient, WebDAVClient and ArchiveOrgClient keep the promises of      *)
(* RemoteClient: what IsConnected reports was connected and logged in, a   *)
(* GetRange that returns 1 has handed over exactly what it was asked for   *)
(* (baseclient.cpp:60-137), and after Quit the client is not connected.    *)
THEOREM HttpClientRefines == Spec => ImplementsRemoteClient
BY InitMaps, StepMaps, HttpClientInv, PTL DEF Spec, ImplementsRemoteClient, Interface!Spec
=============================================================================
