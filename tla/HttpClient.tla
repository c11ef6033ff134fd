----------------------------- MODULE HttpClient -----------------------------
(***************************************************************************)
(* BaseClient, WebDAVClient and ArchiveOrgClient over httplib's client:    *)
(* one request at a time on a socket that is kept alive, reconnected when  *)
(* it is found dead, retried once when a TLS peer closed it, redirected on *)
(* the same client or on a new one, which nests sends.                     *)
(*                                                                         *)
(* A response is its status, the length and framing of its body, where it  *)
(* redirects to and whether it closes the connection.                      *)
(***************************************************************************)
EXTENDS Integers, Sequences, FiniteSets

CONSTANTS
  Tls,         (* the url is https                                          *)
  Login,       (* an archive.org host with a user name                      *)
  Sizes,       (* lengths a transfer may be asked for                       *)
  Answers,     (* responses the peer may give                               *)
  MaxRedirects (* redirect_count_                                           *)

ASSUME HttpBounds ==
  /\ Tls \in BOOLEAN /\ Login \in BOOLEAN /\ Sizes \subseteq Nat /\ MaxRedirects \in Nat
  /\ Answers \subseteq [status : Nat, location : {"none", "same", "other"}, length : Nat,
                        framing : {"length", "chunked", "none"}, close : BOOLEAN, cookie : BOOLEAN]

VARIABLES
  client,    (* BaseClient::client is not null                               *)
  connected,
  call, want, got, ret,  (* the operation of RemoteClient, as seen outside   *)
  pc,        (* where the innermost send is                                  *)
  sends,     (* nested sends, outermost first                                *)
  sock,      (* httplib client -> its socket_                                *)
  error,     (* the Error all nested sends share                             *)
  res,       (* response being read, and how much of its body was            *)
  sources    (* responses of this call whose bodies reached the receiver     *)

interface == <<client, connected, call, want, ret>>
vars == <<client, connected, call, want, got, ret, pc, sends, sock, error, res, sources>>

(* The client of the object is 1, that of a redirect to another host is    *)
(* one of the stack.                                                       *)
Ids == 1..(MaxRedirects + 1)
NoSocket == [open |-> FALSE, alive |-> FALSE, unread |-> 0, cut |-> FALSE]
Fresh == [NoSocket EXCEPT !.open = TRUE, !.alive = TRUE]
NoAnswer == [status |-> 0, location |-> "none", length |-> 0, framing |-> "length",
             close |-> FALSE, cookie |-> FALSE]
NoResponse == [answer |-> NoAnswer, read |-> 0, serial |-> 0]

Init ==
  /\ client = FALSE /\ connected = FALSE
  /\ call = "none" /\ want = 0 /\ got = 0 /\ ret = 0
  /\ pc = "idle" /\ sends = <<>> /\ sock = [i \in Ids |-> NoSocket]
  /\ error = "Success" /\ res = NoResponse /\ sources = {}

Top == sends[Len(sends)]
Id == Top.id
Send(i, redirects) == [id |-> i, tries |-> 1, redirects |-> redirects, ret |-> FALSE]

-----------------------------------------------------------------------------
(***************************************************************************)
(* The operations of BaseClient and ArchiveOrgClient.                      *)
(***************************************************************************)
Request(operation, size) ==
  /\ call = "none" /\ call' = operation /\ want' = size
  /\ pc' = "acquire" /\ sends' = <<Send(1, MaxRedirects)>>
  /\ error' = "Success" /\ res' = NoResponse /\ sources' = {} /\ got' = 0

(* Both end in client->Get with a Range header for what is wanted.         *)
Get == \E n \in Sizes : client /\ Request("Get", n) /\ UNCHANGED <<client, connected, ret, sock>>
GetRange == \E n \in Sizes : client /\ Request("GetRange", n) /\ UNCHANGED <<client, connected, ret, sock>>

(* The login form goes through Post, whose body is kept for a retry.       *)
Post == Request("Connect", 0)

(* Connect makes a new httplib client, which opens no socket; BaseClient   *)
(* drops the previous one.  An archive.org client logs in, unless it is    *)
(* connected.                                                              *)
Connect ==
  \/ /\ Login /\ ~connected
     /\ Post /\ client' = TRUE /\ sock' = [sock EXCEPT ![1] = NoSocket]
     /\ UNCHANGED <<connected, ret>>
  \/ /\ ~Login \/ connected
     /\ call = "none" /\ call' = "Connect" /\ want' = 0 /\ got' = 0 /\ pc' = "return"
     /\ client' = TRUE /\ sock' = IF Login THEN sock ELSE [sock EXCEPT ![1] = NoSocket]
     /\ sends' = <<[Send(1, 0) EXCEPT !.ret = TRUE]>> /\ error' = "Success"
     /\ res' = NoResponse /\ sources' = {}
     /\ UNCHANGED <<connected, ret>>

Quit ==
  /\ call = "none" /\ call' = "Quit" /\ want' = 0 /\ got' = 0 /\ pc' = "return"
  /\ sends' = <<[Send(1, 0) EXCEPT !.ret = TRUE]>> /\ error' = "Success"
  /\ res' = NoResponse /\ sources' = {}
  /\ UNCHANGED <<client, connected, ret, sock>>

(* Get takes any response for a success, GetRange counts, Login wants a    *)
(* 2xx with a cookie.  Quit deletes the httplib client.                    *)
\* Fault: GetRange takes any response for a success.
AnyResponse(r) == r
Judge(r) ==
  /\ r
  /\ call = "GetRange" => got = want
  /\ call = "Connect" /\ Login /\ ~connected => res.answer.status = 200 /\ res.answer.cookie

Return ==
  /\ pc = "return"
  /\ ret' = IF Judge(Top.ret) THEN 1 ELSE 0
  /\ connected' = CASE call = "Connect" -> connected \/ ret' = 1
                    [] call = "Quit" -> FALSE
                    [] OTHER -> connected
  /\ client' = (client /\ call # "Quit")
  /\ sock' = IF call = "Quit" THEN [sock EXCEPT ![1] = NoSocket] ELSE sock
  /\ call' = "none" /\ pc' = "idle" /\ sends' = <<>>
  /\ UNCHANGED <<want, got, error, res, sources>>

-----------------------------------------------------------------------------
(***************************************************************************)
(* send and send_.                                                         *)
(***************************************************************************)
Ends(r, err) ==
  /\ pc' = "exit" /\ error' = err
  /\ sends' = [sends EXCEPT ![Len(sends)].ret = r]

(* select_read finds something to read: bytes, or the end of the stream.   *)
SelectRead(s) == ~s.alive \/ s.unread > 0
IsSocketAlive(s) == s.open /\ (SelectRead(s) => s.unread > 0)

CloseSocket(i) == [sock EXCEPT ![i] = NoSocket]

(* A new socket: connecting succeeds, which resets the error, or not.      *)
\* Fault: the error of the attempt before is kept.
ErrorKept == error
Connected == "Success"

WaitUntilSocketIsReady == {"Success", "Connection", "ConnectionTimeout"}

CreateClientSocket ==
  \E e \in WaitUntilSocketIsReady :
    \/ /\ e = "Success" /\ sock' = [sock EXCEPT ![Id] = Fresh]
       /\ pc' = (IF Tls THEN "tls" ELSE "write") /\ error' = Connected /\ UNCHANGED sends
    \/ e # "Success" /\ sock' = CloseSocket(Id) /\ Ends(FALSE, e)

(* The socket of the client, if it is alive, or a new one.                 *)
Acquire ==
  /\ pc = "acquire"
  /\ \/ /\ IsSocketAlive(sock[Id])
        /\ pc' = "write" /\ UNCHANGED <<sends, sock, error>>
     \/ ~IsSocketAlive(sock[Id]) /\ CreateClientSocket
  /\ UNCHANGED <<interface, got, res, sources>>

(* The TLS handshake, until it is done, fails or select times out;         *)
(* certificates are not verified (baseclient.cpp:69).                      *)
SslConnectOrAccept == {"done", "failed", "timeout"}
SslNew == {outcome = "done" : outcome \in SslConnectOrAccept}

InitializeSsl ==
  /\ pc = "tls"
  /\ \E ssl \in SslNew :
       \/ ssl /\ pc' = "write" /\ UNCHANGED <<sends, sock, error>>
       \/ ~ssl /\ sock' = CloseSocket(Id) /\ Ends(FALSE, "SSLConnection")
  /\ UNCHANGED <<interface, got, res, sources>>

WriteRequest ==
  /\ pc = "write"
  /\ \/ pc' = "answer" /\ UNCHANGED <<sends, error>>
     \/ Ends(FALSE, "Write")
  /\ UNCHANGED <<interface, got, sock, res, sources>>

(* The response line and headers.  What is left of an earlier response is  *)
(* taken for this one and does not parse.                                  *)
ReadAnswer ==
  /\ pc = "answer"
  /\ \/ \E a \in Answers :
          /\ sock[Id].alive /\ sock[Id].unread = 0
          /\ res' = [answer |-> a, read |-> 0, serial |-> res.serial + 1]
          /\ pc' = "body" /\ UNCHANGED <<sends, error>>
     \/ Ends(FALSE, "Read") /\ UNCHANGED res
     \/ Tls /\ ~sock[Id].alive /\ sock[Id].unread = 0 /\ Ends(FALSE, "SSLPeerCouldBeClosed") /\ UNCHANGED res
  /\ UNCHANGED <<interface, got, sock, sources>>

(***************************************************************************)
(* read_content: with a length or in chunks all of it must come, without a *)
(* length it ends with the first read that fails, for whatever reason.     *)
(* The bodies of redirects are dropped.                                    *)
(***************************************************************************)
Rest == res.answer.length - res.read
Framed == res.answer.framing # "none"
Redirects(a) == a.status = 302
\* Fault: the body of a redirect is handed to the receiver.
GivenAlways == call \in {"Get", "GetRange"}
Given == call \in {"Get", "GetRange"} /\ ~Redirects(res.answer)

(* A read of the stream brings some of it or all that is missing.          *)
StreamRead == {1, Rest}

ReadContent ==
  /\ pc = "body" /\ Rest > 0
  /\ \E n \in StreamRead :
       /\ res' = [res EXCEPT !.read = @ + n]
       /\ got' = IF Given THEN got + n ELSE got
       /\ sources' = IF Given THEN sources \cup {res.serial} ELSE sources
       /\ \/ UNCHANGED <<pc, sends, error, sock>>
          \/ /\ call = "GetRange" /\ Given
             /\ sock' = [sock EXCEPT ![Id].unread = Rest - n]
             /\ Ends(FALSE, "Canceled")
  /\ UNCHANGED interface

(* A timeout or the end of the stream.                                     *)
ReadEnds ==
  /\ pc = "body"
  /\ \/ Rest = 0 /\ pc' = "handle" /\ UNCHANGED <<sends, error, sock>>
     \/ /\ Rest > 0 /\ ~Framed
        /\ pc' = "handle" /\ sock' = [sock EXCEPT ![Id].unread = Rest, ![Id].cut = TRUE]
        /\ UNCHANGED <<sends, error>>
     \/ /\ Rest > 0 /\ Framed
        /\ sock' = [sock EXCEPT ![Id].unread = Rest]
        /\ Ends(FALSE, "Read")
  /\ UNCHANGED <<interface, got, res, sources>>

(* handle_request and redirect.                                            *)
HandleResponse ==
  /\ pc = "handle"
  /\ sock' = IF res.answer.close THEN CloseSocket(Id) ELSE sock
  /\ \/ ~Redirects(res.answer) /\ Ends(TRUE, error)
     \/ Redirects(res.answer) /\ Top.redirects = 0 /\ Ends(FALSE, "ExceedRedirectCount")
     \/ /\ Redirects(res.answer) /\ Top.redirects > 0 /\ res.answer.location = "none"
        /\ Ends(FALSE, error)
     \/ /\ Redirects(res.answer) /\ Top.redirects > 0 /\ res.answer.location # "none"
        /\ LET i == IF res.answer.location = "same" THEN Id ELSE Len(sends) + 1
           IN sends' = Append(sends, Send(i, Top.redirects - 1))
        /\ pc' = "acquire" /\ UNCHANGED error
  /\ UNCHANGED <<interface, got, res, sources>>

(* The end of send_: a failure closes the socket.  send tries again once,  *)
(* after a TLS peer closed; a redirect's own client is destroyed.          *)
\* Fault: the socket of a failed request is kept.
ClosedNever(r, s) == s
ClosedUnless(r, s) == IF r THEN s ELSE NoSocket
\* Fault: a closed TLS peer is tried again for ever.
TriesAgain == error = "SSLPeerCouldBeClosed"
TriesOnce == error = "SSLPeerCouldBeClosed" /\ Top.tries = 1

SendEnds ==
  /\ pc = "exit"
  /\ LET after == [sock EXCEPT ![Id] = ClosedUnless(Top.ret, @)]
         outer == IF Len(sends) > 1 THEN sends[Len(sends) - 1].id ELSE Id
     IN /\ error' = IF ~Top.ret /\ error = "Success" THEN "Unknown" ELSE error
        /\ \/ /\ TriesOnce
              /\ sends' = [sends EXCEPT ![Len(sends)].tries = 2]
              /\ pc' = "acquire" /\ sock' = after
           \/ /\ ~TriesOnce /\ Len(sends) = 1
              /\ pc' = "return" /\ sock' = after /\ UNCHANGED sends
           \/ /\ ~TriesOnce /\ Len(sends) > 1
              /\ sends' = [SubSeq(sends, 1, Len(sends) - 1) EXCEPT ![Len(sends) - 1].ret = Top.ret]
              /\ sock' = IF outer = Id THEN after ELSE CloseSocket(Id)
              /\ UNCHANGED pc
  /\ UNCHANGED <<interface, got, res, sources>>

(* The peer may close a kept connection at any time.                       *)
PeerCloses ==
  \E i \in Ids :
    /\ sock[i].open /\ sock[i].alive
    /\ sock' = [sock EXCEPT ![i].alive = FALSE]
    /\ UNCHANGED <<interface, got, pc, sends, error, res, sources>>

-----------------------------------------------------------------------------
Step == Return \/ Acquire \/ InitializeSsl \/ WriteRequest \/ ReadAnswer \/ ReadContent \/ ReadEnds
        \/ HandleResponse \/ SendEnds
Next == Connect \/ Get \/ GetRange \/ Quit \/ Step \/ PeerCloses

(* Reads, writes and connecting have timeouts (30, 5 and 30 s), so that a  *)
(* silent peer does not stop a request.                                    *)
Spec == Init /\ [][Next]_vars /\ WF_vars(Step)

-----------------------------------------------------------------------------
(***************************************************************************)
(* The client implements RemoteClient; only GetRange, which counts,        *)
(* promises the length it was asked for (baseclient.cpp:115-137).          *)
(***************************************************************************)
Interface == INSTANCE RemoteClient WITH Wants <- Sizes \cup {0}, Exact <- {"GetRange"},
                                        connected <- connected /\ client
ImplementsRemoteClient == Interface!Spec

(***************************************************************************)
(* A request is answered by its own response: on a connection that is used *)
(* again nothing is left of an earlier body, whether it was cancelled, cut *)
(* short or belonged to a redirect (httplib.cpp:4667-4683).  The exception *)
(* is a body without a length that ended with a timeout: read_content      *)
(* takes it for complete, and the connection is kept.                      *)
(***************************************************************************)
AnswersInStep == pc = "answer" => sock[Id].unread = 0 \/ sock[Id].cut

(***************************************************************************)
(* What the receiver got came from one response, through retries and       *)
(* redirects, and when the request succeeds it is the last response, not a *)
(* redirect, and its whole body unless it came without a length            *)
(* (httplib.cpp:5098-5180, 1972-1997).                                     *)
(***************************************************************************)
OneBody ==
  /\ Cardinality(sources) <= 1
  /\ pc = "return" /\ call \in {"Get", "GetRange"} /\ Top.ret =>
       /\ sources \subseteq {res.serial} /\ ~Redirects(res.answer)
       /\ got = res.answer.length \/ res.answer.framing = "none"

(***************************************************************************)
(* "assert(!ret)" (httplib.cpp:4613): a send that reports a closed TLS     *)
(* peer has failed.  The error is shared with the sends of redirects,      *)
(* which may have met one and recovered.                                   *)
(***************************************************************************)
RetryAfterFailure == pc = "exit" /\ error = "SSLPeerCouldBeClosed" => ~Top.ret

(***************************************************************************)
(* Every operation returns, also when the peer is silent, closes TLS       *)
(* connections or redirects for ever (httplib.cpp:4609-4617, 4797-4801).   *)
(***************************************************************************)
OperationsReturn == (call # "none") ~> (call = "none")
=============================================================================
