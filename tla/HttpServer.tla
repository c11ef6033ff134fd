------------------------------ MODULE HttpServer ------------------------------
(***************************************************************************)
(* The server as it serves: the loop of Start around httplib's listen, the *)
(* thread pool that runs one connection per worker, keep-alive, routing,   *)
(* the handlers as far as they matter to the connection, ranges, and the   *)
(* content provider of /bg_install with its releaser.                      *)
(*                                                                         *)
(* A connection is what its peer will send, a sequence of requests.  Of a  *)
(* response the model keeps the length it declares, the bytes of head and  *)
(* body that were sent, and those that were lost because nobody looked at  *)
(* the result of a write: of the head and of the boundaries.  Lengths are  *)
(* size_t of Word values, so that they wrap.                               *)
(***************************************************************************)
EXTENDS Integers, Sequences, FiniteSets

CONSTANTS
  Workers,       (* threads of a task queue                                 *)
  Conns,         (* connections peers will make                             *)
  Scripts,       (* what they may send, functions from Conns to sequences   *)
  KeepAliveMax,  (* keep_alive_max_count_                                   *)
  Attempts,      (* how often /start_client looks for the client            *)
  Size,          (* content length of the package                          *)
  Word,          (* number of values of a size_t                           *)
  HeadSize,      (* bytes of a response's status line and headers           *)
  Overhead,      (* bytes around a part of a multipart response             *)
  MaxGen,        (* bound: how often listen is entered                      *)
  MaxNaps,       (* bound: how often the console enters rest mode           *)
  Nobody         (* no connection                                           *)

(* The bounds of a range, -1 for a missing one.  A header with reversed    *)
(* bounds is refused.                                                      *)
Bounds == {r \in (Nat \cup {-1}) \X (Nat \cup {-1}) : r[1] = -1 \/ r[2] = -1 \/ r[1] <= r[2]}
Methods == {"GET", "HEAD", "POST", "PUT", "DELETE", "CONNECT", "OPTIONS", "TRACE", "PATCH", "PRI"}
Kinds == {"bad", "line", "file", "stop", "start", "install", "version"}
Requests == [kind : Kinds, method : Methods, ranges : Seq(Bounds), close : BOOLEAN]

ASSUME ServerBounds ==
  /\ Size \in Nat /\ Word \in Nat \ {0} /\ Size < Word /\ HeadSize \in Nat /\ Overhead \in Nat
  /\ KeepAliveMax \in Nat \ {0} /\ Attempts \in Nat /\ MaxGen \in Nat /\ MaxNaps \in Nat
  /\ Nobody \notin Conns /\ Workers # {} /\ Scripts \subseteq [Conns -> Seq(Requests)]

(* A request: what routing finds, "version" for any handler of its own;    *)
(* the method, the ranges of its Range header with -1 for a missing end,   *)
(* and whether it closes the connection ("Connection: close", HTTP/1.0).   *)
VARIABLES
  main,       (* where Start is: "head", "bind", "accept", "join", "after", "done", "aborted" *)
  gen,        (* listening sockets made so far                                 *)
  svr_sock,   (* svr_sock_: 0 is INVALID_SOCKET                                *)
  open,       (* listening sockets that are open                               *)
  is_running, stop_server, in_rest_mode, naps,
  conn,       (* connection -> "new", "queued", "served", "closed"             *)
  script,     (* connection -> requests its peer has still to send             *)
  jobs,       (* jobs_ of the task queue                                       *)
  shutdown,   (* shutdown_ of the task queue                                   *)
  w,          (* worker -> its state                                           *)
  held,       (* workers whose Response holds a client it has to release       *)
  reply       (* connection -> the last response on it                         *)

lifecycle == <<main, gen, svr_sock, open, is_running, stop_server, in_rest_mode, naps>>
queue == <<jobs, shutdown>>
vars == <<main, gen, svr_sock, open, is_running, stop_server, in_rest_mode, naps,
          conn, script, jobs, shutdown, w, held, reply>>

NoRequest == [kind |-> "bad", method |-> "GET", ranges |-> <<>>, close |-> FALSE]
NoWorker == [pc |-> "none", conn |-> Nobody, count |-> 0, req |-> NoRequest,
             part |-> 0, offset |-> 0, end |-> 0, declared |-> 0, written |-> 0, lost |-> 0,
             success |-> FALSE, ok |-> TRUE, last |-> FALSE]

NoReply == [declared |-> 0, written |-> 0, lost |-> 0, req |-> NoRequest]

Init ==
  /\ main = "head" /\ gen = 0 /\ svr_sock = 0 /\ open = {}
  /\ is_running = FALSE /\ stop_server = FALSE /\ in_rest_mode = FALSE /\ naps = 0
  /\ conn = [c \in Conns |-> "new"] /\ script \in Scripts
  /\ jobs = <<>> /\ shutdown = FALSE
  /\ w = [t \in Workers |-> NoWorker]
  /\ held = {} /\ reply = [c \in Conns |-> NoReply]

-----------------------------------------------------------------------------
(***************************************************************************)
(* Start.  Rest mode is read anew at each test.                            *)
(***************************************************************************)
StartLoop ==
  /\ main = "head"
  /\ \/ stop_server /\ main' = "done"
     \/ ~stop_server /\ ~in_rest_mode /\ main' = "bind"
     \/ ~stop_server /\ in_rest_mode /\ main' = "after"
  /\ UNCHANGED <<gen, svr_sock, open, is_running, stop_server, in_rest_mode, naps,
                 conn, script, queue, w, held, reply>>

CreateSocket(s) == open' = open \cup {s}

(* ServerThread and listen: the socket is bound or not, then the task      *)
(* queue's threads are started.                                            *)
Listen ==
  /\ main = "bind"
  /\ \/ /\ gen < MaxGen
        /\ gen' = gen + 1 /\ svr_sock' = gen' /\ CreateSocket(gen')
        /\ is_running' = TRUE /\ shutdown' = FALSE
        /\ w' = [t \in Workers |-> [NoWorker EXCEPT !.pc = "wait"]]
        /\ main' = "accept"
     \/ main' = "after" /\ svr_sock' = 0
        /\ UNCHANGED <<gen, open, is_running, shutdown, w>>
  /\ UNCHANGED <<stop_server, in_rest_mode, naps, conn, script, jobs, held, reply>>

Enqueue(c) == jobs' = Append(jobs, c)

Accept(c) ==
  /\ main = "accept" /\ svr_sock # 0 /\ svr_sock \in open
  /\ conn[c] = "new"
  /\ conn' = [conn EXCEPT ![c] = "queued"]
  /\ Enqueue(c)
  /\ UNCHANGED <<lifecycle, script, shutdown, w, held, reply>>

(* accept fails: because the socket was closed by stop, or for another     *)
(* reason; then it is closed here, and svr_sock_ keeps its number.         *)
Close(s) == open' = open \ {s}

AcceptFails ==
  /\ main = "accept"
  /\ IF svr_sock = 0 THEN UNCHANGED open ELSE Close(svr_sock)
  /\ shutdown' = TRUE
  /\ main' = "join"
  /\ UNCHANGED <<gen, svr_sock, is_running, stop_server, in_rest_mode, naps,
                 conn, script, jobs, w, held, reply>>

Join ==
  /\ main = "join" /\ \A t \in Workers : w[t].pc = "none"
  /\ is_running' = FALSE
  /\ main' = "after"
  /\ UNCHANGED <<gen, svr_sock, open, stop_server, in_rest_mode, naps,
                 conn, script, queue, w, held, reply>>

(* The server object is replaced, except in rest mode.                     *)
AfterListen ==
  /\ main = "after"
  /\ main' = "head"
  /\ svr_sock' = IF ~stop_server /\ ~in_rest_mode THEN 0 ELSE svr_sock
  /\ UNCHANGED <<gen, open, is_running, stop_server, in_rest_mode, naps,
                 conn, script, queue, w, held, reply>>

SetRestMode ==
  /\ main # "aborted"
  /\ in_rest_mode \/ naps < MaxNaps
  /\ in_rest_mode' = ~in_rest_mode
  /\ naps' = IF in_rest_mode THEN naps ELSE naps + 1
  /\ UNCHANGED <<main, gen, svr_sock, open, is_running, stop_server,
                 conn, script, queue, w, held, reply>>

(* The process dies, and its connections with it.                         *)
Dies ==
  /\ main' = "aborted" /\ open' = {} /\ jobs' = <<>> /\ held' = {}
  /\ w' = [t \in Workers |-> NoWorker]
  /\ conn' = [c \in Conns |-> "closed"] /\ reply' = [c \in Conns |-> NoReply]
  /\ UNCHANGED <<gen, svr_sock, is_running, in_rest_mode, naps, script, shutdown>>

-----------------------------------------------------------------------------
(***************************************************************************)
(* A worker takes a job, or ends when the queue is shut down and empty.    *)
(***************************************************************************)
\* Fault: a worker ends at shutdown although jobs are left.
TakeJobUnlessShutdown(t) ==
  /\ w[t].pc = "wait"
  /\ \/ /\ jobs # <<>> /\ ~shutdown
        /\ w' = [w EXCEPT ![t] = [NoWorker EXCEPT !.pc = "keepalive", !.conn = Head(jobs),
                                                  !.count = KeepAliveMax]]
        /\ conn' = [conn EXCEPT ![Head(jobs)] = "served"]
        /\ jobs' = Tail(jobs)
     \/ shutdown /\ w' = [w EXCEPT ![t] = NoWorker] /\ UNCHANGED <<conn, jobs>>
  /\ UNCHANGED <<lifecycle, script, shutdown, held, reply>>

TakeJob(t) ==
  /\ w[t].pc = "wait"
  /\ \/ /\ jobs # <<>>
        /\ w' = [w EXCEPT ![t] = [NoWorker EXCEPT !.pc = "keepalive", !.conn = Head(jobs),
                                                  !.count = KeepAliveMax]]
        /\ conn' = [conn EXCEPT ![Head(jobs)] = "served"]
        /\ jobs' = Tail(jobs)
     \/ shutdown /\ jobs = <<>> /\ w' = [w EXCEPT ![t] = NoWorker] /\ UNCHANGED <<conn, jobs>>
  /\ UNCHANGED <<lifecycle, script, shutdown, held, reply>>

(***************************************************************************)
(* process_server_socket: while the server is not stopped and the count    *)
(* lasts, wait for a request.  Otherwise, at the keep-alive timeout and    *)
(* when the peer has gone, the socket is closed.                           *)
(***************************************************************************)
Keep(t) == svr_sock # 0 /\ w[t].count > 0

NextRequest(t) ==
  /\ w[t].pc = "keepalive" /\ Keep(t) /\ script[w[t].conn] # <<>>
  /\ LET r == Head(script[w[t].conn]) IN
       w' = [w EXCEPT ![t].pc = "route", ![t].req = r, ![t].last = r.close]
  /\ script' = [script EXCEPT ![w[t].conn] = Tail(@)]
  /\ UNCHANGED <<lifecycle, conn, queue, held, reply>>

CloseConnection(t) ==
  /\ w[t].pc = "keepalive"
  /\ conn' = [conn EXCEPT ![w[t].conn] = "closed"]
  /\ reply' = [reply EXCEPT ![w[t].conn] = NoReply]
  /\ w' = [w EXCEPT ![t] = [NoWorker EXCEPT !.pc = "wait"]]
  /\ UNCHANGED <<lifecycle, script, queue, held>>

-----------------------------------------------------------------------------
(***************************************************************************)
(* get_range_offset_and_length, in size_t.                                 *)
(***************************************************************************)
Max2(a, b) == IF a > b THEN a ELSE b
\* Fault: the last byte of the range is not counted.
RangeWithoutLast(r) ==
  IF r[1] = -1 /\ r[2] = -1 THEN <<0, Size>>
  ELSE LET first == IF r[1] = -1 THEN Max2(0, Size - r[2]) ELSE r[1]
           last == IF r[1] = -1 \/ r[2] = -1 THEN Size - 1 ELSE r[2]
       IN <<first, (last - first) % Word>>
RangeOffsetAndLength(r) ==
  IF r[1] = -1 /\ r[2] = -1 THEN <<0, Size>>
  ELSE LET first == IF r[1] = -1 THEN Max2(0, Size - r[2]) ELSE r[1]
           last == IF r[1] = -1 \/ r[2] = -1 THEN Size - 1 ELSE r[2]
       IN <<first, (last - first + 1) % Word>>

Parts(req) == IF req.ranges = <<>> THEN << <<0, Size>> >>
              ELSE [n \in DOMAIN req.ranges |-> RangeOffsetAndLength(req.ranges[n])]

SumLengths(parts) ==
  LET sum[n \in 0..Len(parts)] == IF n = 0 THEN 0 ELSE sum[n - 1] + parts[n][2] + Overhead
  IN sum[Len(parts)] % Word

(* apply_ranges: what Content-Length says of a provider's content.         *)
\* Fault: the parts of a multipart response are counted without their headers.
LengthWithoutHeaders(req) ==
  IF Len(req.ranges) > 1 THEN (SumLengths(Parts(req)) - Overhead) % Word ELSE Parts(req)[1][2]
ContentLength(req) ==
  IF Len(req.ranges) > 1 THEN SumLengths(Parts(req)) ELSE Parts(req)[1][2]

(* The loop of write_content for a part: from offset to offset + length.   *)
Part(t, n) ==
  LET p == Parts(w[t].req)[n] IN
  [w[t] EXCEPT !.pc = "write", !.part = n, !.offset = p[1], !.end = (p[1] + p[2]) % Word]

(***************************************************************************)
(* process_request: the request line, routing to a file or a handler.      *)
(* Errors and pages are answered with a body of their length, or not; what *)
(* became of the head before it, write_response_core does not ask.         *)
(***************************************************************************)
Answered(t, ok) ==
  \E head \in 0..HeadSize :
    w' = [w EXCEPT ![t].pc = "respond", ![t].ok = ok, ![t].declared = 1,
                   ![t].written = head + (IF ok THEN 1 ELSE 0), ![t].lost = HeadSize - head]

ParseRequestLine(req) == req.kind \notin {"bad", "line"}

(* The headers behind a line that does not parse are not read: what of     *)
(* them did not come with the line is taken for the next request.          *)
Refuse(t) ==
  /\ w[t].pc = "route" /\ ~ParseRequestLine(w[t].req)
  /\ \E ok \in BOOLEAN : Answered(t, ok)
  /\ \/ UNCHANGED script
     \/ /\ w[t].req.kind = "bad"
        /\ script' = [script EXCEPT ![w[t].conn] = <<[NoRequest EXCEPT !.kind = "line"]>> \o @]
  /\ UNCHANGED <<lifecycle, conn, queue, held, reply>>

(* Content comes from a provider; without any, and for HEAD, it is not     *)
(* called.                                                                 *)
Provide(t) ==
  \E head \in 0..HeadSize :
    w' = [w EXCEPT ![t] =
      IF Size = 0 \/ @.req.method = "HEAD"
      THEN [@ EXCEPT !.pc = "respond", !.declared = 0, !.written = head, !.lost = HeadSize - head]
      ELSE [Part(t, 1) EXCEPT !.declared = ContentLength(w[t].req),
                              !.written = head, !.lost = HeadSize - head]]

HandleFileRequest(t) ==
  /\ w[t].pc = "route" /\ w[t].req.kind = "file"
  /\ Provide(t)
  /\ UNCHANGED <<lifecycle, conn, script, queue, held, reply>>

(* Any other handler, the one of /bg_install when it fails, or none.       *)
DispatchRequest(t) ==
  /\ w[t].pc = "route" /\ ParseRequestLine(w[t].req) /\ w[t].req.kind \notin {"stop", "file", "start"}
  /\ \E ok \in BOOLEAN : Answered(t, ok)
  /\ UNCHANGED <<lifecycle, conn, script, queue, held, reply>>

(* /stop: stop_server, then Server::stop.  Its assertion is compiled in:   *)
(* when another /stop took the socket and listen has not returned, the     *)
(* process aborts.  Two that pass it together both close what exchange     *)
(* gives them, the second one nothing.                                     *)
\* Fault: only the flag is set.
StopFlagOnly(t) ==
  /\ w[t].pc = "route" /\ w[t].req.kind = "stop"
  /\ stop_server' = TRUE
  /\ \E ok \in BOOLEAN : Answered(t, ok)
  /\ UNCHANGED <<main, gen, svr_sock, open, is_running, in_rest_mode, naps, conn, script, queue, held, reply>>

StopHandler(t) ==
  /\ w[t].pc = "route" /\ w[t].req.kind = "stop"
  /\ stop_server' = TRUE
  /\ IF is_running /\ svr_sock = 0
     THEN Dies
     ELSE /\ IF is_running THEN w' = [w EXCEPT ![t].pc = "stop"] ELSE \E ok \in BOOLEAN : Answered(t, ok)
          /\ UNCHANGED <<main, gen, svr_sock, open, is_running, in_rest_mode, naps,
                         conn, script, queue, held, reply>>

(* After a failed accept the number in svr_sock_ is one that was closed    *)
(* before.  If a connection or a client has it by then, that one's reads   *)
(* and writes fail, as they may at any time.                               *)
CloseListener(t) ==
  /\ w[t].pc = "stop"
  /\ svr_sock' = 0 /\ Close(svr_sock)
  /\ \E ok \in BOOLEAN : Answered(t, ok)
  /\ UNCHANGED <<main, gen, is_running, stop_server, in_rest_mode, naps, conn, script, queue, held, reply>>

(* /start_client asks the ezRemote client, another process, for its        *)
(* version.  Without an answer it has it loaded and asks again, a second   *)
(* apart; in the end it redirects to the client or says it did not start.  *)
StartClient(t) ==
  /\ w[t].pc = "route" /\ w[t].req.kind = "start"
  /\ \/ \E ok \in BOOLEAN : Answered(t, ok)
     \/ w' = [w EXCEPT ![t].pc = "poll", ![t].part = 0]
  /\ UNCHANGED <<lifecycle, conn, script, queue, held, reply>>

PollClient(t) ==
  /\ w[t].pc = "poll"
  /\ \/ \E ok \in BOOLEAN : Answered(t, ok)
     \/ w[t].part < Attempts /\ w' = [w EXCEPT ![t].part = @ + 1]
  /\ UNCHANGED <<lifecycle, conn, script, queue, held, reply>>

(* /bg_install acquires a client and leaves its release to the Response.   *)
Install(t) ==
  /\ w[t].pc = "route" /\ w[t].req.kind = "install"
  /\ held' = held \cup {t}
  /\ Provide(t)
  /\ UNCHANGED <<lifecycle, conn, script, queue, reply>>

Routing(t) == HandleFileRequest(t) \/ DispatchRequest(t) \/ StopHandler(t) \/ StartClient(t) \/ Install(t)

(***************************************************************************)
(* write_content.  Done with a part when the offset is reached or the      *)
(* server is shutting down; the provider is called for all that is left.   *)
(***************************************************************************)
(* The boundary and the headers around a part go out by strm.write, whose  *)
(* result is dropped: after a timeout some of them, or none, were sent.    *)
PartOverhead(req) == IF Len(req.ranges) > 1 THEN Overhead ELSE 0

PartDone(t) ==
  /\ w[t].pc = "write" /\ (w[t].offset >= w[t].end \/ svr_sock = 0)
  /\ \E n \in 0..PartOverhead(w[t].req) :
       LET sent == w[t].written + n
           unsent == w[t].lost + (PartOverhead(w[t].req) - n)
       IN w' = [w EXCEPT ![t] =
            IF w[t].part < Len(w[t].req.ranges)
            THEN [Part(t, w[t].part + 1) EXCEPT !.written = sent, !.lost = unsent]
            ELSE [w[t] EXCEPT !.written = sent, !.lost = unsent, !.pc = "respond", !.success = TRUE]]
  /\ UNCHANGED <<lifecycle, conn, script, queue, held, reply>>

CallProvider(t) ==
  /\ w[t].pc = "write" /\ w[t].offset < w[t].end /\ svr_sock # 0
  /\ w' = [w EXCEPT ![t].pc = "provide"]
  /\ UNCHANGED <<lifecycle, conn, script, queue, held, reply>>

(* GetRange(path, sink, length, offset): all of it, or a failure after     *)
(* some of it; a range that goes past the end of the package always fails. *)
(* The provider of a file does not look at its end: what follows it in the *)
(* last page of the mapping is sent as well, and behind that page the      *)
(* process dies.                                                           *)
ProviderReturns(t) ==
  /\ w[t].pc = "provide"
  /\ LET length == w[t].end - w[t].offset IN
     \/ /\ w[t].end <= Size \/ w[t].req.kind = "file"
        /\ w' = [w EXCEPT ![t].pc = "write", ![t].offset = @ + length, ![t].written = @ + length]
     \/ \E n \in {0, length - 1} : n < length /\
        w' = [w EXCEPT ![t].pc = "respond", ![t].ok = FALSE, ![t].written = @ + n]
  /\ UNCHANGED <<lifecycle, conn, script, queue, held, reply>>

MapFault(t) ==
  /\ w[t].pc = "provide" /\ w[t].req.kind = "file" /\ w[t].end > Size
  /\ Dies
  /\ UNCHANGED stop_server

(***************************************************************************)
(* process_request returns: the Response is destroyed and its releaser run *)
(* with what became of the provider; the loop goes on or ends.             *)
(***************************************************************************)
\* Fault: the releaser runs only after a success.
ReleaseOnSuccess(t) == w[t].success
Releases(t) == t \in held

Respond(t) ==
  /\ w[t].pc = "respond"
  /\ LET c == w[t].conn
         done == ~w[t].ok \/ w[t].last IN
     /\ reply' = [reply EXCEPT ![c] = [declared |-> w[t].declared, written |-> w[t].written,
                                             lost |-> w[t].lost, req |-> w[t].req]]
     /\ held' = IF Releases(t) THEN held \ {t} ELSE held
     /\ w' = [w EXCEPT ![t] = [NoWorker EXCEPT !.pc = "keepalive", !.conn = c,
                                 !.count = IF done THEN 0 ELSE w[t].count - 1]]
  /\ UNCHANGED <<lifecycle, conn, script, queue>>

-----------------------------------------------------------------------------
Worker(t) ==
  \/ TakeJob(t) \/ NextRequest(t) \/ CloseConnection(t) \/ Refuse(t) \/ Routing(t)
  \/ CloseListener(t) \/ PollClient(t) \/ PartDone(t) \/ CallProvider(t) \/ Respond(t)

Main == StartLoop \/ Listen \/ AcceptFails \/ Join \/ AfterListen

Next ==
  \/ Main \/ SetRestMode
  \/ \E c \in Conns : Accept(c)
  \/ \E t \in Workers : Worker(t) \/ ProviderReturns(t) \/ MapFault(t)

(* Where a worker calls a remote client, which may never return: to        *)
(* acquire one (Connect, and the Quit of an expired one), for a GetRange,  *)
(* and to release one (Quit).  The FTP client reads without a timeout.     *)
InClientCall(t) ==
  \/ w[t].pc = "route" /\ w[t].req.kind = "install"
  \/ w[t].pc = "provide"
  \/ w[t].pc = "respond" /\ t \in held

(* Threads run, and a listening socket need not fail unless it was closed. *)
Stopped == svr_sock = 0
Fairness ==
  /\ WF_vars(StartLoop \/ Listen \/ Join \/ AfterListen)
  /\ WF_vars(Stopped /\ AcceptFails)
  /\ \A t \in Workers : WF_vars(~InClientCall(t) /\ Worker(t))
Spec == Init /\ [][Next]_vars /\ Fairness

-----------------------------------------------------------------------------
Serving(t) == w[t].pc \in {"write", "provide", "respond"}

(***************************************************************************)
(* The client of a /bg_install request is released, once, however the      *)
(* request ends: HEAD, an empty package, a failed or refused transfer, a   *)
(* shutdown in the middle (httplib.h:619-623, http_server.cpp:564-579).    *)
(***************************************************************************)
ClientNotStranded == \A t \in held : Serving(t) /\ w[t].req.kind = "install"

(* A range of which some byte exists, and that ends with the content.      *)
InContent(r) == (r[1] = -1 /\ r[2] # 0) \/ (r[1] \in 0..(Size - 1) /\ r[2] < Size)
WellAsked(req) == \A n \in DOMAIN req.ranges : InContent(req.ranges[n])

(***************************************************************************)
(* On a connection that is kept for another request, the response before   *)
(* had exactly the length it declared, for single and multipart ranges, so *)
(* that peer and server agree where the next one begins: what is cut short *)
(* by a failure or a shutdown ends the connection (httplib.cpp:3757-3805,  *)
(* 4165-4200, 728-744).  What may be missing, unnoticed, is only what was  *)
(* lost of the head and of the boundaries between parts, whose writes are  *)
(* not looked at (httplib.cpp:3731, 2567-2568).                            *)
(***************************************************************************)
KeptAliveIsFramed ==
  \A t \in Workers : w[t].pc = "route" =>
    LET r == reply[w[t].conn] IN
    r # NoReply /\ r.req.method = "GET" /\ WellAsked(r.req) =>
      (r.written + r.lost) % Word = (HeadSize + r.declared) % Word

(***************************************************************************)
(* The provider is asked for the bytes the request asked for: those from   *)
(* first to last, the last n for a suffix, or all of them                  *)
(* (httplib.cpp:2448-2477).                                                *)
(***************************************************************************)
Bytes(r) == {b \in 0..(Size - 1) :
              CASE r[1] # -1 /\ r[2] # -1 -> r[1] <= b /\ b <= r[2]
                [] r[1] # -1 /\ r[2] = -1 -> r[1] <= b
                [] r[1] = -1 /\ r[2] # -1 -> b >= Size - r[2]
                [] OTHER -> TRUE}
AsksForTheRange ==
  \A t \in Workers : w[t].pc = "provide" /\ WellAsked(w[t].req) =>
    w[t].offset..(w[t].end - 1) =
      IF w[t].req.ranges = <<>> THEN 0..(Size - 1) ELSE Bytes(w[t].req.ranges[w[t].part])

(***************************************************************************)
(* When listen has returned, the server object may be deleted: its workers *)
(* have ended, every connection it accepted is closed, no client is held   *)
(* and no listening socket left open, also when connections were still     *)
(* queued (httplib.h:689-726, httplib.cpp:4066-4073, http_server.cpp:998). *)
(***************************************************************************)
ListenLeavesNothing ==
  main \in {"head", "bind", "after", "done"} =>
    /\ \A t \in Workers : w[t].pc = "none"
    /\ \A c \in Conns : conn[c] \in {"new", "closed"}
    /\ held = {} /\ open = {}

(***************************************************************************)
(* Unless a call of a remote client never returns, /stop ends the server:  *)
(* kept and queued connections and a /start_client that waits for its      *)
(* client do not hold it up for ever (http_server.cpp:685-699, 918-922,    *)
(* 989-1008).  Where a second /stop runs into the assertion of             *)
(* Server::stop, the end is the abort of the process (httplib.cpp:3596).   *)
(***************************************************************************)
ClientCallsReturn == \A t \in Workers : []<>~InClientCall(t)
StopEnds == ClientCallsReturn => (stop_server ~> main \in {"done", "aborted"})
=============================================================================
