------------------------------ MODULE ClientPool ------------------------------
(***************************************************************************)
(* The pool of remote clients of server/http_server.cpp (lines 130-344).   *)
(*                                                                         *)
(* Request handlers of /bg_install and the download thread acquire a       *)
(* client for a host, use it without any lock, and release it.  An idle    *)
(* client waits in a LIFO list under the key of its host.  The three maps  *)
(* of the pool are guarded by client_pool_mutex; connecting, transferring  *)
(* and destroying a client happen outside it.  A step below is one         *)
(* critical section or one of those unlocked pieces.                       *)
(*                                                                         *)
(* A client is named by its heap address, and delete makes an address      *)
(* available to a later new: an entry left behind in a map keyed by        *)
(* pointers would be found by the next client at that address.             *)
(***************************************************************************)
EXTENDS Integers, Sequences

CONSTANTS
  Handlers,              (* worker threads running a /bg_install request    *)
  Downloader,            (* the thread running DownloadFilesThread          *)
  Main,                  (* the main thread                                 *)
  Addrs,                 (* heap addresses a client can be allocated at     *)
  Logins,                (* url, user name and password of a host           *)
  Hosts,                 (* the HostInfo records requests carry             *)
  CLIENT_POOL_MAX_IDLE,  (* idle clients kept per key                       *)
  SessionTimeout,        (* RemoteClient::GetMaxIdleTimeout                 *)
  HttpTimeout,           (* BaseClient::GetMaxIdleTimeout                   *)
  MaxTime,               (* bound on the clock                              *)
  NoClient,              (* nullptr                                         *)
  NoHost, NoKey, Freed   (* no request; not in client_pool_key; not a client*)

ClientTypes == {"FTP", "SFTP", "SMB", "WEBDAV", "HTTP_SERVER", "NFS", "FILEHOST", "UNKNOWN"}
ServerTypes == {"", "ArchiveOrg", "Github"}
HostInfo == [type : ClientTypes, login : Logins, http_server_type : ServerTypes]

Threads == Handlers \cup {Downloader}
Procs == Threads \cup {Main}

ASSUME PoolSizes ==
  /\ CLIENT_POOL_MAX_IDLE \in Nat
  /\ SessionTimeout \in Nat /\ HttpTimeout \in Nat /\ MaxTime \in Nat

-----------------------------------------------------------------------------
(* A host's key leaves out http_server_type.                               *)
ClientPoolKey(h) == <<h.type, h.login>>
Keys == {ClientPoolKey(h) : h \in Hosts}

ASSUME KeyNames == NoKey \notin Keys

(* The class CreatePooledClient instantiates; "none" for an unknown type.  *)
ClientClass(h) ==
  CASE h.type = "SMB"         -> "SmbClient"
    [] h.type = "SFTP"        -> "SFTPClient"
    [] h.type = "NFS"         -> "NfsClient"
    [] h.type = "FTP"         -> "FtpClient"
    [] h.type = "WEBDAV"      -> "WebDAVClient"
    [] h.type = "HTTP_SERVER" ->
         IF h.http_server_type = "ArchiveOrg" THEN "ArchiveOrgClient" ELSE "BaseClient"
    [] h.type = "FILEHOST"    -> "BaseClient"
    [] OTHER                  -> "none"

HttpClasses == {"BaseClient", "ArchiveOrgClient", "WebDAVClient"}
Classes == HttpClasses \cup {"SmbClient", "SFTPClient", "NfsClient", "FtpClient"}

(* A client object.  failed records that its last operation failed; the    *)
(* code has no such field, it is what "success" reports at the release.    *)
Client == [class : Classes, login : Logins, url_encode : BOOLEAN,
           connected : BOOLEAN, xfercb : BOOLEAN, failed : BOOLEAN]

ASSUME PoolNames ==
  /\ Hosts \subseteq HostInfo
  /\ Main \notin Threads /\ Downloader \notin Handlers
  /\ NoClient \notin Addrs /\ NoHost \notin Hosts /\ Freed \notin Client

GetMaxIdleTimeout(c) == IF c.class \in HttpClasses THEN HttpTimeout ELSE SessionTimeout

NoTime == -1

-----------------------------------------------------------------------------
VARIABLES
  heap,     (* address -> client object, or Freed                            *)
  idle,     (* client_pool_idle: key -> LIFO list of addresses               *)
  key,      (* client_pool_key: address -> key, or NoKey                     *)
  since,    (* client_pool_idle_since: address -> time, or NoTime            *)
  now,      (* time(NULL)                                                    *)
  pc,       (* where a thread is                                             *)
  host,     (* host_info of the thread's current request                     *)
  client,   (* tmp_client                                                    *)
  success,  (* the argument of the thread's ReleaseRemoteClient              *)
  doomed,   (* clients a process has taken out of the pool and must destroy  *)
  main,     (* where the main thread is                                      *)
  orphans   (* history: the clients that were checked out at the clear       *)

pool == <<idle, key, since>>
vars == <<heap, idle, key, since, now, pc, host, client, success, doomed, main, orphans>>

IdleClients == UNION {{idle[k][i] : i \in DOMAIN idle[k]} : k \in Keys}
Held(p) == doomed[p] \cup ({client[p]} \ {NoClient})
Allocated == {a \in Addrs : heap[a] # Freed}

Init ==
  /\ heap = [a \in Addrs |-> Freed]
  /\ idle = [k \in Keys |-> <<>>]
  /\ key = [a \in Addrs |-> NoKey]
  /\ since = [a \in Addrs |-> NoTime]
  /\ now = 0
  /\ pc = [t \in Threads |-> "ready"]
  /\ host = [t \in Threads |-> NoHost]
  /\ client = [p \in Procs |-> NoClient]
  /\ success = [t \in Threads |-> FALSE]
  /\ doomed = [p \in Procs |-> {}]
  /\ main = "serving"
  /\ orphans = {}

TooOld(a) == since[a] # NoTime /\ now - since[a] > GetMaxIdleTimeout(heap[a])

(* A thread runs while the process lives, one statement after the other:   *)
(* it destroys what it has to destroy before it goes on.                   *)
At(t, label) == main # "exited" /\ pc[t] = label /\ doomed[t] = {}

-----------------------------------------------------------------------------
(***************************************************************************)
(* AcquireRemoteClient, its first critical section.  Candidates are popped *)
(* from the back until one is not too old; the popped old ones leave the   *)
(* pool.  Both callers pass reusable = true.  Handlers only run while the  *)
(* server is listening.                                                    *)
(***************************************************************************)
(* The last of the idle clients of k that is not too old, 0 if none.       *)
IsLastFresh(k, last) ==
  /\ last > 0 => ~TooOld(idle[k][last])
  /\ \A i \in (last + 1)..Len(idle[k]) : TooOld(idle[k][i])

OldClients(k, last) == {idle[k][i] : i \in (last + 1)..Len(idle[k])}
FreshClient(k, last) == IF last = 0 THEN NoClient ELSE idle[k][last]

\* Fault: the client handed out stays in the idle list.
PopOldOnly(k, last) == SubSeq(idle[k], 1, last)
PopCandidates(k, last) == SubSeq(idle[k], 1, last - 1)

\* Fault: a client that leaves the pool stays in client_pool_key.
KeepKeys(gone) == key
EraseKeys(gone) == [a \in Addrs |-> IF a \in gone THEN NoKey ELSE key[a]]

AcquireRemoteClient(t, h) ==
  LET k == ClientPoolKey(h) IN
  /\ At(t, "ready")
  /\ t \in Handlers => main = "serving"
  /\ \E last \in 0..Len(idle[k]) :
       /\ IsLastFresh(k, last)
       /\ idle' = [idle EXCEPT ![k] = PopCandidates(k, last)]
       /\ since' = [a \in Addrs |->
             IF a \in OldClients(k, last) \cup {FreshClient(k, last)} THEN NoTime ELSE since[a]]
       /\ key' = EraseKeys(OldClients(k, last))
       /\ client' = [client EXCEPT ![t] = FreshClient(k, last)]
       /\ doomed' = [doomed EXCEPT ![t] = OldClients(k, last)]
  /\ host' = [host EXCEPT ![t] = h]
  /\ pc' = [pc EXCEPT ![t] = "acquired"]
  /\ UNCHANGED <<heap, now, success, main, orphans>>

(* Quit and delete, outside the lock: expired, refused or cleared clients. *)
DestroyPooledClient(p) ==
  /\ main # "exited"
  /\ p \in Threads => pc[p] # "cancelled"
  /\ \E a \in doomed[p] :
       /\ heap' = [heap EXCEPT ![a] = Freed]
       /\ doomed' = [doomed EXCEPT ![p] = @ \ {a}]
       /\ orphans' = orphans \ {a}
  /\ UNCHANGED <<pool, now, pc, host, client, success, main>>

(***************************************************************************)
(* CreatePooledClient, when no idle client was found.  The result of       *)
(* Connect is ignored, so the new client may not be connected.  An HTTP    *)
(* client only prepares its handle and counts as connected, unless it has  *)
(* to log in over the network, as the one of archive.org for a user.       *)
(***************************************************************************)
NewClient(t, a, connected) ==
  LET h == host[t] IN
  /\ ClientClass(h) \in HttpClasses \ {"ArchiveOrgClient"} => connected
  /\ heap' = [heap EXCEPT ![a] =
                [class      |-> ClientClass(h),
                 login      |-> h.login,
                 url_encode |-> ~(h.type = "HTTP_SERVER" /\ h.http_server_type = "Github"),
                 connected  |-> connected,
                 xfercb     |-> FALSE,
                 failed     |-> FALSE]]
  /\ client' = [client EXCEPT ![t] = a]
  /\ pc' = [pc EXCEPT ![t] = "created"]
  /\ UNCHANGED host

(* An unknown type gives nullptr, and the caller gives up the request.     *)
NoSuchClient(t) ==
  /\ pc' = [pc EXCEPT ![t] = "ready"]
  /\ host' = [host EXCEPT ![t] = NoHost]
  /\ UNCHANGED <<heap, client>>

CreatePooledClient(t) ==
  /\ At(t, "acquired")
  /\ client[t] = NoClient
  /\ IF ClientClass(host[t]) = "none"
     THEN NoSuchClient(t)
     ELSE \E a \in Addrs \ Allocated, connected \in BOOLEAN : NewClient(t, a, connected)
  /\ UNCHANGED <<pool, now, success, doomed, main, orphans>>

(* AcquireRemoteClient, its second critical section.                       *)
RegisterClient(t) ==
  /\ At(t, "created")
  /\ key' = [key EXCEPT ![client[t]] = ClientPoolKey(host[t])]
  /\ pc' = [pc EXCEPT ![t] = "acquired"]
  /\ UNCHANGED <<heap, idle, since, now, host, client, success, doomed, main, orphans>>

(***************************************************************************)
(* The use of the client, without any lock.  The download thread casts the *)
(* client of an FTP host to FtpClient and installs its transfer callback.  *)
(* A handler hands the client to the content provider of its response.     *)
(***************************************************************************)
StartTransfer(t) ==
  /\ At(t, "acquired")
  /\ client[t] # NoClient
  /\ heap' = IF t = Downloader /\ host[t].type = "FTP"
             THEN [heap EXCEPT ![client[t]].xfercb = TRUE]
             ELSE heap
  /\ pc' = [pc EXCEPT ![t] = "transfer"]
  /\ UNCHANGED <<pool, now, host, client, success, doomed, main, orphans>>

(* Get or the GetRange calls end; an aborted response counts as a failure. *)
FinishTransfer(t) ==
  /\ At(t, "transfer")
  /\ \E ok \in BOOLEAN :
       /\ heap' = [heap EXCEPT ![client[t]].failed = ~ok]
       /\ success' = [success EXCEPT ![t] = ok]
  /\ pc' = [pc EXCEPT ![t] = "release"]
  /\ UNCHANGED <<pool, now, host, client, doomed, main, orphans>>

(***************************************************************************)
(* ReleaseRemoteClient: back to the pool, or out of it and to be destroyed.*)
(***************************************************************************)
\* Fault: the outcome of the last transfer is not looked at.
PoolableWhateverHappened(t) ==
  /\ key[client[t]] # NoKey
  /\ heap[client[t]].connected
  /\ Len(idle[key[client[t]]]) < CLIENT_POOL_MAX_IDLE

Poolable(t) ==
  /\ key[client[t]] # NoKey
  /\ success[t]
  /\ heap[client[t]].connected
  /\ Len(idle[key[client[t]]]) < CLIENT_POOL_MAX_IDLE

\* Fault: the client goes back to the pool with its callback installed.
ReturnWithCallback(t) ==
  LET a == client[t] IN
  /\ heap' = heap
  /\ idle' = [idle EXCEPT ![key[a]] = Append(@, a)]
  /\ since' = [since EXCEPT ![a] = now]
  /\ UNCHANGED <<key, doomed>>

ReturnToPool(t) ==
  LET a == client[t] IN
  /\ heap' = [heap EXCEPT ![a].xfercb = FALSE]
  /\ idle' = [idle EXCEPT ![key[a]] = Append(@, a)]
  /\ since' = [since EXCEPT ![a] = now]
  /\ UNCHANGED <<key, doomed>>

\* Fault: a client the pool refuses is forgotten instead of destroyed.
ForgetClient(t) ==
  /\ key' = [key EXCEPT ![client[t]] = NoKey]
  /\ UNCHANGED <<heap, idle, since, doomed>>

DropFromPool(t) ==
  /\ key' = [key EXCEPT ![client[t]] = NoKey]
  /\ doomed' = [doomed EXCEPT ![t] = {client[t]}]
  /\ UNCHANGED <<heap, idle, since>>

\* Fault: a release waits for room in the idle list.
BlockingRelease(t) ==
  /\ At(t, "release")
  /\ key[client[t]] # NoKey /\ success[t] => Len(idle[key[client[t]]]) < CLIENT_POOL_MAX_IDLE
  /\ IF Poolable(t) THEN ReturnToPool(t) ELSE DropFromPool(t)
  /\ client' = [client EXCEPT ![t] = NoClient]
  /\ host' = [host EXCEPT ![t] = NoHost]
  /\ success' = [success EXCEPT ![t] = FALSE]
  /\ pc' = [pc EXCEPT ![t] = "ready"]
  /\ UNCHANGED <<now, main, orphans>>

ReleaseRemoteClient(t) ==
  /\ At(t, "release")
  /\ IF Poolable(t) THEN ReturnToPool(t) ELSE DropFromPool(t)
  /\ client' = [client EXCEPT ![t] = NoClient]
  /\ host' = [host EXCEPT ![t] = NoHost]
  /\ success' = [success EXCEPT ![t] = FALSE]
  /\ pc' = [pc EXCEPT ![t] = "ready"]
  /\ UNCHANGED <<now, main, orphans>>

-----------------------------------------------------------------------------
(***************************************************************************)
(* The end of main.  Start has returned, so the server's task queue has    *)
(* joined every handler.  The download thread is told to stop and          *)
(* cancelled, but nobody waits for it: it goes on, possibly into further   *)
(* rows, until the cancellation takes effect, and a client it holds then   *)
(* is never released.                                                      *)
(***************************************************************************)
StopDownloadThread ==
  /\ main = "serving"
  /\ \A t \in Handlers : pc[t] = "ready" /\ doomed[t] = {}
  /\ main' = "stopped"
  /\ UNCHANGED <<heap, pool, now, pc, host, client, success, doomed, orphans>>

CancelDownloadThread ==
  /\ main \in {"stopped", "clearing"}
  /\ pc[Downloader] # "cancelled"
  /\ pc' = [pc EXCEPT ![Downloader] = "cancelled"]
  /\ UNCHANGED <<heap, pool, now, host, client, success, doomed, main, orphans>>

\* Fault: the keys of clients that are checked out survive the clear.
ClearIdleOnly ==
  /\ main = "stopped"
  /\ doomed' = [doomed EXCEPT ![Main] = IdleClients]
  /\ idle' = [k \in Keys |-> <<>>]
  /\ key' = [a \in Addrs |-> IF a \in IdleClients THEN NoKey ELSE key[a]]
  /\ since' = [a \in Addrs |-> NoTime]
  /\ orphans' = {a \in Addrs : key[a] # NoKey /\ a \notin IdleClients}
  /\ main' = "clearing"
  /\ UNCHANGED <<heap, now, pc, host, client, success>>

\* Fault: the download thread is joined, though its transfer may block.
ClearAfterJoin ==
  /\ main = "stopped"
  /\ pc[Downloader] = "cancelled"
  /\ doomed' = [doomed EXCEPT ![Main] = IdleClients]
  /\ idle' = [k \in Keys |-> <<>>]
  /\ key' = [a \in Addrs |-> NoKey]
  /\ since' = [a \in Addrs |-> NoTime]
  /\ main' = "clearing"
  /\ UNCHANGED <<heap, now, pc, host, client, success, orphans>>

ClearClientPool ==
  /\ main = "stopped"
  /\ doomed' = [doomed EXCEPT ![Main] = IdleClients]
  /\ idle' = [k \in Keys |-> <<>>]
  /\ key' = [a \in Addrs |-> NoKey]
  /\ since' = [a \in Addrs |-> NoTime]
  /\ orphans' = {a \in Addrs : key[a] # NoKey /\ a \notin IdleClients}
  /\ main' = "clearing"
  /\ UNCHANGED <<heap, now, pc, host, client, success>>

(* _exit(0) once the cleared clients are destroyed.                        *)
Exit ==
  /\ main = "clearing" /\ doomed[Main] = {}
  /\ main' = "exited"
  /\ UNCHANGED <<heap, pool, now, pc, host, client, success, doomed, orphans>>

Tick ==
  /\ main # "exited" /\ now < MaxTime
  /\ now' = now + 1
  /\ UNCHANGED <<heap, pool, pc, host, client, success, doomed, main, orphans>>

Exited == main = "exited" /\ UNCHANGED vars

ThreadStep(t) ==
  \/ CreatePooledClient(t)
  \/ RegisterClient(t)
  \/ StartTransfer(t)
  \/ ReleaseRemoteClient(t)
  \/ DestroyPooledClient(t)

MainStep == ClearClientPool \/ DestroyPooledClient(Main) \/ Exit

Next ==
  \/ \E t \in Threads, h \in Hosts : AcquireRemoteClient(t, h)
  \/ \E t \in Threads : ThreadStep(t) \/ FinishTransfer(t)
  \/ MainStep
  \/ StopDownloadThread
  \/ CancelDownloadThread
  \/ Tick
  \/ Exited

(***************************************************************************)
(* A thread runs on unless it waits for a server.  A transfer may take     *)
(* forever, and so may the Connect and the Quit of a session: FTP reads    *)
(* the reply to QUIT without a timeout.  An HTTP client is created and     *)
(* destroyed locally, or within the timeout of httplib.                    *)
(***************************************************************************)
AwaitsServer(p) ==
  \/ \E a \in doomed[p] : heap[a].class \notin HttpClasses
  \/ /\ p \in Threads /\ pc[p] = "acquired" /\ client[p] = NoClient
     /\ ClientClass(host[p]) \in Classes \ HttpClasses

Fairness ==
  /\ WF_vars(~AwaitsServer(Main) /\ MainStep)
  /\ \A t \in Threads : WF_vars(~AwaitsServer(t) /\ ThreadStep(t))

Spec == Init /\ [][Next]_vars /\ Fairness

-----------------------------------------------------------------------------
(* The types of the pool's three maps, the threads and the clients on the  *)
(* heap (http_server.cpp:130-135).                                         *)
TypeOK ==
  /\ heap \in [Addrs -> Client \cup {Freed}]
  /\ idle \in [Keys -> Seq(Addrs)]
  /\ key \in [Addrs -> Keys \cup {NoKey}]
  /\ since \in [Addrs -> 0..MaxTime \cup {NoTime}]
  /\ now \in 0..MaxTime
  /\ pc \in [Threads -> {"ready", "acquired", "created", "transfer", "release", "cancelled"}]
  /\ host \in [Threads -> Hosts \cup {NoHost}]
  /\ client \in [Procs -> Addrs \cup {NoClient}]
  /\ success \in [Threads -> BOOLEAN]
  /\ doomed \in [Procs -> SUBSET Addrs]
  /\ main \in {"serving", "stopped", "clearing", "exited"}
  /\ orphans \subseteq Addrs

(***************************************************************************)
(* "The pool hands a client out exclusively" (http_server.cpp:386): a      *)
(* client is in one place, an idle list or one process, and there once.    *)
(***************************************************************************)
ExclusiveHandOut ==
  /\ \A p, q \in Procs : p # q => Held(p) \cap Held(q) = {}
  /\ \A p \in Procs : client[p] \notin doomed[p]
  /\ \A p \in Procs : Held(p) \cap IdleClients = {}
  /\ \A k, l \in Keys : \A i \in DOMAIN idle[k], j \in DOMAIN idle[l] :
       idle[k][i] = idle[l][j] => k = l /\ i = j

(***************************************************************************)
(* Nothing the pool or a thread can still reach has been deleted, and every*)
(* client that has not been deleted can still be reached by somebody who   *)
(* will destroy or pool it: no use after free, no second delete, no leak.  *)
(***************************************************************************)
LiveIffReachable ==
  \A a \in Addrs :
    heap[a] # Freed <=> a \in IdleClients \/ \E p \in Procs : a \in Held(p)

(***************************************************************************)
(* The three maps of the pool agree (lines 132-135): a timestamp exactly   *)
(* for the idle clients, an idle client under its own key, and no key for  *)
(* an address that holds no client, which a later client at that address   *)
(* would otherwise inherit.                                                *)
(***************************************************************************)
MapsAgree ==
  /\ \A a \in Addrs : since[a] # NoTime <=> a \in IdleClients
  /\ \A k \in Keys : \A i \in DOMAIN idle[k] : key[idle[k][i]] = k
  /\ \A a \in Addrs : key[a] # NoKey =>
       a \in IdleClients \cup {client[t] : t \in Threads}

(***************************************************************************)
(* What a request is handed fits it, from the pool or new.  "a client that *)
(* failed is never handed out again" (line 334), nor does one that failed  *)
(* or is not connected wait in the pool; a request is served by a          *)
(* connection to its own server, of a class with the type its host asks    *)
(* for: the casts of lines 193 and 399 are safe.  The http_server_type,    *)
(* which the key leaves out, may be that of another request.               *)
(***************************************************************************)
HandedOutFits ==
  /\ \A a \in IdleClients : heap[a].connected /\ ~heap[a].failed
  /\ \A t \in Threads : client[t] # NoClient /\ pc[t] # "cancelled" =>
       /\ pc[t] = "acquired" => ~heap[client[t]].failed
       /\ heap[client[t]].login = host[t].login
       /\ host[t].type = "FTP" <=> heap[client[t]].class = "FtpClient"
       /\ host[t].type \in {"HTTP_SERVER", "FILEHOST"} =>
            heap[client[t]].class \in {"BaseClient", "ArchiveOrgClient"}

(***************************************************************************)
(* The download thread's callback, which writes through                    *)
(* g_bytes_transfered, is never installed on an idle client or on one a    *)
(* request handler transfers with (ftpclient.cpp:1391).                    *)
(***************************************************************************)
CallbackNotInherited ==
  /\ \A a \in IdleClients : ~heap[a].xfercb
  /\ \A t \in Handlers : client[t] # NoClient => ~heap[client[t]].xfercb

(***************************************************************************)
(* "Clients still checked out are not destroyed here.  Their key is        *)
(* dropped, so they get destroyed when they are released" (line 320): a    *)
(* client that was checked out at the clear never becomes idle again.      *)
(***************************************************************************)
OrphansNeverPooled == orphans \cap IdleClients = {}

(***************************************************************************)
(* A handler is never stuck in the pool's own code, whatever the other     *)
(* threads wait for: after an acquire or a release has begun it gets to    *)
(* its transfer, or finishes the request with nothing left to destroy, or  *)
(* itself waits for the server of a session (lines 256, 277-297).          *)
(***************************************************************************)
InPool(t) == pc[t] \in {"acquired", "created", "release"} \/ doomed[t] # {}
PoolNeverBlocks == \A t \in Handlers : InPool(t) ~> ~InPool(t) \/ AwaitsServer(t)

(***************************************************************************)
(* Once the server has stopped the process exits, whatever the download    *)
(* thread is doing: main waits for no transfer, only for the replies to    *)
(* its own Quit of idle sessions (main.cpp:79-88).                         *)
(***************************************************************************)
ShutdownCompletes == main = "stopped" ~> main = "exited" \/ AwaitsServer(Main)
=============================================================================
