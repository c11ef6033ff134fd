# ezRemote Server in TLA+

ezRemote Server runs on a console. Over HTTP it serves packages for background
installation straight from a remote server, and it downloads files in the
background. This project models its client pool, its downloads, its server
and its protocol clients, where several threads, a network that fails and a
process that dies meet the same state. TLC checks them on small instances, and
TLAPS proves most of the safety properties for every size. Paths below are
relative to `source/` of the repository.

## Inventory

| component | state | operations | correct when | module |
|---|---|---|---|---|
| client pool (`server/http_server.cpp:130-344`) | three maps under `client_pool_mutex`: idle lists per key, key per client, idle time per client; the clients on the heap | acquire, create, register, release, destroy, clear | a client has one owner, is freed exactly when nobody reaches it, is handed out only if healthy and of the right server; shutdown is never held up | `ClientPool` |
| background downloads (`http_server.cpp:346-504, 583-663`, `config.cpp:195-298`) | `bg_download_list`, `g_bytes_transfered`, `g_dl_offset`, the `.tmp` and final files, the history file | `/download_url`, `/clear_download_history`, `/get_download_state`, the download thread, load and save | an acknowledged download is kept; a success has its file; a resumption continues where the last attempt ended; failing downloads are given up | `BgDownload` |
| rest mode (`main.cpp:22-58`, `http_server.cpp:964-977`) | two flags `in_rest_mode`, a condition variable | pause, resume | downloads and server stop and go on again, no wakeup is lost | `BgDownload`, `HttpServer` |
| server lifecycle (`http_server.cpp:979-1015`, `main.cpp:60-89`) | `svr`, `stop_server`, the listening socket, httplib's task queue | the loop of `Start`, `listen`, `/stop` | restarts after rest mode, stops, leaves no socket, thread or client behind | `HttpServer` |
| `/bg_install` (`http_server.cpp:545-581`) | the client captured by the content provider | provider calls, releaser | the client is released once, the response is the range asked for | `HttpServer` |
| `/start_client` (`http_server.cpp:666-720`) | none of its own | probe, kick, poll | does not occupy its worker for ever | `HttpServer` |
| package install store (`config.cpp:81-193`) | `pkg_install_history` under `pkg_mutex_`, its file | add, get, load, save | what is stored is found, also after a restart, until the retention ends | `InstallStore` |
| FTP client (`clients/ftpclient.cpp`) | control and data handle, offset, response | connect, login, commands, PASV, REST, transfer, close, ranges, quit | control and data connection stay in step | `FtpClient` |
| SFTP, SMB, NFS clients | session, `connected` | connect, get, range, quit | success is the whole length, nothing is left open | `FileClients` |
| HTTP clients (base, WebDAV, archive.org) over httplib's client | httplib handle, its socket, cookies | connect, login, get, range, quit | each request reads its own answer, once | `HttpClient` |
| client interface (`clients/remote_client.h`) | | | what pool, downloads and provider rely on | `RemoteClient` |
| httplib's request, header, multipart and chunk readers; urls, paths, ranges, cookies | the parser's buffer | parse, encode, decode | what is read is what was written | `Formats`, `Text` |
| ini file (`inifile.c`), password encoding (`base64.h`, `crypt.c`, `config.cpp:20-72`) | none that outlives a call | read; encode, decode, encrypt, decrypt | the value is found, decode inverts encode | `Text`, `InstallStore` |
| file system helpers, utilities | | as used by the components above | | |
| debug logger, icon, console headers | | | logging that is commented out, data, declarations | not modelled |

How they interact. httplib runs every connection on a worker of its thread pool,
and the handlers with it. Handlers and the download thread share the client
pool (one mutex) and the download list (a mutex for append and save only; the
thread reads, writes and erases without it). A client of the pool is one of the
protocol clients; pool, downloads and content provider know it only as a
`RemoteClient`. The system event thread sets the rest mode flags the download
thread and the loop of `Start` read. `main` serves until `/stop`, then cancels the
download thread without joining it, clears the pool and calls `_exit`. Two JSON
files carry the download list and the install store from one process to the
next.

What is hard. Clients travel between threads outside the lock, and the pool's
maps are keyed by their addresses, which are reused. The download thread uses a
row by index for as long as a transfer takes. A row's state, its temporary
file, its final file and the history file change one after the other, and the
process can die between any two. `/stop` closes the listening socket under
`accept`, with workers that are in a transfer, keep a connection or have not
begun one. An FTP client reads the next reply on the connection whatever
command it answers; an HTTP client keeps a connection on which an earlier body
may not have been read to its end. Bodies arrive in any pieces and may end at
any byte. `hazards` in `PROJECT.json` lists each of these at its line, with the
properties that watch it.

## Modules

Each module's variables are named after the fields they stand for, and each action
after the function. An operator introduced by a `Fault:` comment is a faulty variant
of the definition after it; substituted for that definition it must break the
property paired with it in `PROJECT.json`, which shows that the property can fail.
`MC*` modules give the constants for TLC, `*Proofs` modules hold the theorems.

### ClientPool and BgDownload

`ClientPool` models the pool, its callers as far as they touch it, and the end of
`main`. Its variables are the maps (`idle`, `key`, `since`), the heap (`heap`,
address to object or `Freed`), the clock, and for each thread where it is,
its request, its client and the clients it still has to destroy (`doomed`).

| action | code |
|---|---|
| `AcquireRemoteClient` | first critical section, 220-247: pop until one is not too old |
| `DestroyPooledClient` | `Quit` and `delete`, outside the lock: 249-252, 299-302, 327-330 |
| `CreatePooledClient` | 254-261 and 143-198; a failed `Connect`, or an archive.org login that fails, still yields a client; an unknown type yields none |
| `RegisterClient` | second critical section, 263-267 |
| `StartTransfer`, `FinishTransfer` | the use: callback installation (395-403), `Get` or the content provider; any outcome |
| `ReleaseRemoteClient` | 273-303, pooled or dropped |
| `StopDownloadThread`, `CancelDownloadThread`, `ClearClientPool`, `Exit` | `main.cpp:78-88`, `http_server.cpp:1022-1026, 305-331` |
| `Tick` | time passes |

The steps are the critical sections and the unlocked pieces between them, so
every interleaving the mutex allows is explored. An address is free for a new
client as soon as it has been deleted. `pthread_cancel` acts only at a
cancellation point; the model lets the download thread go on for any number of
steps and then vanish with whatever client it holds. The branch
`reusable = false` has no caller and is left out. `failed` is a ghost field: what
the last operation did, next to what the release was told.

`BgDownload` models the list and everything that changes it. A row keeps its job,
state, attempts, progress and clear flag. Files are sequences of blocks of their
source, so that "the whole file" and "a prefix" mean what they say; the
block `<<j, 0>>` stands for whatever else an HTTP server may send.
The four kinds of client differ where their `Get` differs: FTP and HTTP
open the local file before they talk to the server and the others after; FTP
reports progress through the callback and `g_dl_offset`; HTTP takes any answer. FTP takes a
broken data connection for the end of the file (`DataEnded`), and so does HTTP for a body
without a length: their `Get` may return 1 with the tail missing.

| action | code |
|---|---|
| `AddBgDownloadData`, `SaveAndAnswer` | `/download_url`, 583-615: append, then save, then answer |
| `ClearDownloadHistory` | 644-663: flag only |
| `PauseDownloadThread`, `ResumeDownloadThread` | 964-977 |
| `WaitWhilePaused`, `EraseCleared`, `SaveAfterErase` | top of a pass, 352-380 |
| `PassOver`, `EndOfPass` | the loop, 382, 390, 441, 500 |
| `StartDownload`, `SaveAfterStart` | 384-406 |
| `ResumeDownload` | 434-470 |
| `GetStarts`, `GetRefused`, `ReceiveBlock`, `ConnectionLost` | `Get` of the clients |
| `GetCompletes`, `SaveAfterSuccess` | 424-432, 488-496; `DataEnded`: `ftpclient.cpp:914-927` |
| `GetFailed`, `SaveAfterFailure` | 413-423, 472-487 |
| `CrashAndRestart` | death at any point (a crash, or `/stop` and `_exit`) and the next start; a save it interrupts leaves a truncated file |
| `Age` | a row gets older than the retention |

`Lists.Selected` is what the loops that erase or skip rows leave of a list.

Abstractions of `BgDownload`: `push_back` and `erase` are one step each although
they race in the code (the run `deque_race` shows that they overlap; what a torn
deque would do is not modelled). Local disk operations succeed. A refused `REST`
is a refused `Get`. The pool's part of a download is `ClientPool`'s subject and is
reduced here to "there is a client for this type". Notifications are left out.

### HttpServer

The loop of `Start` around `listen` (`main`, `gen`, `svr_sock`, `open`), the task queue
(`jobs`, `shutdown`), each worker's place in `process_and_close_socket` (`w`), each
connection and its last response (`conn`, `reply`: the length it declared, the bytes
written, and the bytes `lost` of the head and the boundaries, whose writes the code does
not check), and the workers that hold a client of the pool (`held`).

| action | code |
|---|---|
| `StartLoop`, `Listen`, `Accept`, `AcceptFails`, `Join`, `AfterListen` | `http_server.cpp:979-1009`, `httplib.cpp:3949-4073`, `httplib.h:688-702` |
| `SetRestMode` | `main.cpp:22-58`, at any time |
| `TakeJob`, `NextRequest`, `CloseConnection` | the worker of the pool and the keep-alive loop, `httplib.h:705-730`, `httplib.cpp:700-752, 4431-4444` |
| `Refuse`, `HandleFileRequest`, `DispatchRequest`, `StartClient`, `PollClient`, `Install` | routing and the handlers: 400 and 404, `/`, answers without a provider, `/start_client`, `/bg_install` |
| `StopHandler`, `CloseListener` | `/stop`, `httplib.cpp:3594-3601`: the assertion, which is compiled in and aborts the process (`Dies`), and the close |
| `CallProvider`, `ProviderReturns`, `PartDone` | `write_content` and the provider with any outcome of `GetRange`, for each part of a multipart response; what is around a part may get lost |
| `MapFault` | a range of a file so far behind its end that the mapping faults, `httplib.cpp:3932-3935` |
| `Respond` | end of the response, destruction of `Response` and with it the releaser |

Lengths are `size_t` of `Word` values, so a range behind the end wraps as in the code.
Transfers are abstract here: `GetRange` returns a part, fails or never returns.

### FtpClient

A session against an external peer. A reply is one or two lines with the class of
its code and the command it answers; the client sees the class only. The peer may
refuse any command, reset the data connection and hang up at any time.

| action | code (`ftpclient.cpp`) |
|---|---|
| `Connect`, `Greeted`, `UserAnswered`, `PassAnswered` | 50-174 |
| `Command`, `CommandAnswered` | the operations that are one command or two, 181-233 |
| `Get`, `GetRange`, `TypeAnswered`, `PasvAnswered`, `RestAnswered`, `SendRetr`, `ConnectData`, `RetrAnswered` | `FtpAccess` and `FtpOpenPasv`, 355-426, 487-625 |
| `FtpRead`, `WriteCutShort`, `WriteFails`, `LoopEnds` | `FtpXfer`, `FtpRead`, the loop of `GetRange`, 794-940, 1268-1290 |
| `TransferAnswered`, `Quit`, `QuitAnswered` | `FtpClose`, `Quit`, 996-1042 |
| `PeerAnswers`, `PeerSends`, `PeerEndsTransfer`, `PeerCloses`, `DataReset` | the peer, external |

When `REST` is refused `FtpOpenPasv` returns 0, which its callers take for a success
with a handle that was never set: the model stops there in `undefined`.

### RemoteClient, HttpClient and FileClients

`RemoteClient` is an abstract specification of what the users of a client rely on: one
operation at a time; a client that says it is connected has been; a transfer in
`Exact` that returns 1 has handed over exactly what was asked for; a call that is
turned away changes nothing (`Refuse`); `Quit` disconnects. `HttpClient` implements it
with `Exact = {"GetRange"}`, because `Get` does not look at the status or count;
`FtpClient` with the same, because a data connection that breaks ends a `Get`; and
`FileClients` with both transfers. The refinement mappings keep what the modules call
`call`, `want`, `got` and `ret` (`FtpClient` computes them from its operation and its
blocks) and replace `connected` by what `IsConnected` computes.

`HttpClient` is httplib's `send` with the clients above it: `Connect` (with
archive.org's login), `Get`, `GetRange`, `Quit` start or end a call; `Acquire`,
`InitializeSsl`, `WriteRequest`, `ReadAnswer`, `ReadContent`, `ReadEnds`, `HandleResponse`,
`SendEnds` are the pieces of a send (`httplib.cpp:4573-4852, 5101-5179`), which nest for
redirects in `sends`, and `Return` judges the outcome. `PeerCloses` may come at any
time. A response is its status, length, framing, redirect and close flag.

`FileClients` has `SftpConnect`, `SmbConnect`, `NfsConnect` with their ways to fail,
`Get`, `GetRange`, `Open`, `Create`, `Read`, `ReadNothing`, `ReadFails` and the three
`Quit`s. The protocol libraries are external. A call on a destroyed context, which
`NfsClient::Connect` leaves behind (`nfsclient.cpp:40`), ends in `undefined`.

### InstallStore

The map, its file, the clock and the handlers of `/store_bg_install_data`: `Store`,
`ReadTick`, `AddPackageInstallHostData`, `BeginSave`, `ReadSaveTick`,
`SavePackageInstallHostData`, `Saved`, `SaveFails`; `Crash`,
`LoadPackageInstallHostData`, and `Clock`, which may also be set back. `GetTick` has a
static `timeval` per translation unit, whose two fields are read one by one: the
handlers share that of `http_server.cpp` (`tick`), and a save shares that of `config.cpp`
(`save_tick`) with the saves of the download list (`SaveBgDownloadData`), which hold
another mutex. Ages are unsigned, modulo `Word`. A password shorter than half a block
(`Short`) overruns the buffer it is encrypted in, and may be saved as anything
(`Overrun`, `Garbled`). `spoiled` records the hashes such a fault may have lost.

### Text and Formats

`Text` holds pure functions over sequences of characters or symbols: `Split`, `Trim`,
urls, request targets, headers, part dispositions, Base64, ranges, cookies, paths, the
ini file. `Formats` runs the two readers that work while input arrives:
`Parse`, `InitialBoundary`, `NewEntry`, `Header`, `Body`, `BoundaryEnd`, `Emptied` are the
multipart parser (`httplib.cpp:2111-2258`) on whatever pieces the socket delivers, without
its limit on the length of a header and the headers it knows but ignores;
`ChunkSize`, `ChunkData`, `ChunkEnd`, `Trailer` are `read_content_chunked`. The properties
of `Text`'s functions are evaluated on the inputs of the same run.

## Runs

| run | what it shows | distinct states |
|---|---|---|
| `pool` | a handler, the download thread and main up to and through shutdown: one owner, no use after free, no leak, maps that agree, healthy clients of the right server only, no inherited callback, no orphan pooled; nobody is held up by what another waits for | 541 000 |
| `download_safety` | FTP and file download, failures, resumption, rest mode, clear, retention, one crash anywhere | 3.9 million |
| `download_progress` | the same with a row of an unknown type: no lost wakeup, failing downloads are given up | 426 000 |
| `ftp_session` | `FtpClient` implements `RemoteClient`; the control connection stays in step, a pooled client is quiet, a range is exact, every operation returns | 9 900 |
| `server_lifecycle` | clients of `/bg_install` are released, kept connections are framed, the right bytes are asked for, `listen` leaves nothing behind, `/stop` ends the server or aborts it | 1.0 million |
| `http_requests` | `HttpClient` implements `RemoteClient`; own answers only, one body, the assertion of the retry, every operation returns | 576 000 |
| `file_transfers` | `FileClients` implements `RemoteClient` and closes what it opens | 4 400 |
| `install_history` | what was answered is found, through restarts, with host and password | 5.7 million |
| `formats` | multipart and chunked bodies in all divisions and cuts; the conversions | 331 000 |
| `rest_mode_strands`, `deque_race`, `http_resume` | violated, see Findings | |

Where the code falls short of the simple statement, the property names the exception
at its line instead of leaving the case out of the model:

- an HTTP body without a length that a timeout or a close cuts counts as whole, and
  its connection is kept (`AnswersInStep`, `OneBody`; `httplib.cpp:1604`);
- an FTP `Get` takes a broken data connection for the end of the file, and a short
  write is not noticed (`SuccessIsExact`), so that a download may be a SUCCESS without its
  tail (`SuccessHasFile`; `ftpclient.cpp:914-927`);
- a `Get` that cannot open its output leaves the remote file open, an SFTP `Connect`
  that is refused leaves its socket (`NothingLeftOpen`);
- a torn or failed write loses the install store; an entry stamped ahead of the time a
  save reads is dropped by it, because the clock was set back or one of the two times
  mixes two readings; a short password may be saved as anything (`StoredIsFound`;
  `config.cpp:45, 157-161, 262`);
- what failed writes lose of the head and the boundaries of a response is not noticed,
  and the connection is kept (`KeptAliveIsFramed`; `httplib.cpp:2567-2568, 3731`);
- a second `/stop` that meets the assertion aborts the process (`StopEnds`;
  `httplib.cpp:3596`);
- a range that reaches behind the content gets a response with another length than
  declared (`KeptAliveIsFramed`, `AsksForTheRange`);
- a first multipart boundary split between two pieces loses the first part, or more
  parts, and a content with a line like it is then read as parts
  (`MultipartInAnyPieces`);
- `+` and double escapes in redirects, `#`, `%` and `?` in file names, doubled slashes in
  paths, `%` in headers, `;` and `=` in part names, `=` in cookies, carriage returns in
  the ini file, Base64 of less than two bytes (`ConversionsSurvive`).

## Bounds

- Pool: a handler, the downloader and main are the smallest set in which one thread
  releases what another acquires while the pool is cleared; more handlers, and idle
  lists longer than `CLIENT_POOL_MAX_IDLE = 1` (12 in the code), are left to the proofs.
  With a limit of 1 two releases under one key meet it. Four addresses are enough that
  a handler always finds one for a new client, next to an idle one of each key and
  the downloader's, and few enough to be reused. The clock runs to 1 with timeouts of 0,
  so that idle clients can be fresh and too old. The hosts are one of each kind, of
  which two share a key.
- Downloads: two are enough for one to be finished, cleared or in the way of the
  other; files of two blocks have a proper prefix; `MAX_FAILED_ATTEMPTS` is 1 or 2
  instead of 5; one nap and one crash can each come at any step.
- FTP: four operations are a login and three uses, of which the second can meet what the
  first left; a file of three blocks has ranges at its start, inside and at its end.
- Server: two workers and three connections give a queued, a kept and a stopping
  connection at once; `Size` 4 with the listed ranges covers first, last, suffix, open,
  behind the end and two parts; a head of 1 byte and 2 around each part can get lost in
  whole or in part; `Word` 64 lets lengths wrap without meeting by chance;
  `listen` is entered twice, with one nap.
- HTTP: the nine answers have every framing, both kinds of redirect and closing
  connections; two redirects can nest on one client and on another.
- File clients: three bytes, offsets and sizes up to one past the end, three transfers.
- Install store: two handlers (symmetric), hashes and requests; a retention of 2 on a
  clock to 2 with two units to a second, set back at any time, so that both times can be
  torn and entries get old; one host with a short password and one with a long one; one
  crash.
- Formats: the alphabets hold each character the code treats specially and one it does
  not; texts are up to four or five symbols, bodies up to two parts or chunks.

Deadlock is checked in the pool, download and HTTP client runs. In the others the
process under study ends: a session or client has used its operations, the server
has stopped, the input is read.

## Fairness

`ClientPool` assumes that a thread which waits for no server is scheduled: weak
fairness of its steps while `AwaitsServer` is false, and the same for main. A
transfer is never fair, because a remote server may keep it waiting for ever.
Neither are the `Connect` and the `Quit` of a session: `FtpClient::Quit` reads the
reply to QUIT without a timeout (`ftpclient.cpp:1033`). HTTP clients are created and
destroyed locally or within httplib's timeouts of 30 seconds
(`baseclient.cpp:67-68`). So `PoolNeverBlocks` says that no thread is held up by what
another one waits for, and `ShutdownCompletes` that main waits for nothing but the
replies to its own `Quit` of idle sessions.

`BgDownload` assumes that the download thread is scheduled outside of a `Get`, that a
handler that has begun finishes, and that the console leaves rest mode in the end.
`EventuallyNoneDue` has "no `Get` hangs for ever" as its premise, and does not say that
a download succeeds: every connection may fail.

`HttpServer` assumes that threads run; a peer that sends nothing runs into the
keep-alive and read timeouts, the probes of `/start_client` have timeouts too. Nobody
need connect, `accept` need not fail on an open socket. No step is fair in which a worker
calls a client of the pool (`InClientCall`): `Connect` when it acquires one, `GetRange`,
and `Quit` when the response is destroyed, since the FTP client reads without a timeout.
`StopEnds` has their return as its premise (`ClientCallsReturn`).

`FtpClient` has no timeout of its own, so `OperationsReturn` assumes a peer that answers
what it owes and sends what it has, unless it hangs up. `HttpClient` needs no such
assumption: connecting, reading and writing have timeouts (30, 30 and 5 seconds), so
weak fairness of its own steps is enough.

## Findings

- `rest_mode_strands`: a download that is being *resumed* when rest mode cuts its
  connection keeps `STATE_RESUMED`: line 474 skips the failure handling in rest
  mode, and the loop takes up only PENDING, DOWNLOADING and FAILED rows. It is
  never tried again, although the code says "Resume interrupted download" (436)
  and announces "Resuming downloads" (`main.cpp:47`).
- `deque_race`: `config.h:63-64` says the deque "is never mutated from a request
  handler"; `/download_url` appends to it from one while the download thread
  may be erasing without the lock.
- `http_resume`: `BaseClient::Get` counts every HTTP answer as a success, so an
  error page, or the whole file after a resumption, ends as a SUCCESS with a wrong
  file; `baseclient.cpp:182-183` says a transfer that fails is reported.

Seen while reading and not stated as properties:

- the pool key leaves out `http_server_type`, so requests that differ only in it share
  clients (`HandedOutFits` says what is still right about them);
- the clear flag is not saved, so cleared rows come back after a crash; two downloads to
  one destination share a temporary file;
- two `/start_client` requests may both find the client not running;
  `/change_ezremote_client_port` writes an unsynchronised int, and `stoi` may throw;
- `Base64::Decode` of an empty text reads before it;
- `/stop` and the end of `listen` may both close the listening socket (`httplib.cpp:3599,
  4022`); a failed `RETR` leaks the data socket (`ftpclient.cpp:579`); `SFTPClient` uses an
  authentication list that may be NULL (`sftpclient.cpp:126`).

## Proofs

Every theorem holds for all values of the constants that satisfy the assumptions
named below: any number of threads, hosts, connections, downloads, operations, any
sizes. `Spec` is the specification the runs check. Each inductive invariant was
checked by TLC on the run's constants before it was proved, and each proof has a lemma
per action, or one lemma for a group of actions that move the same state.

| module | theorem | establishes |
|---|---|---|
| `ClientPoolProofs` | `PoolOwnership` | the inductive invariant `Ownership` |
| | `PoolTypeOK`, `PoolExclusive`, `PoolLive` | the types, `ExclusiveHandOut`, `LiveIffReachable` |
| | `PoolUsage` | the inductive invariant `Usage` |
| | `PoolMapsAgree`, `PoolHandedOutFits`, `PoolCallbackNotInherited`, `PoolOrphansNeverPooled` | `MapsAgree`, `HandedOutFits`, `CallbackNotInherited`, `OrphansNeverPooled` |
| `BgDownloadProofs` | `DownloadQueue`, `DownloadTransfer`, `DownloadContent` | the inductive invariants `QueueInv`, `TransferOK`, `ContentOK` |
| | `DownloadTypeOK`, `DownloadIndexNamesItsRow`, `DownloadAnsweredIsKept`, `DownloadProgressIsTmpSize` | the invariants they are named after |
| | `SelectedElements` | what `Selected` returns for every list |
| | `DownloadFinishedStaysFinished` | the action property `FinishedStaysFinished` |
| | `DownloadSuccessHasFile`, `DownloadPartialIsPrefix` | `SuccessHasFile`, `PartialIsPrefix`, if no download is over HTTP |
| `FtpClientProofs` | `FtpSessionInv` | the inductive invariant of a session |
| | `FtpTypeOK`, `FtpRepliesInStep`, `FtpPooledIsQuiet`, `FtpSuccessIsExact` | the invariants they are named after |
| | `FtpClientRefines` | `FtpClient` implements `RemoteClient` |
| | `FtpOperationsShrink`, `FtpNeverWaitsInVain` | every step inside an operation brings its return nearer; whoever waits for the peer waits for something the peer owes |
| `HttpClientProofs` | `HttpClientInv` | the inductive invariant of a call |
| | `HttpAnswersInStep`, `HttpOneBody`, `HttpRetryAfterFailure` | the invariants they are named after |
| | `HttpClientRefines` | `HttpClient` implements `RemoteClient` |
| `FileClientsProofs` | `FileClientsInv`, `FileClientsNothingLeftOpen` | the inductive invariant, `NothingLeftOpen` |
| | `FileClientsRefine` | `FileClients` implements `RemoteClient` |
| `HttpServerProofs` | `HttpServerInv` | the inductive invariant of the server |
| | `HttpClientNotStranded`, `HttpListenLeavesNothing`, `HttpAsksForTheRange`, `HttpKeptAliveIsFramed` | `ClientNotStranded`, `ListenLeavesNothing`, `AsksForTheRange`, `KeptAliveIsFramed` |
| `InstallStoreProofs` | `InstallStoreInv`, `StoreFindsWhatItAnswered` | the inductive invariant of the store, `StoredIsFound` |
| `FormatsProofs` | `FormatsChunkedIsExact` | `ChunkedIsExact` |
| | `FormatsMultipartInAnyPieces` | `MultipartInAnyPieces` |

### The arguments

**Pool, ownership.** None of the three properties is inductive alone. A release pools
the client a thread holds; that keeps ownership exclusive only if nobody else has it. A
new client is put at a free address; that it is nobody's follows from
`LiveIffReachable`. Freeing a client keeps `LiveIffReachable` only if it was reachable
through one owner, which is `ExclusiveHandOut`. Writing a field of a client keeps the
heap's type only if the client has not been freed. `Ownership` is their conjunction with
`ControlOK`, which ties a thread's label to having a client and a host, and says that
main has nothing to destroy before the clear.

**Pool, use.** A request gets a client of its own server because the client fitted the
key it was registered under, and the key is the host's. So `Usage` follows the
clients through the pool: those held by a thread (`HeldOK`), those idle (`IdleOK`) and
those checked out at the clear (`OrphansOK`), on top of `Ownership`, which says that a
step on one client changes nothing of another's.

**Downloads.** `IndexNamesItsRow` needs that each download has one row, that only finished
rows are flagged and that only flagged rows are erased; the history has to satisfy the
same, because a crash makes it the list. `TransferOK` relates the offset of a `Get`, the
counters and the temporary file: `ProgressIsTmpSize` alone does not survive a failure.
`ContentOK` says what files hold: the temporary file and the rest still to come make up
the source, and the final file of a success begins like the source and is whole unless it
came over FTP. It is proved for every download that has a destination of its own and is
not over HTTP; `SuccessHasFile` and `PartialIsPrefix` are false with HTTP downloads, as
the run `http_resume` shows, and so have that hypothesis. `KeptInv` adds that a row is
kept from the moment it is added.

**FTP.** `RepliesInStep` is a statement about every place of the code at once:
`ControlOK` says for each label what the peer still owes, what lies in the inbox (one or
two lines of the reply, with or without the closing reply of a transfer behind it) and
whether data is still to come. `MarkerOK` follows the restart marker from REST to RETR;
`ContentOK` says that the blocks delivered, under way and still to be sent
follow each other. The invariant says nothing of a client that has failed: such a client
is only quit. `OperationsReturn` is a liveness property, but what it rests on is proved:
the pair of `Waits`, the places of the code still ahead, and `Pending`, what peer and
network can still do while the client is at one of them, shrinks lexicographically
with every step until the operation returns, and at no place does the client wait for a
peer that has nothing to answer or send. What is left to TLC is that fairness turns the
two into a return.

**HTTP client.** `AnswersInStep` holds because a send that fails closes its socket
before anything else uses it: `SocketsOK` says that unread bytes are those of a body
without a length, or of the send that is about to close. `BodyOK` says that once
something was handed over no other response is asked for, which makes `OneBody`
inductive. `ErrorOK` says where a closed TLS peer may be on record.

**Refinements.** For `HttpClient`, `FileClients` and `FtpClient` the proof shows that
`Init` implies `RemoteClient`'s initial predicate under the mapping, and that under the
inductive invariant each action is one of `RemoteClient`'s actions or leaves its variables
alone. Its specification has no fairness, so this is all of it.

**Server.** `ListenLeavesNothing` needs that a worker ends only when the queue is empty
and shut down, and that a queued or served connection is in the queue or with a worker,
exactly once (`QueueOK`, `ConnsOK`). `KeptAliveIsFramed` needs to know what has been
written at each point: `WrittenOK` says that, while the server is not stopped, it is, with
what got lost, the sum of the head and the parts before plus the offset reached, modulo
`Word`, and `PartOK` that a part goes from its offset to its end. When the server is
stopped nothing is said: then no connection is kept, which is why `KeptFits` asks for an
open socket. `RangeIsBytes` shows, once, that `get_range_offset_and_length` finds the
bytes of every range that ends with the content, and `PartWritten` that the sums agree
with the Content-Length.

**Install store.** `StoredIsFound` speaks of the history only, but a restart makes the
file the history, and a save makes the history the file. So `HistoryOK` says that the
history has, for each package, the entry of some request that is at least as new as
every request answered and every request still in its save, or that this entry is past
the retention; `FileOK` says the same of the file and the requests answered, unless the
file is torn. The requests still in their saves matter because two handlers may add to
the store before either has saved. `RoundTrip` shows that an entry written and read back
is used as before: same type, password, server type and age. `SaveInv` shows that the
unsigned age of an entry that is not ahead of the time of the save is its true age, so
that a save drops only what is past the retention by the latest time the clock or a save
has shown, although the clock may since have been set back. Nothing is assumed of that
time: it may mix two readings.

**Chunked bodies.** The reader's state says nothing about the body, so `ChunkedInv` ties
each of its places to a position on the wire: `Start(v, k)` is where chunk `k + 1`
begins, what has been handed over are the chunks before and the bytes of this one up to
the position, and the bytes not read are the rest of the wire up to where it is cut.
`ChunkLayout` and `EndLayout` say which symbols stand where; `GetlineTakes` that a line
ends with the first line feed or with the input. A cut shows in every place, since a
line without its end is no number, no empty line and no end of a chunk, or is followed
by nothing.

**Multipart bodies.** `MultipartInv` does the same for the multipart parser. Buffer and
unread rest are two stretches of the wire, p..q and from q on (`Window`), and p is one of
the few places where the parser can stand: before the first boundary (`Seeks`), in part
`k + 1` behind its boundary, its name, its type, in its content or at its end (`InPart`),
or behind the last boundary (`Accepted`). What has been handed over are whole parts, and
of the part being read as much as lies before p. Between two pieces q lies before the end
of what the parser waits for; once everything is read that leaves `Accepted` or a body
that is refused. A content ends where it was meant to because the first delimiter behind
a place in it is the part's own (`DelimiterFirst`). If the first piece is too short the
beginning of the body is erased, and the parser takes the next line that looks like the
first boundary. Such a line stands only where a part begins or across the end of a
content that ends like one (`LinesOnTheWire`): in the first case whole parts are lost
(`Lost`), in the second a boundary stands where a header belongs and is refused
(`Misled`). That no content handed over holds the delimiter, whatever was sent, is a
separate invariant, `MultipartOut`: no delimiter begins in what was handed over
and ends in the buffer, since the parser holds back as many bytes as it is long
(`HeldBack`).

Three recursive functions occur: `Selected`, the sum in `SumLengths` and the
concatenation `FlattenSeq` of the formats. What they compute is proved by induction over
the set of positions for which it is right, from the least element of a set of naturals
(`LeastNatural`, `InductionTo`).

### Assumptions

They are `ASSUME`s of the modules, and TLC evaluates them in every run.

- `PoolSizes`, `PoolNames`, `KeyNames`: sizes are naturals, the hosts are `HostInfo`
  records, and threads and null values differ from the values beside them.
- `JobKinds`, `DownloadBounds`, `FileNames`: there is a download, each has a type and a
  destination, files are not empty and there is at least one attempt; the values for a
  missing and a truncated file are no files.
- `FtpBounds`: files are not empty, offsets lie in the file, ranges are not empty.
- `HttpBounds`: the responses are records of the kind `read_response` builds.
- `FileBounds`: sizes are naturals.
- `ServerBounds`: content is smaller than a `size_t` can say; the bounds of a range are
  not reversed (`parse_range_header` refuses such a header); there is a worker (httplib
  starts at least eight).
- `FormatInputs`: a multipart body has a part, and a header line with a name is not one
  with a type; a chunk has at least one byte, and sizes
  are written differently from each other, from 0 and from no number; a body that is cut
  off lacks at least its last byte.
- `StoreBounds`, `StoreFiles`: sizes are naturals, a second has at least one unit, and the
  time stamps of the first file are naturals (the code reads them as unsigned).

### Only model-checked

- Liveness (`PoolNeverBlocks`, `ShutdownCompletes`, `WakesAfterRest`, `EventuallyNoneDue`,
  `StopEnds`, `OperationsReturn`) is outside this prover's reach, and so is `ENABLED`.
- `ConversionsSurvive` of `Formats`: what `Text`'s recursive operators compute for every
  input needs induction over data.

## Not modelled

- The ezRemote client and its loader, which are other processes, and the web page.
- Debug logger (every call is commented out), icon, console headers, notifications.
- The write side of `inifile.c`, and the helpers of `fs.cpp` and `util.h` that have no
  caller in the server; UTF conversions.
- FTP PORT mode, uploads and raw file operations, which the server never asks for.
- httplib's features the server does not use: TLS servers, compression, proxies,
  digest authentication, certificate verification (switched off), query parameters,
  server-sent chunked responses.
- What a torn deque, a destroyed NFS context or an unset FTP handle does: the model
  shows that the code gets there, or stops there.
- Local disk errors during background downloads; `/start_client` as a race between two
  requests for the other process.

## Plan

Every invariant the runs check is proved (type invariants are proved only), except
`ConversionsSurvive`; so are the action property and the three refinements. What could
follow: `/start_client` as a race between two requests, and local disk errors during
background downloads.
