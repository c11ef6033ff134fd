------------------------------ MODULE BgDownload ------------------------------
(***************************************************************************)
(* Background downloads: the list bg_download_list, the thread that works  *)
(* through it (DownloadFilesThread), the request handlers that add to it   *)
(* and clear it, the history file that survives a restart, and rest mode.  *)
(*                                                                         *)
(* The download thread reads and writes the rows of the list by index and  *)
(* without a lock; a step of it below is a piece of its code between two   *)
(* points where a handler, an event or a crash can make a difference.      *)
(* The two operations that change the list's structure, push_back and      *)
(* erase, are each one step.                                               *)
(*                                                                         *)
(* A file is a sequence of blocks <<j, n>>, block n of the source of job   *)
(* j; <<j, 0>> is what an HTTP server sends instead of the file, an error  *)
(* page for example.                                                       *)
(***************************************************************************)
EXTENDS Integers, Sequences, Lists

CONSTANTS
  Jobs,         (* the /download_url requests                               *)
  Type,         (* Jobs -> "FTP", "HTTP", "FILE" (SFTP, SMB, NFS), "UNKNOWN"*)
  Paths,        (* destination paths                                        *)
  DestPath,     (* Jobs -> Paths                                            *)
  FileSize,     (* blocks of a source file                                  *)
  MAX_FAILED_ATTEMPTS,  (* 5 in the code                                    *)
  Aging,        (* jobs that may get older than MAX_PKG_HISTORY_RETENTION   *)
  MaxNaps,      (* bound: how often the console enters rest mode            *)
  MaxCrashes,   (* bound: how often the process dies                        *)
  NoFile,       (* a file that does not exist                               *)
  Torn          (* a history file that was truncated but not yet written    *)

ASSUME JobKinds ==
  /\ Jobs # {}
  /\ Type \in [Jobs -> {"FTP", "HTTP", "FILE", "UNKNOWN"}]
  /\ DestPath \in [Jobs -> Paths]
  /\ Aging \subseteq Jobs

ASSUME DownloadBounds ==
  /\ FileSize \in Nat \ {0} /\ MAX_FAILED_ATTEMPTS \in Nat \ {0}
  /\ MaxNaps \in Nat /\ MaxCrashes \in Nat

States == {"PENDING", "DOWNLOADING", "RESUMED", "FAILED", "SUCCESS"}
Block == Jobs \X (0..FileSize)
File == Seq(Block)

(* A row of the list, and what the history keeps of it.                    *)
BgDownloadData == [job : Jobs, state : States, failed_attempts : 0..MAX_FAILED_ATTEMPTS,
                   bytes_transfered : Nat, remove_requested : BOOLEAN]

ASSUME FileNames == NoFile \notin File /\ Torn \notin Seq(BgDownloadData)

Blocks(j, offset) == [n \in 1..(FileSize - offset) |-> <<j, offset + n>>]
Whole(j) == Blocks(j, 0)

-----------------------------------------------------------------------------
VARIABLES
  list,        (* bg_download_list                                           *)
  history,     (* the rows in BG_DOWNLOAD_HISTORY_PATH, or Torn              *)
  tmp,         (* path -> contents of path.tmp                               *)
  final,       (* path -> contents of path                                   *)
  pc,          (* where the download thread is                               *)
  i,           (* its loop index, from 1                                     *)
  temp_file,   (* the job whose dest_path temp_file was formatted from       *)
  offset,      (* the offset argument of Get                                 *)
  body,        (* blocks the server has still to send                        *)
  xfered,      (* blocks received by this Get                                *)
  g_dl_offset, (* what the FTP callback adds to xfered                       *)
  rest,        (* in_rest_mode                                               *)
  signalled,   (* download_pause_cond was signalled while it was waited on   *)
  req,         (* job -> where its /download_url request is                  *)
  naps, crashes,
  aged,        (* jobs older than the retention                              *)
  cleared,     (* history: jobs flagged by /clear_download_history           *)
  torn         (* history: a crash has hit a save                            *)

transfer == <<temp_file, offset, body, xfered, g_dl_offset>>
files == <<tmp, final>>
bounds == <<naps, crashes, aged, cleared, torn>>
vars == <<list, history, tmp, final, pc, i, temp_file, offset, body, xfered, g_dl_offset,
          rest, signalled, req, naps, crashes, aged, cleared, torn>>

Init ==
  /\ list = <<>> /\ history = <<>>
  /\ tmp = [p \in Paths |-> NoFile] /\ final = [p \in Paths |-> NoFile]
  /\ pc = "pause" /\ i = 1
  /\ temp_file = CHOOSE j \in Jobs : TRUE
  /\ offset = 0 /\ body = <<>> /\ xfered = 0 /\ g_dl_offset = 0
  /\ rest = FALSE /\ signalled = FALSE
  /\ req = [j \in Jobs |-> "unsent"]
  /\ naps = 0 /\ crashes = 0
  /\ aged = {} /\ cleared = {} /\ torn = FALSE

-----------------------------------------------------------------------------
(***************************************************************************)
(* SaveBgDownloadData under download_mutex_: rows past the retention are   *)
(* left out of the file but stay in memory, and remove_requested is not    *)
(* written.  LoadBgDownloadData reads it back at the start; a file that    *)
(* does not parse gives an empty list.                                     *)
(***************************************************************************)
Recent(row) == row.job \notin aged
Unflagged(row) == [row EXCEPT !.remove_requested = FALSE]
Persisted ==
  LET kept == Selected(list, {n \in DOMAIN list : Recent(list[n])})
  IN [n \in DOMAIN kept |-> Unflagged(kept[n])]
SaveBgDownloadData == history' = Persisted
LoadBgDownloadData == list' = IF history' = Torn THEN <<>> ELSE history'

(* The save a thread is in when it dies leaves the file truncated.         *)
SavingLabels == {"save_erase", "save_start", "save_failed", "save_done"}
Saving == pc \in SavingLabels \/ \E j \in Jobs : req[j] = "adding"

(***************************************************************************)
(* The request handlers.                                                   *)
(***************************************************************************)
(* /download_url: AddBgDownloadData, then SaveBgDownloadData.              *)
NewRow(j) == [job |-> j, state |-> "PENDING", failed_attempts |-> 0,
              bytes_transfered |-> 0, remove_requested |-> FALSE]

AddBgDownloadData(j) ==
  /\ req[j] = "unsent"
  /\ list' = Append(list, NewRow(j))
  /\ req' = [req EXCEPT ![j] = "adding"]
  /\ UNCHANGED <<history, files, pc, i, transfer, rest, signalled, bounds>>

\* Fault: the request is answered before the list is saved.
AnswerUnsaved(j) ==
  /\ req[j] = "adding"
  /\ req' = [req EXCEPT ![j] = "answered"]
  /\ UNCHANGED <<list, history, files, pc, i, transfer, rest, signalled, bounds>>

SaveAndAnswer(j) ==
  /\ req[j] = "adding"
  /\ SaveBgDownloadData
  /\ req' = [req EXCEPT ![j] = "answered"]
  /\ UNCHANGED <<list, files, pc, i, transfer, rest, signalled, bounds>>

(* /clear_download_history only flags rows that are finished for good.     *)
Finished(row) ==
  \/ row.state = "SUCCESS"
  \/ row.state = "FAILED" /\ row.failed_attempts >= MAX_FAILED_ATTEMPTS

\* Fault: the handler erases the finished rows itself.
EraseInHandler ==
  /\ \E n \in DOMAIN list : Finished(list[n])
  /\ list' = Selected(list, {n \in DOMAIN list : ~Finished(list[n])})
  /\ cleared' = cleared \cup {list[n].job : n \in {m \in DOMAIN list : Finished(list[m])}}
  /\ UNCHANGED <<history, files, pc, i, transfer, rest, signalled, req, naps, crashes, aged, torn>>

ClearDownloadHistory ==
  /\ \E n \in DOMAIN list : Finished(list[n])
  /\ list' = [n \in DOMAIN list |->
       IF Finished(list[n]) THEN [list[n] EXCEPT !.remove_requested = TRUE] ELSE list[n]]
  /\ cleared' = cleared \cup {list[n].job : n \in {m \in DOMAIN list : Finished(list[m])}}
  /\ UNCHANGED <<history, files, pc, i, transfer, rest, signalled, req, naps, crashes, aged, torn>>

(* What /get_download_state shows.                                         *)
Shown == {list[n].job : n \in {m \in DOMAIN list : ~list[m].remove_requested}}

(***************************************************************************)
(* Rest mode, from the system event thread.                                *)
(***************************************************************************)
PauseDownloadThread ==
  /\ ~rest /\ naps < MaxNaps
  /\ rest' = TRUE /\ naps' = naps + 1
  /\ UNCHANGED <<list, history, files, pc, i, transfer, signalled, req, crashes, aged, cleared, torn>>

\* Fault: the flag is cleared but the waiting thread is not woken.
ResumeWithoutSignal ==
  /\ rest
  /\ rest' = FALSE
  /\ UNCHANGED <<list, history, files, pc, i, transfer, signalled, req, bounds>>

ResumeDownloadThread ==
  /\ rest
  /\ rest' = FALSE
  /\ signalled' = (signalled \/ pc = "waiting")
  /\ UNCHANGED <<list, history, files, pc, i, transfer, req, bounds>>

-----------------------------------------------------------------------------
(***************************************************************************)
(* The download thread.  Top of the loop: wait while paused.  The mutex is *)
(* held from the test of the flag to the wait, so each is one step.        *)
(***************************************************************************)
WaitWhilePaused ==
  /\ \/ pc = "pause"
     \/ pc = "waiting" /\ signalled
  /\ pc' = IF rest THEN "waiting" ELSE "erase"
  /\ signalled' = FALSE
  /\ UNCHANGED <<list, history, files, i, transfer, rest, req, bounds>>

(* Apply history clears, and save if there were any.                       *)
Kept(row) == ~row.remove_requested

EraseCleared ==
  /\ pc = "erase"
  /\ list' = Selected(list, {n \in DOMAIN list : Kept(list[n])})
  /\ pc' = IF Len(list') < Len(list) THEN "save_erase" ELSE "scan"
  /\ i' = 1
  /\ UNCHANGED <<history, files, transfer, rest, signalled, req, bounds>>

SaveAfterErase ==
  /\ pc = "save_erase"
  /\ SaveBgDownloadData
  /\ pc' = "scan"
  /\ UNCHANGED <<list, files, i, transfer, rest, signalled, req, bounds>>

-----------------------------------------------------------------------------
(* The pass over the rows.  A row of an unknown type gets no client and is *)
(* passed over, whatever its state.                                        *)
Fresh(row) == row.state = "PENDING"
\* Fault: a failed row is tried again without limit.
RetriedForever(row) == row.state \in {"DOWNLOADING", "FAILED"}
Interrupted(row) ==
  \/ row.state = "DOWNLOADING"
  \/ row.state = "FAILED" /\ row.failed_attempts < MAX_FAILED_ATTEMPTS
HasClient(row) == Type[row.job] # "UNKNOWN"

EndOfPass ==
  /\ pc = "scan" /\ i > Len(list)
  /\ pc' = "pause"
  /\ UNCHANGED <<list, history, files, i, transfer, rest, signalled, req, bounds>>

PassOver ==
  /\ pc = "scan" /\ i <= Len(list)
  /\ ~(HasClient(list[i]) /\ (Fresh(list[i]) \/ Interrupted(list[i])))
  /\ i' = i + 1
  /\ UNCHANGED <<list, history, files, pc, transfer, rest, signalled, req, bounds>>

StartDownload ==
  /\ pc = "scan" /\ i <= Len(list)
  /\ Fresh(list[i]) /\ HasClient(list[i])
  /\ list' = [list EXCEPT ![i].state = "DOWNLOADING"]
  /\ temp_file' = list[i].job
  /\ g_dl_offset' = IF Type[list[i].job] = "FTP" THEN 0 ELSE g_dl_offset
  /\ offset' = 0
  /\ pc' = "save_start"
  /\ UNCHANGED <<history, files, i, body, xfered, rest, signalled, req, bounds>>

SaveAfterStart ==
  /\ pc = "save_start"
  /\ SaveBgDownloadData
  /\ pc' = "get"
  /\ UNCHANGED <<list, files, i, transfer, rest, signalled, req, bounds>>

TmpSize(j) == IF tmp[DestPath[j]] = NoFile THEN 0 ELSE Len(tmp[DestPath[j]])

\* Fault: the callback's offset is left from an earlier download.
ResumeStaleOffset ==
  /\ pc = "scan" /\ i <= Len(list)
  /\ Interrupted(list[i]) /\ HasClient(list[i])
  /\ list' = [list EXCEPT ![i].state = "RESUMED"]
  /\ temp_file' = list[i].job
  /\ offset' = TmpSize(list[i].job)
  /\ pc' = "get"
  /\ UNCHANGED <<history, files, i, body, xfered, g_dl_offset, rest, signalled, req, bounds>>

ResumeDownload ==
  /\ pc = "scan" /\ i <= Len(list)
  /\ Interrupted(list[i]) /\ HasClient(list[i])
  /\ list' = [list EXCEPT ![i].state = "RESUMED"]
  /\ temp_file' = list[i].job
  /\ offset' = TmpSize(list[i].job)
  /\ g_dl_offset' = TmpSize(list[i].job)
  /\ pc' = "get"
  /\ UNCHANGED <<history, files, i, body, xfered, rest, signalled, req, bounds>>

-----------------------------------------------------------------------------
(***************************************************************************)
(* RemoteClient::Get(temp_file, src_path, offset).  The temporary file is  *)
(* truncated when the offset is 0 and appended to otherwise.  FTP and HTTP *)
(* open it before they talk to the server, the others after.  A server     *)
(* sends the rest of the file; an HTTP server may also ignore the Range    *)
(* header or send an error page, and BaseClient::Get takes any of them.    *)
(***************************************************************************)
\* Fault: a resumed download reads the source from its start.
AnswersFromStart(j) == {Whole(j)}

Answers(j) ==
  {Blocks(j, offset)} \cup (IF Type[j] = "HTTP" THEN {Whole(j), <<<<j, 0>>>>} ELSE {})

Opened(p) == [tmp EXCEPT ![p] = IF offset = 0 \/ @ = NoFile THEN <<>> ELSE @]

(* Get returns, and with it its locals are gone.                           *)
GetReturns ==
  /\ offset' = 0 /\ body' = <<>> /\ xfered' = 0
  /\ UNCHANGED <<temp_file, g_dl_offset>>

GetStarts ==
  /\ pc = "get"
  /\ tmp' = Opened(DestPath[temp_file])
  /\ body' \in Answers(list[i].job)
  /\ xfered' = 0
  /\ list' = IF Type[list[i].job] = "FTP"
             THEN list
             ELSE [list EXCEPT ![i].bytes_transfered = offset]
  /\ pc' = "xfer"
  /\ UNCHANGED <<history, final, i, temp_file, offset, g_dl_offset, rest, signalled, req, bounds>>

GetRefused ==
  /\ pc = "get"
  /\ tmp' = IF Type[list[i].job] = "FILE" THEN tmp ELSE Opened(DestPath[temp_file])
  /\ list' = IF Type[list[i].job] = "HTTP"
             THEN [list EXCEPT ![i].bytes_transfered = offset]
             ELSE list
  /\ pc' = "failed"
  /\ GetReturns
  /\ UNCHANGED <<history, final, i, rest, signalled, req, bounds>>

(* One block is written and counted: by the FTP callback from g_dl_offset, *)
(* by the other clients one after the other.                               *)
ReceiveBlock ==
  /\ pc = "xfer" /\ body # <<>>
  /\ tmp' = [tmp EXCEPT ![DestPath[temp_file]] = Append(@, Head(body))]
  /\ body' = Tail(body)
  /\ xfered' = xfered + 1
  /\ list' = [list EXCEPT ![i].bytes_transfered =
                IF Type[list[i].job] = "FTP" THEN g_dl_offset + xfered + 1 ELSE @ + 1]
  /\ UNCHANGED <<history, final, pc, i, temp_file, offset, g_dl_offset, rest, signalled, req, bounds>>

(* Get returns 0: a read failed, or with nothing left to send the closing  *)
(* reply.  Of an FTP transfer only the control connection is meant, whose  *)
(* reply FtpClose waits for: see DataEnded for its data connection.        *)
ConnectionLost ==
  /\ pc = "xfer"
  /\ pc' = "failed"
  /\ GetReturns
  /\ UNCHANGED <<list, history, files, i, rest, signalled, req, bounds>>

(* What Get takes for the end of the file.  FtpRead returns 0 for a failed *)
(* recv as for an end of file, and FtpXfer then returns what the closing   *)
(* reply says, so a data connection that breaks may end a Get in success;  *)
(* an HTTP body without a length ends wherever its connection does.        *)
DataEnded == body = <<>> \/ Type[list[i].job] \in {"FTP", "HTTP"}

(* Get returns 1: rename the temporary file, mark the row, save, next row. *)
\* Fault: the row is marked and saved before the file is in place.
SuccessBeforeRename ==
  /\ pc = "xfer" /\ DataEnded
  /\ list' = [list EXCEPT ![i].state = "SUCCESS"]
  /\ pc' = "save_done"
  /\ GetReturns
  /\ UNCHANGED <<history, files, i, rest, signalled, req, bounds>>

GetCompletes ==
  /\ pc = "xfer" /\ DataEnded
  /\ final' = [final EXCEPT ![DestPath[list[i].job]] = tmp[DestPath[temp_file]]]
  /\ tmp' = [tmp EXCEPT ![DestPath[temp_file]] = NoFile]
  /\ list' = [list EXCEPT ![i].state = "SUCCESS"]
  /\ pc' = "save_done"
  /\ GetReturns
  /\ UNCHANGED <<history, i, rest, signalled, req, bounds>>

SaveAfterSuccess ==
  /\ pc = "save_done"
  /\ SaveBgDownloadData
  /\ pc' = "scan" /\ i' = i + 1
  /\ UNCHANGED <<list, files, transfer, rest, signalled, req, bounds>>

(***************************************************************************)
(* Get failed, and the pass is broken off.  In rest mode the row keeps its *)
(* state.  Otherwise it is FAILED, and a failed resumption counts; only    *)
(* the last one is saved.                                                  *)
(***************************************************************************)
\* Fault: failed attempts are not counted.
AttemptsUncounted(row) == row.failed_attempts

AttemptsAfter(row) ==
  IF row.state = "RESUMED" THEN row.failed_attempts + 1 ELSE row.failed_attempts

GetFailed ==
  /\ pc = "failed"
  /\ list' = IF rest
             THEN list
             ELSE [list EXCEPT ![i].state = "FAILED",
                               ![i].failed_attempts = AttemptsAfter(list[i])]
  /\ pc' = IF ~rest /\ list[i].state = "RESUMED" /\ AttemptsAfter(list[i]) >= MAX_FAILED_ATTEMPTS
           THEN "save_failed"
           ELSE "pause"
  /\ UNCHANGED <<history, files, i, transfer, rest, signalled, req, bounds>>

SaveAfterFailure ==
  /\ pc = "save_failed"
  /\ SaveBgDownloadData
  /\ pc' = "pause"
  /\ UNCHANGED <<list, files, i, transfer, rest, signalled, req, bounds>>

-----------------------------------------------------------------------------
(***************************************************************************)
(* The process dies, by a crash or by /stop, which ends in _exit without   *)
(* waiting for the download thread, and is started again.                  *)
(***************************************************************************)
CrashAndRestart ==
  /\ crashes < MaxCrashes
  /\ crashes' = crashes + 1
  /\ \/ history' = history /\ torn' = torn
     \/ Saving /\ history' = Torn /\ torn' = TRUE
  /\ LoadBgDownloadData
  /\ pc' = "pause" /\ i' = 1
  /\ offset' = 0 /\ body' = <<>> /\ xfered' = 0 /\ g_dl_offset' = 0
  /\ rest' = FALSE /\ signalled' = FALSE
  /\ req' = [j \in Jobs |-> IF req[j] = "adding" THEN "dropped" ELSE req[j]]
  /\ UNCHANGED <<files, temp_file, naps, aged, cleared>>

Age(j) ==
  /\ j \in Aging \ aged
  /\ req[j] = "answered"
  /\ aged' = aged \cup {j}
  /\ UNCHANGED <<list, history, files, pc, i, transfer, rest, signalled, req,
                 naps, crashes, cleared, torn>>

DownloadThread ==
  \/ WaitWhilePaused \/ EraseCleared \/ SaveAfterErase
  \/ EndOfPass \/ PassOver
  \/ StartDownload \/ SaveAfterStart \/ ResumeDownload
  \/ GetStarts \/ GetRefused \/ ReceiveBlock \/ ConnectionLost \/ GetCompletes
  \/ SaveAfterSuccess \/ GetFailed \/ SaveAfterFailure

Next ==
  \/ DownloadThread
  \/ \E j \in Jobs : AddBgDownloadData(j) \/ SaveAndAnswer(j) \/ Age(j)
  \/ ClearDownloadHistory
  \/ PauseDownloadThread
  \/ ResumeDownloadThread
  \/ CrashAndRestart

(* The download thread is scheduled, handlers finish, and the console      *)
(* leaves rest mode.  A Get may wait for its server for ever: the FTP,     *)
(* SFTP and NFS clients read without a timeout.                            *)
InGet == pc \in {"get", "xfer"}

Fairness ==
  /\ WF_vars(~InGet /\ DownloadThread)
  /\ \A j \in Jobs : WF_vars(SaveAndAnswer(j))
  /\ WF_vars(ResumeDownloadThread)

Spec == Init /\ [][Next]_vars /\ Fairness

-----------------------------------------------------------------------------
(* The types of the download queue, the files and the threads that share   *)
(* them (http_server.cpp:32-41).                                           *)
TypeOK ==
  /\ list \in Seq(BgDownloadData)
  /\ history \in Seq(BgDownloadData) \cup {Torn}
  /\ tmp \in [Paths -> File \cup {NoFile}]
  /\ final \in [Paths -> File \cup {NoFile}]
  /\ pc \in SavingLabels \cup {"pause", "waiting", "erase", "scan", "get", "xfer", "failed"}
  /\ i \in Nat \ {0} /\ temp_file \in Jobs
  /\ offset \in Nat /\ body \in File /\ xfered \in Nat /\ g_dl_offset \in Nat
  /\ rest \in BOOLEAN /\ signalled \in BOOLEAN
  /\ req \in [Jobs -> {"unsent", "adding", "answered", "dropped"}]
  /\ naps \in 0..MaxNaps /\ crashes \in 0..MaxCrashes
  /\ aged \subseteq Jobs /\ cleared \subseteq Jobs /\ torn \in BOOLEAN

(***************************************************************************)
(* From the choice of a row to the end of its attempt, the index still     *)
(* names that row: the unlocked accesses bg_download_list[i] of the whole  *)
(* attempt concern the download whose temporary file is being written,     *)
(* whatever handlers do meanwhile (http_server.cpp:382-497).               *)
(***************************************************************************)
Working == pc \in {"save_start", "get", "xfer", "failed", "save_done"}
IndexNamesItsRow ==
  Working =>
    /\ i \in DOMAIN list
    /\ list[i].job = temp_file
    /\ list[i].state \in IF pc = "save_done" THEN {"SUCCESS"} ELSE {"DOWNLOADING", "RESUMED"}

(* No other job writes the same destination.                               *)
OwnPath(j) == \A k \in Jobs \ {j} : DestPath[k] # DestPath[j]

(***************************************************************************)
(* A download shown or remembered as a success has its file in place, and  *)
(* the file holds the source from its first block on without a gap or a    *)
(* repetition, through failures, resumptions and crashes: the rename comes *)
(* before the state and the state before the save (lines 426-430,          *)
(* 490-494).  The file is whole, except that over FTP its tail may be      *)
(* missing: a broken data connection is taken for the end of the file      *)
(* (ftpclient.cpp:914-927, 996-1017).                                      *)
(***************************************************************************)
Rows == {list[n] : n \in DOMAIN list}
SavedRows == IF history = Torn THEN {} ELSE {history[n] : n \in DOMAIN history}
SuccessHasFile ==
  \A row \in Rows \cup SavedRows :
    row.state = "SUCCESS" /\ OwnPath(row.job) =>
      LET file == final[DestPath[row.job]] IN
      /\ file # NoFile
      /\ file = SubSeq(Whole(row.job), 1, Len(file))
      /\ Type[row.job] # "FTP" => Len(file) = FileSize

(***************************************************************************)
(* What a resumption appends to is a prefix of the source: no block is     *)
(* lost or repeated across attempts and restarts (lines 457-470).          *)
(***************************************************************************)
PartialIsPrefix ==
  \A j \in Jobs : OwnPath(j) /\ tmp[DestPath[j]] # NoFile =>
    tmp[DestPath[j]] = SubSeq(Whole(j), 1, TmpSize(j))

(***************************************************************************)
(* While a transfer runs, the progress /get_download_state reports is the  *)
(* size of the temporary file (lines 45-49, 463, 468).                     *)
(***************************************************************************)
ProgressIsTmpSize ==
  pc = "xfer" /\ xfered > 0 => list[i].bytes_transfered = TmpSize(temp_file)

(***************************************************************************)
(* A download whose request was answered is in the list, shown, and in the *)
(* history, until it is cleared: only a crash during a save and the        *)
(* retention lose one (lines 612-613, config.cpp:195-298).                 *)
(***************************************************************************)
AnsweredIsKept ==
  \A j \in Jobs : req[j] = "answered" /\ j \notin cleared \cup aged /\ ~torn =>
    /\ j \in Shown
    /\ \E row \in SavedRows : row.job = j

(***************************************************************************)
(* Except by a restart, a row leaves the list only when it was cleared and *)
(* is finished for good, and a finished row is never taken up again        *)
(* (lines 367-378, 434, 650).                                              *)
(***************************************************************************)
FinishedStaysFinished ==
  [][crashes' = crashes =>
       \A row \in Rows :
         /\ ~Finished(row) => \E new \in Rows' : new.job = row.job
         /\ Finished(row) => \A new \in Rows' : new.job = row.job => new.state = row.state]_vars

(***************************************************************************)
(* The thread leaves the wait after rest mode ends: no wakeup is lost      *)
(* (lines 355-360, 971-977).                                               *)
(***************************************************************************)
WakesAfterRest == (pc = "waiting" /\ ~rest) ~> pc # "waiting"

(***************************************************************************)
(* Every download is tried, and failing ones are given up after a bounded  *)
(* number of attempts, so that none keeps the rows behind it from their    *)
(* turn: unless a Get never returns, in the end no row with a client is    *)
(* due (lines 434, 472-487).                                               *)
(***************************************************************************)
EventuallyNoneDue ==
  []<>~InGet => <>[](\A row \in Rows : HasClient(row) => ~Fresh(row) /\ ~Interrupted(row))

(***************************************************************************)
(* "Resume interrupted download" (http_server.cpp:436), announced by       *)
(* "ezRemote: Resuming downloads" (main.cpp:47): a download that rest mode *)
(* interrupted is taken up again.                                          *)
(***************************************************************************)
InterruptedIsResumed ==
  \A j \in Jobs :
    (~Working /\ \E row \in Rows : row.job = j /\ row.state = "RESUMED") ~>
      (Working /\ temp_file = j) \/ ~\E row \in Rows : row.job = j /\ row.state = "RESUMED"

(***************************************************************************)
(* "the download thread erases flagged rows between passes so the deque is *)
(* never mutated from a request handler" (config.h:63-64): while the thread*)
(* is in its unlocked erase loop, nobody else changes the deque.           *)
(***************************************************************************)
DequeOnlyChangedByThread ==
  [][pc = "erase" /\ pc' = "erase" => Len(list') = Len(list)]_<<list, pc>>
=============================================================================
