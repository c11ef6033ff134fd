---------------------------- MODULE InstallStore ----------------------------
(***************************************************************************)
(* The package install store: what /store_bg_install_data keeps about a    *)
(* package, the file it is saved in (config.cpp:81-193) and what           *)
(* /bg_install finds after the server was started again.                   *)
(*                                                                         *)
(* The file is external: while json_object_to_file writes it, it holds     *)
(* nothing json_object_from_file accepts.  A process that ends there, or   *)
(* a disk that is full, leaves it that way.  AES and Base64 are a seal     *)
(* only Decrypt removes, but a short password overruns the buffer it is    *)
(* encrypted in.  The clock is the system's, may be set back, and counts   *)
(* PerSecond units of tv_usec in a second.                                 *)
(***************************************************************************)
EXTENDS Integers, Sequences

CONSTANTS
  Handlers,   (* worker threads of the server                               *)
  Hashes,
  Hosts,      (* host_info: [type, http_server_type, password]              *)
  Short,      (* passwords shorter than half a block of the cipher          *)
  Word,       (* values of an unsigned 64-bit integer                       *)
  Retention,  (* MAX_PKG_HISTORY_RETENTION                                  *)
  PerSecond,
  Files,      (* what the file may hold when the server first starts        *)
  MaxClock,   (* bound: the clock                                           *)
  MaxStores,  (* bound: requests                                            *)
  MaxCrashes  (* bound: restarts                                            *)

ASSUME StoreBounds ==
  /\ Retention \in Nat /\ MaxClock \in Nat /\ Word \in Nat \ {0} /\ PerSecond \in Nat \ {0}

ASSUME StoreFiles ==
  \A f \in Files : f.torn \in BOOLEAN /\ \A h \in DOMAIN f.items : f.items[h].timestamp \in Nat

VARIABLES
  history,    (* pkg_install_history                                        *)
  file,       (* PKG_INSTALL_HISTORY_PATH: torn, or what it holds           *)
  up,
  clock, latest, (* the clock, and the latest time it or a save has shown  *)
  tick,       (* the static timeval of GetTick in http_server.cpp           *)
  save_tick,  (* the one in config.cpp                                      *)
  pc, req,    (* per handler: where it is and what it stores                *)
  log,        (* per hash: what was added to the store, in order            *)
  kept,       (* per hash: the last entry of log that was answered          *)
  spoiled,    (* hashes a fault outside the store's control may have lost   *)
  stores, crashes

vars == <<history, file, up, clock, latest, tick, save_tick, pc, req, log, kept, spoiled, stores, crashes>>

Empty == [h \in {} |-> 0]
NoRequest == [hash |-> "none", host |-> "none", sec |-> 0, usec |-> 0, at |-> 0]
Put(f, h, e) == [x \in DOMAIN f \union {h} |-> IF x = h THEN e ELSE f[x]]

-----------------------------------------------------------------------------
(***************************************************************************)
(* An entry as SavePackageInstallHostData writes and                       *)
(* LoadPackageInstallHostData reads it.                                    *)
(***************************************************************************)
OpensslEncrypt(text) == [sealed |-> TRUE, text |-> text]
OpensslDecrypt(cipher) == [ret |-> cipher.sealed, text |-> IF cipher.sealed THEN cipher.text ELSE ""]

Encrypt(password) == [base64 |-> TRUE, cipher |-> OpensslEncrypt(password)]
Decrypt(saved) == IF saved.base64 THEN OpensslDecrypt(saved.cipher) ELSE [ret |-> FALSE, text |-> ""]

(* A password written by hand, which may look like Base64.                 *)
Plain(password, base64) == [base64 |-> base64, cipher |-> [sealed |-> FALSE, text |-> password]]

(* A text that is no encrypted password is taken as it is.                 *)
Password(saved) == IF Decrypt(saved).ret THEN Decrypt(saved).text ELSE saved.cipher.text

(* Only an HTTP host has its http_server_type written and read.            *)
ServerType(host) == IF host.type = "http" THEN host.http_server_type ELSE ""

\* Fault: the kind of HTTP server is not written.
SaveEntryWithoutServer(e) ==
  [type |-> e.host.type, http_server_type |-> "", timestamp |-> e.timestamp,
   password |-> IF e.host.password = "" THEN Plain("", FALSE) ELSE Encrypt(e.host.password)]
SaveEntry(e) ==
  [type |-> e.host.type, http_server_type |-> ServerType(e.host), timestamp |-> e.timestamp,
   password |-> IF e.host.password = "" THEN Plain("", FALSE) ELSE Encrypt(e.host.password)]

LoadEntry(s) ==
  [host |-> [type |-> s.type, http_server_type |-> ServerType(s), password |-> Password(s.password)],
   timestamp |-> s.timestamp]

(* What a transfer makes of an entry.                                      *)
Use(e) == [type |-> e.host.type, http_server_type |-> ServerType(e.host), password |-> e.host.password]

(* The age is an unsigned difference.                                      *)
Age(now, e) == (now - e.timestamp) % Word
Retained(now) == {h \in DOMAIN history : Age(now, history[h]) < Retention}

-----------------------------------------------------------------------------
Torn == [torn |-> TRUE, items |-> Empty]
Holds(items) == [torn |-> FALSE, items |-> items]
Load(f) == IF f.torn THEN Empty ELSE [h \in DOMAIN f.items |-> LoadEntry(f.items[h])]

Init ==
  /\ file \in Files /\ history = Load(file) /\ up = TRUE
  /\ clock = 0 /\ latest = 0 /\ tick = 0 /\ save_tick = 0
  /\ pc = [t \in Handlers |-> "idle"] /\ req = [t \in Handlers |-> NoRequest]
  /\ log = [h \in Hashes |-> IF h \in DOMAIN history THEN <<history[h]>> ELSE <<>>]
  /\ kept = [h \in Hashes |-> Len(log[h])]
  /\ spoiled = {} /\ stores = 0 /\ crashes = 0

(* pkg_mutex_ is held from before a save reads the time.                   *)
Timing(t) == pc[t] \in {"time", "time sec", "time usec", "drop"}
Locked == \E t \in Handlers : Timing(t) \/ pc[t] = "saving"

Step(t, from, to) == up /\ pc[t] = from /\ pc' = [pc EXCEPT ![t] = to]

(* A request with a url and a hash asks for the time; one without, or      *)
(* without JSON, is answered and changes nothing but the timeval.          *)
Store(t) ==
  /\ stores < MaxStores /\ stores' = stores + 1 /\ tick' = clock
  /\ \/ \E h \in Hashes, host \in Hosts :
          Step(t, "idle", "tick") /\ req' = [req EXCEPT ![t].hash = h, ![t].host = host]
     \/ Step(t, "idle", "idle") /\ UNCHANGED req
  /\ UNCHANGED <<history, file, up, clock, latest, save_tick, log, kept, spoiled, crashes>>

(* GetTick returns the two fields of its timeval, read one by one.         *)
ReadFields(t, timeval, from, sec, usec, to) ==
  \/ Step(t, from, usec) /\ req' = [req EXCEPT ![t].sec = timeval \div PerSecond]
  \/ Step(t, from, sec) /\ req' = [req EXCEPT ![t].usec = timeval % PerSecond]
  \/ Step(t, usec, to) /\ req' = [req EXCEPT ![t].usec = timeval % PerSecond]
  \/ Step(t, sec, to) /\ req' = [req EXCEPT ![t].sec = timeval \div PerSecond]

(* A request's time: all handlers share the timeval.                       *)
ReadTick(t) ==
  /\ ReadFields(t, tick, "tick", "sec", "usec", "add")
  /\ UNCHANGED <<history, file, up, clock, latest, tick, save_tick, log, kept, spoiled, stores, crashes>>

AddPackageInstallHostData(t) ==
  LET h == req[t].hash
      e == [host |-> req[t].host, timestamp |-> req[t].sec * PerSecond + req[t].usec] IN
  /\ Step(t, "add", "save") /\ ~Locked
  /\ history' = Put(history, h, e)
  /\ log' = [log EXCEPT ![h] = Append(@, e)]
  /\ req' = [req EXCEPT ![t] = [NoRequest EXCEPT !.hash = h, !.at = Len(log[h]) + 1]]
  /\ UNCHANGED <<file, up, clock, latest, tick, save_tick, kept, spoiled, stores, crashes>>

(* The time of a save: the saves of the download list, which hold another  *)
(* mutex, share the timeval.  They are followed while a save reads it.     *)
BeginSave(t) ==
  /\ Step(t, "save", "time") /\ ~Locked
  /\ save_tick' = clock
  /\ UNCHANGED <<history, file, up, clock, latest, tick, req, log, kept, spoiled, stores, crashes>>

ReadSaveTick(t) ==
  /\ ReadFields(t, save_tick, "time", "time sec", "time usec", "drop")
  /\ UNCHANGED <<history, file, up, clock, latest, tick, save_tick, log, kept, spoiled, stores, crashes>>

SaveBgDownloadData ==
  /\ up /\ \E t \in Handlers : pc[t] \in {"time", "time sec", "time usec"}
  /\ save_tick' = clock
  /\ UNCHANGED <<history, file, up, clock, latest, tick, pc, req, log, kept, spoiled, stores, crashes>>

(* The save drops what is too old, and opens and truncates the file.       *)
SavePackageInstallHostData(t) ==
  LET now == req[t].sec * PerSecond + req[t].usec IN
  /\ Step(t, "drop", "saving")
  /\ req' = [req EXCEPT ![t].sec = 0, ![t].usec = 0]
  /\ history' = [h \in Retained(now) |-> history[h]]
  /\ latest' = IF now > latest THEN now ELSE latest
  /\ file' = Torn
  /\ spoiled' = spoiled \union {h \in DOMAIN history : history[h].timestamp > now}
  /\ UNCHANGED <<up, clock, tick, save_tick, log, kept, stores, crashes>>

Answered(t) == [kept EXCEPT ![req[t].hash] = IF @ > req[t].at THEN @ ELSE req[t].at]

(* Encrypt gives AES a buffer of twice the length: for a short password    *)
(* the block overruns it, and what is saved may be anything.               *)
Overrun == {h \in DOMAIN history : history[h].host.password \in Short}
Garbled(s) == [s EXCEPT !.password = Plain("garbled", TRUE)]

Saved(t) ==
  /\ Step(t, "saving", "idle")
  /\ \E broken \in SUBSET Overrun :
       /\ file' = Holds([h \in DOMAIN history |->
                           IF h \in broken THEN Garbled(SaveEntry(history[h])) ELSE SaveEntry(history[h])])
       /\ spoiled' = spoiled \union broken
  /\ kept' = Answered(t) /\ req' = [req EXCEPT ![t] = NoRequest]
  /\ UNCHANGED <<history, up, clock, latest, tick, save_tick, log, stores, crashes>>

(* The result of json_object_to_file is not looked at.                     *)
SaveFails(t) ==
  /\ Step(t, "saving", "idle")
  /\ spoiled' = Hashes
  /\ kept' = Answered(t) /\ req' = [req EXCEPT ![t] = NoRequest]
  /\ UNCHANGED <<history, file, up, clock, latest, tick, save_tick, log, stores, crashes>>

-----------------------------------------------------------------------------
Crash ==
  /\ up /\ up' = FALSE /\ crashes < MaxCrashes /\ crashes' = crashes + 1
  /\ history' = Empty /\ pc' = [t \in Handlers |-> "idle"] /\ req' = [t \in Handlers |-> NoRequest]
  /\ spoiled' = IF file.torn THEN Hashes ELSE spoiled
  /\ UNCHANGED <<file, clock, latest, tick, save_tick, log, kept, stores>>

LoadPackageInstallHostData ==
  /\ ~up /\ up' = TRUE /\ history' = Load(file)
  /\ UNCHANGED <<file, clock, latest, tick, save_tick, pc, req, log, kept, spoiled, stores, crashes>>

Clock ==
  /\ \/ clock < MaxClock /\ clock' = clock + 1
     \/ clock > 0 /\ clock' = clock - 1
  /\ latest' = IF clock' > latest THEN clock' ELSE latest
  /\ UNCHANGED <<history, file, up, tick, save_tick, pc, req, log, kept, spoiled, stores, crashes>>

Next ==
  \/ \E t \in Handlers :
       \/ Store(t) \/ ReadTick(t) \/ AddPackageInstallHostData(t) \/ BeginSave(t)
       \/ ReadSaveTick(t) \/ SavePackageInstallHostData(t) \/ Saved(t) \/ SaveFails(t)
  \/ SaveBgDownloadData \/ Crash \/ LoadPackageInstallHostData \/ Clock
Spec == Init /\ [][Next]_vars

-----------------------------------------------------------------------------
(***************************************************************************)
(* A package whose /store_bg_install_data was answered is found by         *)
(* /bg_install, also after a crash and a restart, with what was stored     *)
(* then or by a later request, and never with an older host or another     *)
(* password, until it is Retention old.  Excepted are                      *)
(*   - the packages a torn or failed write takes with it;                  *)
(*   - those stamped ahead of the time a save reads, because the clock was *)
(*     set back or because one of the two times mixes the fields of two    *)
(*     readings (config.cpp:157, 262): the unsigned age wraps, and they    *)
(*     are dropped (config.cpp:161);                                       *)
(*   - those whose short password overran its buffer in a save             *)
(*     (config.cpp:45).                                                    *)
(* A time that mixes two readings may also be late, by less than a second; *)
(* "Retention old" is at the latest time the clock or a save has shown.    *)
(***************************************************************************)
StoredIsFound ==
  \A h \in Hashes \ spoiled :
    LET possible == {log[h][i] : i \in kept[h]..Len(log[h])} IN
    up /\ kept[h] > 0 /\ (\A e \in possible : latest - e.timestamp < Retention) =>
      h \in DOMAIN history /\ Use(history[h]) \in {Use(e) : e \in possible}
=============================================================================
