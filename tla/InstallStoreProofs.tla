-------------------------- MODULE InstallStoreProofs --------------------------
(***************************************************************************)
(* Proofs about InstallStore, for any number of handlers, packages,        *)
(* requests and restarts, any retention and any clock: what was answered   *)
(* is found.                                                               *)
(***************************************************************************)
EXTENDS InstallStore, TLAPS

(* The hosts that may be in the store, and its entries. *)
Known == Hosts \cup UNION {{LoadEntry(f.items[h]).host : h \in DOMAIN f.items} : f \in Files}
Entries == [host : Known, timestamp : Nat]
Asked == [hash : Hashes \cup {"none"}, host : Hosts \cup {"none"}, sec : Nat, usec : Nat, at : Nat]
Asking == {"tick", "sec", "usec", "add"}
Saving == {"time", "time sec", "time usec", "drop"}
Labels == {"idle", "save", "saving"} \cup Asking \cup Saving

(* The clock never shows more than the latest time shown, and times are    *)
(* not negative.                                                           *)
Times ==
  /\ clock \in 0..MaxClock /\ latest \in Nat /\ clock <= latest /\ tick \in Nat /\ save_tick \in Nat
  /\ \A h \in DOMAIN history : history[h].timestamp \in Nat
  /\ file.torn \in BOOLEAN /\ \A h \in DOMAIN file.items : file.items[h].timestamp \in Nat

(* A handler that stores knows what, and one that saves what it added. *)
Adds(t) == pc[t] \in {"save", "saving"} \cup Saving
Storing ==
  /\ up \in BOOLEAN /\ pc \in [Handlers -> Labels] /\ req \in [Handlers -> Asked]
  /\ log \in [Hashes -> Seq(Entries)] /\ kept \in [Hashes -> Nat]
  /\ \A h \in Hashes : kept[h] <= Len(log[h])
  /\ ~up => \A t \in Handlers : pc[t] = "idle"
  /\ \A t \in Handlers :
       /\ pc[t] # "idle" => req[t].hash \in Hashes
       /\ pc[t] \in Asking => req[t].host \in Hosts
       /\ Adds(t) => req[t].at \in 1..Len(log[req[t].hash])

(* The store has what was stored by the request i, or it was too old once. *)
Same(e, f) == Use(e) = Use(f) /\ e.timestamp = f.timestamp
Old(e) == latest - e.timestamp >= Retention
Found(items, h, e) == (h \in DOMAIN items /\ Same(items[h], e)) \/ Old(e)

(* Neither an answered request nor one that is being saved is newer.       *)
Recent(h, i) ==
  /\ i >= kept[h]
  /\ \A t \in Handlers : Adds(t) /\ req[t].hash = h => i >= req[t].at

Wanted(h) == kept[h] > 0 \/ \E t \in Handlers : Adds(t) /\ req[t].hash = h
HistoryOK ==
  up => \A h \in Hashes \ spoiled :
          Wanted(h) => \E i \in 1..Len(log[h]) : Recent(h, i) /\ Found(history, h, log[h][i])

(* The file has what was answered, unless it is torn. *)
FileOK ==
  /\ ~file.torn => \A h \in Hashes \ spoiled :
       kept[h] > 0 => \E i \in 1..Len(log[h]) : i >= kept[h] /\ Found(Load(file), h, log[h][i])
  /\ ~up /\ file.torn => Hashes \subseteq spoiled

Inv == Times /\ Storing /\ HistoryOK /\ FileOK

-----------------------------------------------------------------------------
(* An entry that was saved and loaded is used like the one that was saved, *)
(* with its password, and has its age.                                     *)
LEMMA RoundTrip ==
  ASSUME NEW e
  PROVE  /\ Same(LoadEntry(SaveEntry(e)), e)
         /\ SaveEntry(e).timestamp = e.timestamp
<1> DEFINE s == SaveEntry(e)
           l == LoadEntry(s)
<1>1. s.type = e.host.type /\ s.http_server_type = ServerType(e.host) /\ s.timestamp = e.timestamp
  BY DEF SaveEntry
<1>2. Password(s.password) = e.host.password
  <2>1. CASE e.host.password = ""
    <3>1. s.password = Plain("", FALSE)
      BY <2>1 DEF SaveEntry
    <3>2. Password(Plain("", FALSE)) = ""
      BY DEF Password, Decrypt, Plain
    <3> QED
      BY <2>1, <3>1, <3>2
  <2>2. CASE e.host.password # ""
    <3>1. s.password = Encrypt(e.host.password)
      BY <2>2 DEF SaveEntry
    <3> QED
      BY <3>1 DEF Password, Decrypt, Encrypt, OpensslDecrypt, OpensslEncrypt
  <2> QED
    BY <2>1, <2>2
<1>3. /\ l.host.type = s.type /\ l.host.http_server_type = ServerType(s)
      /\ l.host.password = Password(s.password) /\ l.timestamp = s.timestamp
  BY DEF LoadEntry
<1> HIDE DEF s, l
<1>4. ServerType(l.host) = ServerType(e.host)
  BY <1>1, <1>3 DEF ServerType
<1>5. Use(l) = Use(e)
  BY <1>1, <1>2, <1>3, <1>4 DEF Use
<1> QED
  BY <1>1, <1>3, <1>5 DEF Same, s, l

(* What is too old stays so: the latest time only grows. *)
LEMMA StaysOld ==
  ASSUME NEW n \in Nat, NEW then \in Nat, NEW now \in Nat, then <= now, then - n >= Retention
  PROVE  now - n >= Retention
<1>1. Retention \in Nat
  BY StoreBounds
<1> QED
  BY <1>1

LEMMA InitInv == Init => Inv
<1> SUFFICES ASSUME Init PROVE Inv
  OBVIOUS
<1>1. file \in Files /\ history = Load(file)
  BY DEF Init
<1>2. \A h \in DOMAIN history :
        ~file.torn /\ h \in DOMAIN file.items /\ history[h] = LoadEntry(file.items[h])
  <2>1. CASE file.torn
    BY <1>1, <2>1 DEF Load, Empty
  <2>2. CASE ~file.torn
    BY <1>1, <2>2 DEF Load
  <2> QED
    BY <2>1, <2>2
<1>3. \A h \in DOMAIN history : history[h] \in Entries
  <2> SUFFICES ASSUME NEW h \in DOMAIN history PROVE history[h] \in Entries
    OBVIOUS
  <2>1. LoadEntry(file.items[h]).host \in Known
    BY <1>1, <1>2 DEF Known
  <2>2. LoadEntry(file.items[h]).timestamp \in Nat
    BY <1>1, <1>2, StoreFiles DEF LoadEntry
  <2>3. LoadEntry(file.items[h]) = [host |-> LoadEntry(file.items[h]).host,
                                    timestamp |-> LoadEntry(file.items[h]).timestamp]
    BY DEF LoadEntry
  <2> QED
    BY <1>2, <2>1, <2>2, <2>3 DEF Entries
<1>4. Times
  <2>1. \A h \in DOMAIN history : history[h].timestamp \in Nat
    BY <1>3 DEF Entries
  <2> QED
    BY <1>1, <2>1, StoreFiles, StoreBounds DEF Times, Init
<1>5. ASSUME NEW h \in Hashes
      PROVE  /\ log[h] \in Seq(Entries) /\ kept[h] = Len(log[h]) /\ kept[h] \in Nat
             /\ kept[h] > 0 => h \in DOMAIN history /\ Len(log[h]) = 1 /\ log[h][1] = history[h]
  <2>1. log[h] = (IF h \in DOMAIN history THEN <<history[h]>> ELSE <<>>) /\ kept[h] = Len(log[h])
    BY DEF Init
  <2>2. CASE h \in DOMAIN history
    <3>1. history[h] \in Entries /\ log[h] = <<history[h]>>
      BY <1>3, <2>1, <2>2
    <3> QED
      BY <2>1, <2>2, <3>1
  <2>3. CASE h \notin DOMAIN history
    BY <2>1, <2>3
  <2> QED
    BY <2>2, <2>3
<1>6. Storing
  <2>1. NoRequest \in Asked
    BY DEF NoRequest, Asked
  <2>2. req \in [Handlers -> Asked] /\ pc \in [Handlers -> Labels] /\ \A t \in Handlers : pc[t] = "idle"
    BY <2>1 DEF Init, Labels
  <2>3. log \in [Hashes -> Seq(Entries)]
    <3>1. log = [h \in Hashes |-> log[h]]
      BY DEF Init
    <3> QED
      BY <1>5, <3>1
  <2>4. kept \in [Hashes -> Nat]
    <3>1. kept = [h \in Hashes |-> kept[h]]
      BY DEF Init
    <3> QED
      BY <1>5, <3>1
  <2>5. \A h \in Hashes : kept[h] <= Len(log[h])
    BY <1>5
  <2> QED
    BY <2>2, <2>3, <2>4, <2>5 DEF Storing, Adds, Saving, Asking, Init
<1>7. ASSUME NEW h \in Hashes, kept[h] > 0
      PROVE  1 \in 1..Len(log[h]) /\ 1 >= kept[h] /\ Found(history, h, log[h][1])
  <2>1. h \in DOMAIN history /\ Len(log[h]) = 1 /\ log[h][1] = history[h] /\ kept[h] = 1
    BY <1>5, <1>7
  <2>2. Found(history, h, log[h][1])
    BY <2>1 DEF Found, Same
  <2>3. 1 \in 1..Len(log[h])
    BY <2>1
  <2> QED
    BY <2>1, <2>2, <2>3
<1>8. \A t \in Handlers : ~Adds(t)
  BY DEF Init, Adds, Saving
<1>9. HistoryOK
  BY <1>7, <1>8 DEF HistoryOK, Wanted, Recent
<1>10. FileOK
  BY <1>1, <1>7 DEF FileOK, Init
<1> QED
  BY <1>4, <1>6, <1>9, <1>10 DEF Inv

-----------------------------------------------------------------------------
(* Steps that leave the store and its file alone. *)
LEMMA Keeps ==
  ASSUME Inv, UNCHANGED <<history, file, up, log, kept, spoiled>>,
         latest' \in Nat, latest <= latest',
         \A t \in Handlers : Adds(t)' => Adds(t) /\ req'[t].hash = req[t].hash /\ req'[t].at = req[t].at
  PROVE  HistoryOK' /\ FileOK'
<1>1. ASSUME NEW h \in Hashes, NEW i \in 1..Len(log[h]), NEW items, Found(items, h, log[h][i])
      PROVE  (h \in DOMAIN items /\ Same(items[h], log[h][i])) \/ latest' - log[h][i].timestamp >= Retention
  <2>1. log[h] \in Seq(Entries)
    BY DEF Inv, Storing
  <2>2. log[h][i] \in Entries
    BY <2>1
  <2>3. log[h][i].timestamp \in Nat
    BY <2>2 DEF Entries
  <2>4. latest \in Nat
    BY DEF Inv, Times
  <2> QED
    BY <1>1, <2>3, <2>4, StaysOld DEF Found, Old
<1>2. HistoryOK'
  <2> SUFFICES ASSUME up', NEW h \in Hashes \ spoiled', Wanted(h)'
               PROVE  (\E i \in 1..Len(log[h]) : Recent(h, i) /\ Found(history, h, log[h][i]))'
    BY DEF HistoryOK
  <2>1. Wanted(h)
    BY DEF Wanted
  <2>2. PICK i \in 1..Len(log[h]) : Recent(h, i) /\ Found(history, h, log[h][i])
    BY <2>1 DEF Inv, HistoryOK
  <2>3. Recent(h, i)'
    BY <2>2 DEF Recent
  <2>4. Found(history, h, log[h][i])'
    BY <1>1, <2>2 DEF Found, Old
  <2> QED
    BY <2>2, <2>3, <2>4
<1>3. FileOK'
  <2>1. ASSUME ~file'.torn, NEW h \in Hashes \ spoiled', kept'[h] > 0
        PROVE  (\E i \in 1..Len(log[h]) : i >= kept[h] /\ Found(Load(file), h, log[h][i]))'
    <3>1. PICK i \in 1..Len(log[h]) : i >= kept[h] /\ Found(Load(file), h, log[h][i])
      BY <2>1 DEF Inv, FileOK
    <3>2. Load(file)' = Load(file)
      BY DEF Load
    <3>3. Found(Load(file), h, log[h][i])'
      BY <1>1, <3>1, <3>2 DEF Found, Old
    <3> QED
      BY <3>1, <3>3
  <2>2. ~up' /\ file'.torn => Hashes \subseteq spoiled'
    BY DEF Inv, FileOK
  <2> QED
    BY <2>1, <2>2 DEF FileOK
<1> QED
  BY <1>2, <1>3

LEMMA StoreInv ==
  ASSUME Inv, NEW t \in Handlers, Store(t)
  PROVE  Inv'
<1>1. /\ UNCHANGED <<history, file, up, clock, latest, save_tick, log, kept, spoiled>> /\ tick' = clock /\ up
      /\ pc[t] = "idle"
  BY DEF Store, Step
<1>2. Times'
  BY <1>1 DEF Inv, Times
<1>3. \A u \in Handlers : u # t => pc'[u] = pc[u] /\ req'[u] = req[u]
  BY DEF Store, Step, Inv, Storing
<1>4. CASE \E h \in Hashes, host \in Hosts :
        Step(t, "idle", "tick") /\ req' = [req EXCEPT ![t].hash = h, ![t].host = host]
  <2>1. PICK h \in Hashes, host \in Hosts :
          Step(t, "idle", "tick") /\ req' = [req EXCEPT ![t].hash = h, ![t].host = host]
    BY <1>4
  <2>2. req[t] \in Asked /\ req \in [Handlers -> Asked]
    BY DEF Inv, Storing
  <2>3. req'[t] = [req[t] EXCEPT !.hash = h, !.host = host] /\ req' = [req EXCEPT ![t] = req'[t]]
    BY <2>1, <2>2
  <2>4. req'[t] \in Asked /\ req'[t].hash = h /\ req'[t].host = host
    BY <2>2, <2>3 DEF Asked
  <2>5. req' \in [Handlers -> Asked]
    BY <2>2, <2>3, <2>4
  <2>6. pc' \in [Handlers -> Labels] /\ pc'[t] = "tick"
    BY <2>1 DEF Step, Labels, Asking, Inv, Storing
  <2>7. Storing'
    BY <1>1, <1>3, <2>4, <2>5, <2>6 DEF Inv, Storing, Adds, Saving
  <2>8. HistoryOK' /\ FileOK'
    <3>1. \A u \in Handlers : Adds(u)' => Adds(u) /\ req'[u].hash = req[u].hash /\ req'[u].at = req[u].at
      BY <1>3, <2>6 DEF Adds, Saving
    <3>2. latest' \in Nat /\ latest <= latest'
      BY <1>1 DEF Inv, Times
    <3> QED
      BY <1>1, <3>1, <3>2, Keeps
  <2> QED
    BY <1>2, <2>7, <2>8 DEF Inv
<1>5. CASE Step(t, "idle", "idle") /\ UNCHANGED req
  <2>1. pc' = pc
    BY <1>5 DEF Step, Inv, Storing
  <2>2. Storing'
    BY <1>1, <1>5, <2>1 DEF Inv, Storing, Adds
  <2>3. HistoryOK' /\ FileOK'
    <3>1. \A u \in Handlers : Adds(u)' => Adds(u) /\ req'[u].hash = req[u].hash /\ req'[u].at = req[u].at
      BY <1>5, <2>1 DEF Adds
    <3>2. latest' \in Nat /\ latest <= latest'
      BY <1>1 DEF Inv, Times
    <3> QED
      BY <1>1, <3>1, <3>2, Keeps
  <2> QED
    BY <1>2, <2>2, <2>3 DEF Inv
<1> QED
  BY <1>4, <1>5 DEF Store

(* Reading a field of a timeval. *)
LEMMA ReadFieldsInv ==
  ASSUME Inv, NEW t \in Handlers, NEW timeval \in Nat, NEW L \in {Asking, Saving},
         NEW from \in L, NEW sec \in L, NEW usec \in L, NEW to \in L,
         ReadFields(t, timeval, from, sec, usec, to),
         UNCHANGED <<history, file, up, clock, latest, tick, save_tick, log, kept, spoiled>>
  PROVE  Inv'
<1>1. UNCHANGED <<history, file, up, clock, latest, tick, save_tick, log, kept, spoiled>> /\ up
  BY DEF ReadFields, Step
<1>2. Times'
  BY <1>1 DEF Inv, Times
<1>3. timeval \div PerSecond \in Nat /\ timeval % PerSecond \in Nat
  BY StoreBounds
<1>4. req[t] \in Asked /\ req \in [Handlers -> Asked] /\ pc \in [Handlers -> Labels]
  BY DEF Inv, Storing
<1>5. pc[t] \in L /\ \E next \in L : pc' = [pc EXCEPT ![t] = next]
  BY DEF ReadFields, Step
<1>6. \/ req' = [req EXCEPT ![t].sec = timeval \div PerSecond]
      \/ req' = [req EXCEPT ![t].usec = timeval % PerSecond]
  BY DEF ReadFields
<1>7. /\ req' \in [Handlers -> Asked] /\ req'[t].hash = req[t].hash /\ req'[t].host = req[t].host
      /\ req'[t].at = req[t].at
  <2>1. CASE req' = [req EXCEPT ![t].sec = timeval \div PerSecond]
    BY <1>3, <1>4, <2>1 DEF Asked
  <2>2. CASE req' = [req EXCEPT ![t].usec = timeval % PerSecond]
    BY <1>3, <1>4, <2>2 DEF Asked
  <2> QED
    BY <1>6, <2>1, <2>2
<1>8. \A u \in Handlers : u # t => pc'[u] = pc[u] /\ req'[u] = req[u]
  BY <1>4, <1>5, <1>6
<1>9. pc' \in [Handlers -> Labels] /\ pc'[t] \in L /\ pc[t] # "idle"
  BY <1>4, <1>5 DEF Labels, Asking, Saving
<1>10. /\ pc'[t] \in Asking => pc[t] \in Asking
       /\ Adds(t)' => Adds(t)
  BY <1>5, <1>9 DEF Adds, Asking, Saving
<1>11. \A u \in Handlers : Adds(u)' => Adds(u) /\ req'[u].hash = req[u].hash /\ req'[u].at = req[u].at
  BY <1>7, <1>8, <1>10 DEF Adds
<1>12. Storing'
  <2>1. ASSUME NEW u \in Handlers
        PROVE  /\ pc'[u] # "idle" => req'[u].hash \in Hashes
               /\ pc'[u] \in Asking => req'[u].host \in Hosts
               /\ Adds(u)' => req'[u].at \in 1..Len(log'[req'[u].hash])
    <3>1. CASE u = t
      BY <1>1, <1>7, <1>9, <1>10, <3>1 DEF Inv, Storing
    <3>2. CASE u # t
      BY <1>1, <1>8, <1>11, <3>2 DEF Inv, Storing
    <3> QED
      BY <3>1, <3>2
  <2> QED
    BY <1>1, <1>7, <1>9, <2>1 DEF Inv, Storing
<1>13. HistoryOK' /\ FileOK'
  <2>1. latest' \in Nat /\ latest <= latest'
    BY <1>1 DEF Inv, Times
  <2> QED
    BY <1>1, <1>11, <2>1, Keeps
<1> QED
  BY <1>2, <1>12, <1>13 DEF Inv

LEMMA ReadTickInv ==
  ASSUME Inv, NEW t \in Handlers, ReadTick(t) \/ ReadSaveTick(t)
  PROVE  Inv'
<1>1. CASE ReadTick(t)
  <2>1. {"tick", "sec", "usec", "add"} \subseteq Asking /\ tick \in Nat
    BY DEF Asking, Inv, Times
  <2> QED
    BY <1>1, <2>1, ReadFieldsInv DEF ReadTick
<1>2. CASE ReadSaveTick(t)
  <2>1. {"time", "time sec", "time usec", "drop"} \subseteq Saving /\ save_tick \in Nat
    BY DEF Saving, Inv, Times
  <2> QED
    BY <1>2, <2>1, ReadFieldsInv DEF ReadSaveTick
<1> QED
  BY <1>1, <1>2

(* A save begins with the time, which the saves of the download list share. *)
LEMMA BeginSaveInv ==
  ASSUME Inv, NEW t \in Handlers, BeginSave(t)
  PROVE  Inv'
<1>1. /\ up /\ pc[t] = "save" /\ pc' = [pc EXCEPT ![t] = "time"] /\ save_tick' = clock
      /\ UNCHANGED <<history, file, up, clock, latest, tick, req, log, kept, spoiled>>
  BY DEF BeginSave, Step
<1>2. Times'
  BY <1>1 DEF Inv, Times
<1>3. /\ pc' \in [Handlers -> Labels] /\ pc'[t] = "time" /\ \A u \in Handlers : u # t => pc'[u] = pc[u]
  BY <1>1 DEF Inv, Storing, Labels, Saving
<1>4. \A u \in Handlers : Adds(u)' <=> Adds(u)
  BY <1>1, <1>3 DEF Adds, Saving
<1>5. Storing'
  <2>1. pc'[t] \notin Asking
    BY <1>3 DEF Asking
  <2>2. pc[t] # "idle"
    BY <1>1
  <2> QED
    BY <1>1, <1>3, <1>4, <2>1, <2>2 DEF Inv, Storing
<1>6. HistoryOK' /\ FileOK'
  <2>1. latest' \in Nat /\ latest <= latest'
    BY <1>1 DEF Inv, Times
  <2> QED
    BY <1>1, <1>4, <2>1, Keeps
<1> QED
  BY <1>2, <1>5, <1>6 DEF Inv

LEMMA SaveBgDownloadDataInv ==
  ASSUME Inv, SaveBgDownloadData
  PROVE  Inv'
<1>1. save_tick' = clock /\ UNCHANGED <<history, file, up, clock, latest, tick, pc, req, log, kept, spoiled>>
  BY DEF SaveBgDownloadData
<1>2. Times' /\ Storing'
  BY <1>1 DEF Inv, Times, Storing, Adds
<1>3. HistoryOK' /\ FileOK'
  <2>1. \A u \in Handlers : Adds(u)' => Adds(u) /\ req'[u].hash = req[u].hash /\ req'[u].at = req[u].at
    BY <1>1 DEF Adds
  <2>2. latest' \in Nat /\ latest <= latest'
    BY <1>1 DEF Inv, Times
  <2> QED
    BY <1>1, <2>1, <2>2, Keeps
<1> QED
  BY <1>2, <1>3 DEF Inv

LEMMA ClockInv ==
  ASSUME Inv, Clock
  PROVE  Inv'
<1>1. UNCHANGED <<history, file, up, tick, save_tick, pc, req, log, kept, spoiled>>
  BY DEF Clock
<1>2. clock' \in 0..MaxClock /\ latest' \in Nat /\ clock' <= latest' /\ latest <= latest'
  BY StoreBounds DEF Clock, Inv, Times
<1>3. Times'
  BY <1>1, <1>2 DEF Inv, Times
<1>4. Storing'
  BY <1>1 DEF Inv, Storing, Adds
<1>5. HistoryOK' /\ FileOK'
  <2>1. \A u \in Handlers : Adds(u)' => Adds(u) /\ req'[u].hash = req[u].hash /\ req'[u].at = req[u].at
    BY <1>1 DEF Adds
  <2> QED
    BY <1>1, <1>2, <2>1, Keeps
<1> QED
  BY <1>3, <1>4, <1>5 DEF Inv

LEMMA StutterInv ==
  ASSUME Inv, UNCHANGED vars
  PROVE  Inv'
<1>1. /\ UNCHANGED <<history, file, up, clock, latest, tick, save_tick, pc>>
      /\ UNCHANGED <<req, log, kept, spoiled>>
  BY DEF vars
<1>2. Times' /\ Storing'
  BY <1>1 DEF Inv, Times, Storing, Adds
<1>3. HistoryOK' /\ FileOK'
  <2>1. \A u \in Handlers : Adds(u)' => Adds(u) /\ req'[u].hash = req[u].hash /\ req'[u].at = req[u].at
    BY <1>1 DEF Adds
  <2>2. latest' \in Nat /\ latest <= latest'
    BY <1>1 DEF Inv, Times
  <2> QED
    BY <1>1, <2>1, <2>2, Keeps
<1> QED
  BY <1>2, <1>3 DEF Inv

-----------------------------------------------------------------------------
(* What a request adds is the newest entry of its package, in the history. *)
LEMMA AddInv ==
  ASSUME Inv, NEW t \in Handlers, AddPackageInstallHostData(t)
  PROVE  Inv'
<1> DEFINE h == req[t].hash
           e == [host |-> req[t].host, timestamp |-> req[t].sec * PerSecond + req[t].usec]
           r == [NoRequest EXCEPT !.hash = h, !.at = Len(log[h]) + 1]
<1>1. /\ up /\ pc[t] = "add" /\ pc' = [pc EXCEPT ![t] = "save"]
      /\ history' = Put(history, h, e) /\ log' = [log EXCEPT ![h] = Append(log[h], e)]
      /\ req' = [req EXCEPT ![t] = r]
      /\ UNCHANGED <<file, up, clock, latest, tick, save_tick, kept, spoiled>>
  BY DEF AddPackageInstallHostData, Step
<1>2. h \in Hashes /\ req[t] \in Asked /\ req[t].host \in Hosts
  BY <1>1 DEF Inv, Storing, Asking
<1>3. e \in Entries /\ e.timestamp \in Nat
  <2>1. req[t].sec \in Nat /\ req[t].usec \in Nat /\ PerSecond \in Nat
    BY <1>2, StoreBounds DEF Asked
  <2>2. req[t].sec * PerSecond + req[t].usec \in Nat
    BY <2>1
  <2>3. req[t].host \in Known
    BY <1>2 DEF Known
  <2> QED
    BY <2>2, <2>3 DEF Entries
<1>4. log \in [Hashes -> Seq(Entries)] /\ log[h] \in Seq(Entries) /\ Len(log[h]) \in Nat
  BY <1>2 DEF Inv, Storing
<1>5. r \in Asked /\ r.hash = h /\ r.at = Len(log[h]) + 1
  <2>1. NoRequest \in Asked
    BY DEF NoRequest, Asked
  <2>2. h \in Hashes /\ Len(log[h]) + 1 \in Nat
    BY <1>2, <1>4
  <2> HIDE DEF h
  <2> QED
    BY <2>1, <2>2 DEF Asked
<1>6. h \in DOMAIN history' /\ history'[h] = e
  BY <1>1 DEF Put
<1>7. \A g \in DOMAIN history : g # h => g \in DOMAIN history' /\ history'[g] = history[g]
  BY <1>1 DEF Put
<1>8. \A g \in DOMAIN history' : g = h \/ (g \in DOMAIN history /\ history'[g] = history[g])
  BY <1>1 DEF Put
<1> HIDE DEF h, e, r
<1>9. log' \in [Hashes -> Seq(Entries)] /\ log'[h] = Append(log[h], e)
  BY <1>1, <1>2, <1>3, <1>4
<1>10. Len(log'[h]) = Len(log[h]) + 1 /\ log'[h][Len(log[h]) + 1] = e
  BY <1>3, <1>4, <1>9
<1>11. ASSUME NEW g \in Hashes
       PROVE  /\ Len(log[g]) \in Nat /\ Len(log'[g]) \in Nat /\ Len(log[g]) <= Len(log'[g])
              /\ \A i \in 1..Len(log[g]) : log'[g][i] = log[g][i]
  <2>1. CASE g = h
    <3>1. \A i \in 1..Len(log[h]) : Append(log[h], e)[i] = log[h][i]
      BY <1>3, <1>4
    <3>2. \A i \in 1..Len(log[g]) : log'[g][i] = log[g][i]
      BY <1>9, <2>1, <3>1
    <3> QED
      BY <1>4, <1>10, <2>1, <3>2
  <2>2. CASE g # h
    <3>1. log'[g] = log[g] /\ log[g] \in Seq(Entries)
      BY <1>1, <1>4, <2>2
    <3> QED
      BY <3>1
  <2> QED
    BY <2>1, <2>2
<1>12. Times'
  <2>1. \A g \in DOMAIN history' : history'[g].timestamp \in Nat
    BY <1>3, <1>6, <1>8 DEF Inv, Times
  <2> QED
    BY <1>1, <2>1 DEF Inv, Times
<1>13. /\ pc' \in [Handlers -> Labels] /\ pc'[t] = "save" /\ req' \in [Handlers -> Asked] /\ req'[t] = r
       /\ \A u \in Handlers : u # t => pc'[u] = pc[u] /\ req'[u] = req[u]
  BY <1>1, <1>5 DEF Inv, Storing, Labels
<1>14. ASSUME NEW u \in Handlers
       PROVE  /\ pc'[u] # "idle" => req'[u].hash \in Hashes
              /\ pc'[u] \in Asking => req'[u].host \in Hosts
              /\ Adds(u)' => req'[u].at \in 1..Len(log'[req'[u].hash])
  <2>1. CASE u = t
    BY <1>2, <1>4, <1>5, <1>10, <1>13, <2>1 DEF Asking
  <2>2. CASE u # t
    <3>1. pc'[u] = pc[u] /\ req'[u] = req[u]
      BY <1>13, <2>2
    <3>2. Adds(u)' => Adds(u) /\ req[u].hash \in Hashes /\ req[u].at \in 1..Len(log[req[u].hash])
      BY <3>1 DEF Adds, Saving, Inv, Storing
    <3>3. Adds(u)' => req'[u].at \in 1..Len(log'[req'[u].hash])
      BY <1>11, <3>1, <3>2
    <3> QED
      BY <3>1, <3>3 DEF Inv, Storing
  <2> QED
    BY <2>1, <2>2
<1>15. Storing'
  <2>1. \A g \in Hashes : kept'[g] <= Len(log'[g])
    BY <1>1, <1>11 DEF Inv, Storing
  <2> QED
    BY <1>1, <1>9, <1>13, <1>14, <2>1 DEF Inv, Storing
<1>16. ASSUME NEW g \in Hashes \ spoiled', Wanted(g)'
       PROVE  (\E i \in 1..Len(log[g]) : Recent(g, i) /\ Found(history, g, log[g][i]))'
  <2>1. CASE g = h
    <3>0. PICK n \in Nat : n = Len(log[h]) + 1
      BY <1>4
    <3>1. n \in 1..Len(log'[g])
      BY <1>4, <1>10, <2>1, <3>0
    <3>2. n >= kept'[g]
      BY <3>0, <1>1, <1>2, <1>4, <2>1 DEF Inv, Storing
    <3>3. ASSUME NEW u \in Handlers, Adds(u)', req'[u].hash = g PROVE n >= req'[u].at
      BY <1>4, <1>10, <1>14, <2>1, <3>0, <3>3
    <3>4. Found(history, g, log[g][n])'
      BY <1>6, <1>10, <2>1, <3>0 DEF Found, Same
    <3> QED
      BY <3>1, <3>2, <3>3, <3>4 DEF Recent
  <2>2. CASE g # h
    <3>1. \A u \in Handlers : Adds(u)' /\ req'[u].hash = g => Adds(u) /\ req[u].hash = g /\ req'[u].at = req[u].at
      BY <1>5, <1>13, <2>2 DEF Adds
    <3>2. Wanted(g)
      BY <1>1, <1>16, <3>1 DEF Wanted
    <3>3. PICK i \in 1..Len(log[g]) : Recent(g, i) /\ Found(history, g, log[g][i])
      BY <1>1, <3>2 DEF Inv, HistoryOK
    <3>4. i \in 1..Len(log'[g]) /\ log'[g][i] = log[g][i]
      BY <1>11
    <3>5. Recent(g, i)'
      BY <1>1, <3>1, <3>3 DEF Recent
    <3>6. Found(history, g, log[g][i])'
      BY <1>1, <1>7, <2>2, <3>3, <3>4 DEF Found, Old
    <3> QED
      BY <3>4, <3>5, <3>6
  <2> QED
    BY <2>1, <2>2
<1>17. HistoryOK'
  BY <1>16 DEF HistoryOK
<1>18. FileOK'
  <2>1. ASSUME ~file'.torn, NEW g \in Hashes \ spoiled', kept'[g] > 0
        PROVE  (\E i \in 1..Len(log[g]) : i >= kept[g] /\ Found(Load(file), g, log[g][i]))'
    <3>1. PICK i \in 1..Len(log[g]) : i >= kept[g] /\ Found(Load(file), g, log[g][i])
      BY <1>1, <2>1 DEF Inv, FileOK
    <3>2. Load(file)' = Load(file)
      BY <1>1 DEF Load
    <3>3. i \in 1..Len(log'[g]) /\ log'[g][i] = log[g][i]
      BY <1>11
    <3>4. Found(Load(file), g, log[g][i])'
      BY <1>1, <3>1, <3>2, <3>3 DEF Found, Old
    <3> QED
      BY <1>1, <3>1, <3>3, <3>4
  <2> QED
    BY <1>1, <2>1 DEF FileOK
<1> QED
  BY <1>12, <1>15, <1>17, <1>18 DEF Inv

(* A remainder of a natural is not above it. *)
LEMMA RemainderBelow ==
  ASSUME NEW x \in Nat
  PROVE  x % Word \in Nat /\ x % Word <= x
<1>1. Word \in Nat /\ Word > 0
  BY StoreBounds
<1> DEFINE q == x \div Word
           m == x % Word
<1>2. q \in Nat /\ m \in Nat /\ x = q * Word + m
  BY <1>1, Z3
<1> HIDE DEF q, m
<1>3. q * Word \in Nat
  BY <1>1, <1>2
<1>4. m <= x
  <2> DEFINE k == q * Word
  <2>1. k \in Nat /\ x = k + m
    BY <1>2, <1>3
  <2> HIDE DEF k
  <2> QED
    BY <1>2, <2>1
<1> QED
  BY <1>2, <1>4 DEF m

(* A save drops only what is too old by the time it has read: an entry     *)
(* that is not ahead of this time has its true age.                        *)
LEMMA SaveInv ==
  ASSUME Inv, NEW t \in Handlers, SavePackageInstallHostData(t)
  PROVE  Inv'
<1> DEFINE now == req[t].sec * PerSecond + req[t].usec
<1>1. /\ up /\ pc[t] = "drop" /\ pc' = [pc EXCEPT ![t] = "saving"]
      /\ req' = [req EXCEPT ![t].sec = 0, ![t].usec = 0]
      /\ history' = [h \in Retained(now) |-> history[h]] /\ file' = Torn
      /\ latest' = (IF now > latest THEN now ELSE latest)
      /\ spoiled' = spoiled \union {h \in DOMAIN history : history[h].timestamp > now}
      /\ UNCHANGED <<up, clock, tick, save_tick, log, kept>>
  BY DEF SavePackageInstallHostData, Step
<1>2. file'.torn /\ DOMAIN file'.items = {}
  BY <1>1 DEF Torn, Empty
<1>3. /\ Retained(now) \subseteq DOMAIN history
      /\ DOMAIN history' = Retained(now) /\ \A h \in Retained(now) : history'[h] = history[h]
  BY <1>1 DEF Retained
<1>4. now \in Nat
  <2>1. req[t].sec \in Nat /\ req[t].usec \in Nat /\ PerSecond \in Nat
    BY StoreBounds DEF Inv, Storing, Asked
  <2> QED
    BY <2>1
<1> HIDE DEF now
<1>5. /\ latest \in Nat /\ latest' \in Nat /\ latest <= latest' /\ now <= latest'
      /\ clock' \in 0..MaxClock /\ clock' <= latest'
  BY <1>1, <1>4, StoreBounds DEF Inv, Times
<1>6. Times'
  <2>1. \A h \in DOMAIN history' : history'[h].timestamp \in Nat
    BY <1>3 DEF Inv, Times
  <2>2. file'.torn \in BOOLEAN
    BY <1>1 DEF Torn
  <2>3. \A h \in DOMAIN file'.items : file'.items[h].timestamp \in Nat
    BY <1>2
  <2> QED
    BY <1>1, <1>5, <2>1, <2>2, <2>3 DEF Inv, Times
<1>7. /\ req' \in [Handlers -> Asked] /\ req'[t].hash = req[t].hash /\ req'[t].at = req[t].at
      /\ \A u \in Handlers : u # t => req'[u] = req[u]
  BY <1>1 DEF Inv, Storing, Asked
<1>8. /\ pc' \in [Handlers -> Labels] /\ pc'[t] = "saving" /\ pc[t] # "idle"
      /\ \A u \in Handlers : u # t => pc'[u] = pc[u]
  BY <1>1 DEF Inv, Storing, Labels
<1>9. \A u \in Handlers : (Adds(u)' <=> Adds(u)) /\ req'[u].hash = req[u].hash /\ req'[u].at = req[u].at
  BY <1>1, <1>7, <1>8 DEF Adds, Saving
<1>10. Storing'
  <2>1. pc'[t] \notin Asking
    BY <1>8 DEF Asking
  <2> QED
    BY <1>1, <1>7, <1>8, <1>9, <2>1 DEF Inv, Storing
<1>11. ASSUME NEW h \in Hashes \ spoiled', h \in DOMAIN history, h \notin Retained(now)
       PROVE  latest' - history[h].timestamp >= Retention
  <2> DEFINE ts == history[h].timestamp
             age == now - ts
  <2>1. ts \in Nat /\ ~(ts > now)
    BY <1>1, <1>11 DEF Inv, Times
  <2>2. age \in Nat
    <3> HIDE DEF ts
    <3> QED
      BY <1>4, <2>1
  <2>3. ~(age % Word < Retention)
    BY <1>11 DEF Retained, Age
  <2> HIDE DEF age
  <2>4. age % Word \in Nat /\ age % Word <= age
    BY <2>2, RemainderBelow
  <2>5. age >= Retention
    <3> DEFINE m == age % Word
    <3>1. m \in Nat /\ m <= age /\ ~(m < Retention)
      BY <2>3, <2>4
    <3> HIDE DEF m
    <3> QED
      BY <2>2, <3>1, StoreBounds
  <2> HIDE DEF ts
  <2>6. latest' - ts >= Retention
    <3> DEFINE l == latest'
    <3>1. l \in Nat /\ now <= l /\ now \in Nat /\ ts \in Nat /\ now - ts >= Retention /\ Retention \in Nat
      BY <1>4, <1>5, <2>1, <2>5, StoreBounds DEF age
    <3> HIDE DEF l
    <3>2. l - ts >= Retention
      BY <3>1
    <3> QED
      BY <3>2 DEF l
  <2> QED
    BY <2>6 DEF ts
<1>12. HistoryOK'
  <2> SUFFICES ASSUME NEW h \in Hashes \ spoiled', Wanted(h)'
               PROVE  (\E i \in 1..Len(log[h]) : Recent(h, i) /\ Found(history, h, log[h][i]))'
    BY DEF HistoryOK
  <2>1. Wanted(h)
    BY <1>1, <1>9 DEF Wanted
  <2>2. PICK i \in 1..Len(log[h]) : Recent(h, i) /\ Found(history, h, log[h][i])
    BY <1>1, <2>1 DEF Inv, HistoryOK
  <2>3. Recent(h, i)'
    BY <1>1, <1>9, <2>2 DEF Recent
  <2>4. log[h][i].timestamp \in Nat
    <3>1. log[h] \in Seq(Entries)
      BY DEF Inv, Storing
    <3>2. log[h][i] \in Entries
      BY <3>1
    <3> QED
      BY <3>2 DEF Entries
  <2>5. Found(history, h, log[h][i])'
    <3>1. CASE Old(log[h][i])
      <4>1. latest - log[h][i].timestamp >= Retention
        BY <3>1 DEF Old
      <4>2. latest' - log[h][i].timestamp >= Retention
        BY <1>5, <2>4, <4>1, StaysOld
      <4> QED
        BY <1>1, <4>2 DEF Found, Old
    <3>2. CASE h \in Retained(now) /\ Same(history[h], log[h][i])
      BY <1>1, <1>3, <3>2 DEF Found
    <3>3. CASE h \in DOMAIN history /\ h \notin Retained(now) /\ Same(history[h], log[h][i])
      BY <1>1, <1>11, <3>3 DEF Found, Same, Old
    <3> QED
      BY <2>2, <3>1, <3>2, <3>3 DEF Found
  <2> QED
    BY <1>1, <2>3, <2>5
<1>13. FileOK'
  BY <1>1, <1>2 DEF FileOK
<1> QED
  BY <1>6, <1>10, <1>12, <1>13 DEF Inv

-----------------------------------------------------------------------------
(* A request that is answered raises kept to its entry at most. *)
LEMMA AnsweredOK ==
  ASSUME Inv, NEW t \in Handlers, Step(t, "saving", "idle"), kept' = Answered(t),
         req' = [req EXCEPT ![t] = NoRequest], UNCHANGED <<up, log>>
  PROVE  /\ Storing'
         /\ \A u \in Handlers : Adds(u)' => Adds(u) /\ req'[u] = req[u]
         /\ \A h \in Hashes : kept'[h] > 0 => Wanted(h)
         /\ \A h \in Hashes, i \in Nat : Recent(h, i) => i >= kept'[h]
<1>1. up /\ pc[t] = "saving" /\ pc' = [pc EXCEPT ![t] = "idle"] /\ Adds(t)
  BY DEF Step, Adds
<1>2. /\ pc' \in [Handlers -> Labels] /\ pc'[t] = "idle" /\ pc'[t] \notin Asking
      /\ \A u \in Handlers : u # t => pc'[u] = pc[u] /\ req'[u] = req[u]
  BY <1>1 DEF Inv, Storing, Labels, Asking
<1>3. req' \in [Handlers -> Asked]
  <2>1. NoRequest \in Asked
    BY DEF NoRequest, Asked
  <2> QED
    BY <2>1 DEF Inv, Storing
<1>4. \A u \in Handlers : Adds(u)' => u # t /\ Adds(u) /\ req'[u] = req[u]
  BY <1>2 DEF Adds, Saving
<1>5. req[t].hash \in Hashes /\ req[t].at \in 1..Len(log[req[t].hash]) /\ req[t].at \in Nat
  BY <1>1 DEF Inv, Storing
<1>6. kept \in [Hashes -> Nat] /\ \A h \in Hashes : kept[h] \in Nat /\ kept[h] <= Len(log[h])
  BY DEF Inv, Storing
<1>7. kept' = [kept EXCEPT ![req[t].hash] = IF kept[req[t].hash] > req[t].at THEN kept[req[t].hash] ELSE req[t].at]
  BY DEF Answered
<1>8. kept' \in [Hashes -> Nat]
  BY <1>5, <1>6, <1>7
<1>9. ASSUME NEW h \in Hashes
      PROVE  kept'[h] = kept[h] \/ (h = req[t].hash /\ kept'[h] = req[t].at)
  BY <1>5, <1>6, <1>7
<1>10. \A h \in Hashes : kept'[h] <= Len(log'[h])
  BY <1>5, <1>6, <1>9
<1>11. Storing'
  <2>1. ASSUME NEW u \in Handlers
        PROVE  /\ pc'[u] # "idle" => req'[u].hash \in Hashes
               /\ pc'[u] \in Asking => req'[u].host \in Hosts
               /\ Adds(u)' => req'[u].at \in 1..Len(log'[req'[u].hash])
    BY <1>2, <1>4 DEF Inv, Storing
  <2> QED
    BY <1>1, <1>2, <1>3, <1>8, <1>10, <2>1 DEF Inv, Storing
<1>12. \A h \in Hashes : kept'[h] > 0 => Wanted(h)
  BY <1>1, <1>9 DEF Wanted
<1>13. \A h \in Hashes, i \in Nat : Recent(h, i) => i >= kept'[h]
  BY <1>1, <1>9 DEF Recent
<1> QED
  BY <1>4, <1>11, <1>12, <1>13

(* The file has what the history has, password and server type included,   *)
(* unless the password was garbled.                                        *)
LEMMA SavedInv ==
  ASSUME Inv, NEW t \in Handlers, Saved(t)
  PROVE  Inv'
<1> DEFINE Written(h, broken) == IF h \in broken THEN Garbled(SaveEntry(history[h])) ELSE SaveEntry(history[h])
<1>0. PICK broken \in SUBSET Overrun : /\ file' = Holds([h \in DOMAIN history |-> Written(h, broken)])
                                       /\ spoiled' = spoiled \union broken
  BY DEF Saved
<1>1. /\ Step(t, "saving", "idle") /\ kept' = Answered(t) /\ req' = [req EXCEPT ![t] = NoRequest]
      /\ up /\ UNCHANGED <<history, up, clock, latest, tick, save_tick, log>>
  BY DEF Saved, Step
<1>2. /\ Storing'
      /\ \A u \in Handlers : Adds(u)' => Adds(u) /\ req'[u] = req[u]
      /\ \A h \in Hashes : kept'[h] > 0 => Wanted(h)
      /\ \A h \in Hashes, i \in Nat : Recent(h, i) => i >= kept'[h]
  BY <1>1, AnsweredOK
<1>3. ~file'.torn /\ file'.items = [h \in DOMAIN history |-> Written(h, broken)]
  BY <1>0 DEF Holds
<1>4. \A h \in DOMAIN file'.items : file'.items[h].timestamp \in Nat
  <2> SUFFICES ASSUME NEW h \in DOMAIN history PROVE Written(h, broken).timestamp \in Nat
    BY <1>3
  <2>1. SaveEntry(history[h]).timestamp \in Nat
    BY RoundTrip DEF Inv, Times
  <2>2. Garbled(SaveEntry(history[h])).timestamp = SaveEntry(history[h]).timestamp
    BY DEF Garbled, SaveEntry
  <2> QED
    BY <2>1, <2>2
<1>5. Times'
  <2>1. file'.torn \in BOOLEAN
    BY <1>0 DEF Holds
  <2> QED
    BY <1>1, <1>4, <2>1 DEF Inv, Times
<1>6. ASSUME NEW h \in Hashes \ spoiled', Wanted(h)
      PROVE  \E i \in 1..Len(log[h]) : Recent(h, i) /\ Found(history, h, log[h][i])
  BY <1>0, <1>1, <1>6 DEF Inv, HistoryOK
<1>7. ASSUME NEW h \in Hashes, NEW i \in Nat, Recent(h, i)
      PROVE  Recent(h, i)'
  BY <1>2, <1>7 DEF Recent
<1>8. \A h \in Hashes : Wanted(h)' => Wanted(h)
  BY <1>2 DEF Wanted
<1>9. HistoryOK'
  <2> SUFFICES ASSUME NEW h \in Hashes \ spoiled', Wanted(h)'
               PROVE  (\E i \in 1..Len(log[h]) : Recent(h, i) /\ Found(history, h, log[h][i]))'
    BY DEF HistoryOK
  <2>1. PICK i \in 1..Len(log[h]) : Recent(h, i) /\ Found(history, h, log[h][i])
    BY <1>6, <1>8
  <2>2. Recent(h, i)'
    BY <1>7, <2>1
  <2>3. Found(history, h, log[h][i])'
    BY <1>1, <2>1 DEF Found, Old
  <2> QED
    BY <1>1, <2>2, <2>3
<1>10. FileOK'
  <2>1. ASSUME NEW h \in Hashes \ spoiled', kept'[h] > 0
        PROVE  (\E i \in 1..Len(log[h]) : i >= kept[h] /\ Found(Load(file), h, log[h][i]))'
    <3>1. PICK i \in 1..Len(log[h]) : Recent(h, i) /\ Found(history, h, log[h][i])
      BY <1>2, <1>6, <2>1
    <3>2. i >= kept'[h]
      BY <1>2, <3>1
    <3>3. Load(file)' = [g \in DOMAIN history |-> LoadEntry(Written(g, broken))]
      BY <1>3 DEF Load
    <3>5. Written(h, broken) = SaveEntry(history[h])
      BY <1>0, <2>1
    <3> HIDE DEF Written
    <3>4. Found(Load(file), h, log[h][i])'
      <4>1. CASE Old(log[h][i])
        BY <1>1, <4>1 DEF Found, Old
      <4>2. CASE h \in DOMAIN history /\ Same(history[h], log[h][i])
        <5>1. Same(LoadEntry(SaveEntry(history[h])), history[h])
          BY RoundTrip
        <5>2. Same(LoadEntry(SaveEntry(history[h])), log[h][i])
          BY <4>2, <5>1 DEF Same
        <5>3. h \in DOMAIN Load(file)' /\ Load(file)'[h] = LoadEntry(SaveEntry(history[h]))
          BY <3>3, <3>5, <4>2
        <5> QED
          BY <1>1, <5>2, <5>3 DEF Found
      <4> QED
        BY <3>1, <4>1, <4>2 DEF Found
    <3> QED
      BY <1>1, <3>2, <3>4
  <2> QED
    BY <1>1, <2>1 DEF FileOK
<1> QED
  BY <1>2, <1>5, <1>9, <1>10 DEF Inv

LEMMA SaveFailsInv ==
  ASSUME Inv, NEW t \in Handlers, SaveFails(t)
  PROVE  Inv'
<1>1. /\ Step(t, "saving", "idle") /\ kept' = Answered(t) /\ req' = [req EXCEPT ![t] = NoRequest]
      /\ spoiled' = Hashes /\ up
      /\ UNCHANGED <<history, file, up, clock, latest, tick, save_tick, log>>
  BY DEF SaveFails, Step
<1>2. Storing'
  BY <1>1, AnsweredOK
<1>3. Times'
  BY <1>1 DEF Inv, Times
<1>4. HistoryOK' /\ FileOK'
  BY <1>1 DEF HistoryOK, FileOK
<1> QED
  BY <1>2, <1>3, <1>4 DEF Inv

(* A crash leaves the file; one in a write takes everything with it. *)
LEMMA CrashInv ==
  ASSUME Inv, Crash
  PROVE  Inv'
<1>1. /\ up' = FALSE /\ history' = Empty /\ pc' = [t \in Handlers |-> "idle"]
      /\ req' = [t \in Handlers |-> NoRequest] /\ spoiled' = IF file.torn THEN Hashes ELSE spoiled
      /\ UNCHANGED <<file, clock, latest, tick, save_tick, log, kept>>
  BY DEF Crash
<1>2. Times'
  <2>1. DOMAIN history' = {}
    BY <1>1 DEF Empty
  <2> QED
    BY <1>1, <2>1 DEF Inv, Times
<1>3. Storing'
  <2>1. NoRequest \in Asked
    BY DEF NoRequest, Asked
  <2>2. /\ req' \in [Handlers -> Asked] /\ pc' \in [Handlers -> Labels]
        /\ \A t \in Handlers : pc'[t] = "idle"
    BY <1>1, <2>1 DEF Labels
  <2>3. up' \in BOOLEAN
    BY <1>1
  <2> QED
    BY <1>1, <2>2, <2>3 DEF Inv, Storing, Adds, Asking, Saving
<1>4. HistoryOK'
  BY <1>1 DEF HistoryOK
<1>5. FileOK'
  <2>1. ASSUME ~file'.torn, NEW h \in Hashes \ spoiled', kept'[h] > 0
        PROVE  (\E i \in 1..Len(log[h]) : i >= kept[h] /\ Found(Load(file), h, log[h][i]))'
    <3>1. PICK i \in 1..Len(log[h]) : i >= kept[h] /\ Found(Load(file), h, log[h][i])
      BY <1>1, <2>1 DEF Inv, FileOK
    <3>2. Load(file)' = Load(file)
      BY <1>1 DEF Load
    <3>3. Found(Load(file), h, log[h][i])'
      BY <1>1, <3>1, <3>2 DEF Found, Old
    <3> QED
      BY <1>1, <3>1, <3>3
  <2>2. file'.torn => Hashes \subseteq spoiled'
    BY <1>1
  <2> QED
    BY <2>1, <2>2 DEF FileOK
<1> QED
  BY <1>2, <1>3, <1>4, <1>5 DEF Inv

(* A restart finds what the file has. *)
LEMMA LoadInv ==
  ASSUME Inv, LoadPackageInstallHostData
  PROVE  Inv'
<1>1. /\ ~up /\ up' = TRUE /\ history' = Load(file)
      /\ UNCHANGED <<file, clock, latest, tick, save_tick, pc, req, log, kept, spoiled>>
  BY DEF LoadPackageInstallHostData
<1>2. \A t \in Handlers : pc[t] = "idle" /\ ~Adds(t) /\ ~Adds(t)'
  BY <1>1 DEF Inv, Storing, Adds, Saving
<1>3. Times'
  <2>1. ASSUME NEW h \in DOMAIN history' PROVE history'[h].timestamp \in Nat
    <3>1. CASE file.torn
      BY <1>1, <3>1 DEF Load, Empty
    <3>2. CASE ~file.torn
      BY <1>1, <3>2 DEF Load, LoadEntry, Inv, Times
    <3> QED
      BY <3>1, <3>2
  <2> QED
    BY <1>1, <2>1 DEF Inv, Times
<1>4. Storing'
  <2>1. up' \in BOOLEAN /\ up'
    BY <1>1
  <2> QED
    BY <1>1, <1>2, <2>1 DEF Inv, Storing
<1>5. HistoryOK'
  <2> SUFFICES ASSUME NEW h \in Hashes \ spoiled', Wanted(h)'
               PROVE  (\E i \in 1..Len(log[h]) : Recent(h, i) /\ Found(history, h, log[h][i]))'
    BY DEF HistoryOK
  <2>1. kept[h] > 0 /\ ~file.torn
    BY <1>1, <1>2 DEF Wanted, Inv, FileOK
  <2>2. PICK i \in 1..Len(log[h]) : i >= kept[h] /\ Found(Load(file), h, log[h][i])
    BY <1>1, <2>1 DEF Inv, FileOK
  <2>3. Recent(h, i)'
    BY <1>1, <1>2, <2>2 DEF Recent
  <2>4. Found(history, h, log[h][i])'
    BY <1>1, <2>2 DEF Found, Old
  <2> QED
    BY <1>1, <2>3, <2>4
<1>6. FileOK'
  <2>1. ASSUME ~file'.torn, NEW h \in Hashes \ spoiled', kept'[h] > 0
        PROVE  (\E i \in 1..Len(log[h]) : i >= kept[h] /\ Found(Load(file), h, log[h][i]))'
    <3>1. PICK i \in 1..Len(log[h]) : i >= kept[h] /\ Found(Load(file), h, log[h][i])
      BY <1>1, <2>1 DEF Inv, FileOK
    <3>2. Load(file)' = Load(file)
      BY <1>1 DEF Load
    <3>3. Found(Load(file), h, log[h][i])'
      BY <1>1, <3>1, <3>2 DEF Found, Old
    <3> QED
      BY <1>1, <3>1, <3>3
  <2> QED
    BY <1>1, <2>1 DEF FileOK
<1> QED
  BY <1>3, <1>4, <1>5, <1>6 DEF Inv

-----------------------------------------------------------------------------
(* The inductive invariant holds in every reachable state: the history has *)
(* an entry as new as every request answered or being saved, and the file, *)
(* unless it is torn, one as new as every request answered                 *)
(* (config.cpp:81-193).                                                    *)
THEOREM InstallStoreInv == Spec => []Inv
<1>1. ASSUME Inv, [Next]_vars PROVE Inv'
  <2>1. CASE \E t \in Handlers :
               \/ Store(t) \/ ReadTick(t) \/ AddPackageInstallHostData(t) \/ BeginSave(t)
               \/ ReadSaveTick(t) \/ SavePackageInstallHostData(t) \/ Saved(t) \/ SaveFails(t)
    BY <1>1, <2>1, StoreInv, ReadTickInv, AddInv, BeginSaveInv, SaveInv, SavedInv, SaveFailsInv
  <2>2. CASE Crash
    BY <1>1, <2>2, CrashInv
  <2>3. CASE LoadPackageInstallHostData
    BY <1>1, <2>3, LoadInv
  <2>4. CASE Clock
    BY <1>1, <2>4, ClockInv
  <2>5. CASE UNCHANGED vars
    BY <1>1, <2>5, StutterInv
  <2>6. CASE SaveBgDownloadData
    BY <1>1, <2>6, SaveBgDownloadDataInv
  <2> QED
    BY <1>1, <2>1, <2>2, <2>3, <2>4, <2>5, <2>6 DEF Next
<1> QED
  BY <1>1, InitInv, PTL DEF Spec

(* A package whose /store_bg_install_data was answered is found by         *)
(* /bg_install, after any number of crashes and restarts too, with the     *)
(* host and password of that request or of a later one, until it is        *)
(* Retention old.  A torn or failed write, a stamp ahead of the time a     *)
(* save reads and a short password that overran its buffer are the         *)
(* exceptions (config.cpp:157-161, 45).                                    *)
THEOREM StoreFindsWhatItAnswered == Spec => []StoredIsFound
<1>1. Inv => StoredIsFound
  <2> SUFFICES ASSUME Inv, NEW h \in Hashes \ spoiled, up, kept[h] > 0,
                      \A e \in {log[h][i] : i \in kept[h]..Len(log[h])} : latest - e.timestamp < Retention
               PROVE  /\ h \in DOMAIN history
                      /\ Use(history[h]) \in {Use(e) : e \in {log[h][i] : i \in kept[h]..Len(log[h])}}
    BY DEF StoredIsFound
  <2>1. PICK i \in 1..Len(log[h]) : Recent(h, i) /\ Found(history, h, log[h][i])
    BY DEF Inv, HistoryOK, Wanted
  <2>2. log[h] \in Seq(Entries) /\ kept[h] \in Nat
    BY DEF Inv, Storing
  <2>3. i \in kept[h]..Len(log[h])
    BY <2>1, <2>2 DEF Recent
  <2>4. log[h][i] \in Entries
    BY <2>2
  <2>5. ~Old(log[h][i])
    <3>1. latest - log[h][i].timestamp < Retention
      BY <2>3
    <3>2. log[h][i].timestamp \in Nat /\ latest \in Nat /\ Retention \in Nat
      BY <2>4, StoreBounds DEF Entries, Inv, Times
    <3> QED
      BY <3>1, <3>2 DEF Old
  <2>6. h \in DOMAIN history /\ Use(history[h]) = Use(log[h][i])
    BY <2>1, <2>5 DEF Found, Same
  <2> QED
    BY <2>3, <2>6
<1> QED
  BY <1>1, InstallStoreInv, PTL
=============================================================================
