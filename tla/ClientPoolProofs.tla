-------------------------- MODULE ClientPoolProofs --------------------------
(***************************************************************************)
(* Proofs about ClientPool, for any number of handlers, addresses, hosts   *)
(* and idle clients.                                                       *)
(***************************************************************************)
EXTENDS ClientPool, SequenceTheorems, TLAPS

(* Which labels of a thread go with a client and a host, and when main has *)
(* nothing to destroy.                                                     *)
ControlOK ==
  /\ \A t \in Threads :
       /\ pc[t] = "ready" => client[t] = NoClient
       /\ pc[t] \in {"created", "transfer", "release"} => client[t] # NoClient
       /\ pc[t] \in {"acquired", "created", "transfer", "release"} => host[t] \in Hosts
  /\ main \in {"serving", "stopped"} => doomed[Main] = {}
  /\ client[Main] = NoClient

(* The inductive invariant: who owns a client and whether it is allocated  *)
(* depend on each other, and the type of the heap on both.                 *)
Ownership == TypeOK /\ ExclusiveHandOut /\ LiveIffReachable /\ ControlOK

(* What is reachable is an address. *)
LEMMA ReachableAddrs ==
  ASSUME TypeOK
  PROVE  /\ IdleClients \subseteq Addrs
         /\ \A p \in Procs : Held(p) \subseteq Addrs
BY DEF TypeOK, IdleClients, Held

(* Popping a non-empty list down to a position keeps what is before it. *)
LEMMA PrefixOfList ==
  ASSUME NEW S, NEW s \in Seq(S), NEW m \in 1..Len(s)
  PROVE  /\ SubSeq(s, 1, m - 1) \in Seq(S)
         /\ DOMAIN SubSeq(s, 1, m - 1) = 1..(m - 1)
         /\ \A i \in 1..(m - 1) : SubSeq(s, 1, m - 1)[i] = s[i]
<1>1. m - 1 \in Int /\ \A i \in 1..(m - 1) : s[i] \in S
  OBVIOUS
<1>2. /\ SubSeq(s, 1, m - 1) \in Seq(S)
      /\ Len(SubSeq(s, 1, m - 1)) = IF 1 <= m - 1 THEN (m - 1) - 1 + 1 ELSE 0
      /\ \A i \in 1..((m - 1) - 1 + 1) : SubSeq(s, 1, m - 1)[i] = s[1 + i - 1]
  BY <1>1, SubSeqProperties
<1> QED
  BY <1>2

(* The pool starts empty: nobody holds a client and none is allocated. *)
LEMMA InitOwnership == Init => Ownership
<1> SUFFICES ASSUME Init PROVE Ownership
  OBVIOUS
<1>1. TypeOK
  BY PoolSizes DEF Init, TypeOK, NoTime, Procs
<1>2. IdleClients = {}
  BY DEF Init, IdleClients
<1>3. \A p \in Procs : Held(p) = {}
  BY DEF Init, Held
<1>4. ExclusiveHandOut
  BY <1>2, <1>3, PoolNames DEF Init, ExclusiveHandOut
<1>5. LiveIffReachable
  BY <1>2, <1>3 DEF Init, LiveIffReachable
<1>6. ControlOK
  BY DEF Init, ControlOK, Procs
<1> QED
  BY <1>1, <1>4, <1>5, <1>6 DEF Ownership

-----------------------------------------------------------------------------
(* One lemma per action. *)

(* What an acquire takes from the pool: the old clients and the one found  *)
(* leave the idle list of the request's key, the rest of it stays.         *)
Taken(t, h, old, found) ==
  /\ old \subseteq IdleClients /\ found \notin old
  /\ found # NoClient => \E i \in DOMAIN idle[ClientPoolKey(h)] : found = idle[ClientPoolKey(h)][i]
  /\ IdleClients' = IdleClients \ (old \cup {found})
  /\ idle' \in [Keys -> Seq(Addrs)]
  /\ \A l \in Keys : \A i \in DOMAIN idle'[l] : i \in DOMAIN idle[l] /\ idle'[l][i] = idle[l][i]
  /\ since' = [a \in Addrs |-> IF a \in old \cup {found} THEN NoTime ELSE since[a]]
  /\ key' = [a \in Addrs |-> IF a \in old THEN NoKey ELSE key[a]]
  /\ client' = [client EXCEPT ![t] = found]
  /\ doomed' = [doomed EXCEPT ![t] = old]

(* An acquire takes old clients and at most one for its thread.            *)
LEMMA AcquireMoves ==
  ASSUME TypeOK, ExclusiveHandOut, NEW t \in Threads, NEW h \in Hosts, AcquireRemoteClient(t, h)
  PROVE  \E old \in SUBSET Addrs, found \in Addrs \cup {NoClient} : Taken(t, h, old, found)
<1> DEFINE k == ClientPoolKey(h)
<1>1. k \in Keys
  BY DEF Keys
<1>2. PICK last \in 0..Len(idle[k]) :
        /\ idle' = [idle EXCEPT ![k] = PopCandidates(k, last)]
        /\ since' = [a \in Addrs |->
              IF a \in OldClients(k, last) \cup {FreshClient(k, last)} THEN NoTime ELSE since[a]]
        /\ key' = EraseKeys(OldClients(k, last))
        /\ client' = [client EXCEPT ![t] = FreshClient(k, last)]
        /\ doomed' = [doomed EXCEPT ![t] = OldClients(k, last)]
  BY DEF AcquireRemoteClient
<1> DEFINE old == OldClients(k, last)
           found == FreshClient(k, last)
           n == Len(idle[k])
<1>4. /\ idle[k] \in Seq(Addrs) /\ n \in Nat /\ DOMAIN idle[k] = 1..n
      /\ \A i \in 1..n : idle[k][i] \in Addrs
  BY <1>1 DEF TypeOK
<1> HIDE DEF k, n
<1>5. /\ idle'[k] \in Seq(Addrs)
      /\ \A i \in DOMAIN idle'[k] : i \in 1..n /\ i < last /\ idle'[k][i] = idle[k][i]
      /\ \A i \in 1..n : i < last => i \in DOMAIN idle'[k]
  <2>1. idle'[k] = SubSeq(idle[k], 1, last - 1)
    BY <1>1, <1>2 DEF PopCandidates, TypeOK
  <2>2. CASE last = 0
    <3>1. SubSeq(idle[k], 1, last - 1) = <<>>
      BY <2>2, SubSeqEmpty
    <3> QED
      BY <1>4, <2>1, <2>2, <3>1
  <2>3. CASE last # 0
    <3>1. last \in 1..Len(idle[k]) /\ last \in 1..n /\ n = Len(idle[k])
      BY <1>2, <1>4, <2>3 DEF n
    <3>2. /\ SubSeq(idle[k], 1, last - 1) \in Seq(Addrs)
          /\ DOMAIN SubSeq(idle[k], 1, last - 1) = 1..(last - 1)
          /\ \A i \in 1..(last - 1) : SubSeq(idle[k], 1, last - 1)[i] = idle[k][i]
      BY <1>4, <3>1, PrefixOfList
    <3>3. /\ idle'[k] \in Seq(Addrs)
          /\ DOMAIN idle'[k] = 1..(last - 1)
          /\ \A i \in 1..(last - 1) : idle'[k][i] = idle[k][i]
      BY <2>1, <3>2
    <3>4. \A i \in 1..(last - 1) : i \in 1..n /\ i < last
      BY <1>4, <3>1
    <3>5. \A i \in 1..n : i < last => i \in 1..(last - 1)
      BY <1>4, <3>1
    <3> QED
      BY <3>3, <3>4, <3>5
  <2> QED
    BY <2>2, <2>3
<1>6. \A l \in Keys : l # k => idle'[l] = idle[l]
  BY <1>1, <1>2 DEF TypeOK
<1>7. old \subseteq Addrs /\ found \in Addrs \cup {NoClient}
  BY <1>2, <1>4 DEF OldClients, FreshClient, n
<1>8. \A a \in old : \E i \in 1..n : i > last /\ a = idle[k][i]
  BY <1>2, <1>4 DEF OldClients, n
<1>9. found # NoClient => last \in 1..n /\ found = idle[k][last]
  BY <1>2, <1>4 DEF FreshClient, n
<1>10. \A i \in 1..n : idle[k][i] \in old \/ idle[k][i] = found \/ i < last
  BY <1>2, <1>4 DEF OldClients, FreshClient, n
<1> HIDE DEF old, found
<1>11. \A i, j \in 1..n : idle[k][i] = idle[k][j] => i = j
  BY <1>1, <1>4 DEF ExclusiveHandOut
<1>12. found \notin old
  BY <1>2, <1>4, <1>7, <1>8, <1>9, <1>11, PoolNames
<1>13. /\ old \subseteq IdleClients
       /\ found # NoClient => found \in IdleClients
  BY <1>1, <1>4, <1>8, <1>9 DEF IdleClients
<1>14. IdleClients' = IdleClients \ (old \cup {found})
  <2>1. ASSUME NEW l \in Keys, NEW i \in DOMAIN idle'[l]
        PROVE  idle'[l][i] \in IdleClients \ (old \cup {found})
    <3>1. CASE l = k
      BY <1>1, <1>4, <1>5, <1>8, <1>9, <1>11, <2>1, <3>1, PoolNames DEF IdleClients
    <3>2. CASE l # k
      <4>1. i \in DOMAIN idle[l] /\ idle'[l][i] = idle[l][i]
        BY <1>6, <2>1, <3>2
      <4>2. \A j \in 1..n : idle[l][i] # idle[k][j]
        BY <1>1, <1>4, <3>2, <4>1 DEF ExclusiveHandOut
      <4>3. idle[l][i] \in IdleClients /\ idle[l][i] # NoClient
        BY <1>1, <4>1, ReachableAddrs, PoolNames DEF IdleClients
      <4> QED
        BY <1>8, <1>9, <4>1, <4>2, <4>3
    <3> QED
      BY <3>1, <3>2
  <2>2. ASSUME NEW a \in IdleClients, a \notin old \cup {found}
        PROVE  a \in IdleClients'
    <3>1. PICK l \in Keys : \E i \in DOMAIN idle[l] : a = idle[l][i]
      BY <2>2 DEF IdleClients
    <3>2. PICK i \in DOMAIN idle[l] : a = idle[l][i]
      BY <3>1
    <3>3. i \in DOMAIN idle'[l] /\ idle'[l][i] = a
      BY <1>4, <1>5, <1>6, <1>10, <2>2, <3>2
    <3> QED
      BY <3>3 DEF IdleClients
  <2> QED
    BY <2>1, <2>2 DEF IdleClients
<1>15. idle' \in [Keys -> Seq(Addrs)]
  BY <1>1, <1>2, <1>5, <1>6 DEF TypeOK, k
<1>16. \A l \in Keys : \A i \in DOMAIN idle'[l] : i \in DOMAIN idle[l] /\ idle'[l][i] = idle[l][i]
  BY <1>4, <1>5, <1>6
<1>17. found # NoClient => \E i \in DOMAIN idle[k] : found = idle[k][i]
  BY <1>4, <1>9
<1>18. /\ since' = [a \in Addrs |-> IF a \in old \cup {found} THEN NoTime ELSE since[a]]
       /\ key' = [a \in Addrs |-> IF a \in old THEN NoKey ELSE key[a]]
       /\ client' = [client EXCEPT ![t] = found]
       /\ doomed' = [doomed EXCEPT ![t] = old]
  BY <1>2 DEF old, found, EraseKeys
<1> QED
  BY <1>7, <1>12, <1>13, <1>14, <1>15, <1>16, <1>17, <1>18 DEF k, Taken

(* An acquire moves clients from an idle list to the thread that called it. *)
LEMMA AcquireOwnership ==
  ASSUME Ownership, NEW t \in Threads, NEW h \in Hosts, AcquireRemoteClient(t, h)
  PROVE  Ownership'
<1>1. /\ TypeOK /\ ExclusiveHandOut /\ LiveIffReachable /\ ControlOK
      /\ t \in Procs /\ ClientPoolKey(h) \in Keys
      /\ pc[t] = "ready" /\ doomed[t] = {} /\ client[t] = NoClient
  BY DEF Ownership, AcquireRemoteClient, At, Procs, Keys, ControlOK
<1>2. PICK old \in SUBSET Addrs, found \in Addrs \cup {NoClient} : Taken(t, h, old, found)
  BY <1>1, AcquireMoves
<1>3. /\ host' = [host EXCEPT ![t] = h]
      /\ pc' = [pc EXCEPT ![t] = "acquired"]
      /\ UNCHANGED <<heap, now, success, main, orphans>>
  BY DEF AcquireRemoteClient
<1>4. found # NoClient => found \in IdleClients
  BY <1>1, <1>2 DEF IdleClients, Taken
<1>5. /\ Held(t) = {}
      /\ Held(t)' = old \cup ({found} \ {NoClient})
      /\ \A p \in Procs : p # t => Held(p)' = Held(p)
      /\ doomed'[t] = old /\ client'[t] = found
      /\ \A p \in Procs : p # t => doomed'[p] = doomed[p] /\ client'[p] = client[p]
  BY <1>1, <1>2 DEF Held, TypeOK, Taken
<1>6. TypeOK'
  BY <1>1, <1>2, <1>3 DEF TypeOK, Taken
<1>7. ExclusiveHandOut'
  <2>1. \A p, q \in Procs : p # q => Held(p)' \cap Held(q)' = {}
    BY <1>1, <1>2, <1>4, <1>5 DEF ExclusiveHandOut, Taken
  <2>2. \A p \in Procs : client'[p] \notin doomed'[p]
    BY <1>1, <1>2, <1>5 DEF ExclusiveHandOut, Taken
  <2>3. \A p \in Procs : Held(p)' \cap IdleClients' = {}
    BY <1>1, <1>2, <1>5 DEF ExclusiveHandOut, Taken
  <2>4. \A l, m \in Keys : \A i \in DOMAIN idle'[l], j \in DOMAIN idle'[m] :
          idle'[l][i] = idle'[m][j] => l = m /\ i = j
    BY <1>1, <1>2 DEF ExclusiveHandOut, Taken
  <2> QED
    BY <2>1, <2>2, <2>3, <2>4 DEF ExclusiveHandOut
<1>8. LiveIffReachable'
  <2> SUFFICES ASSUME NEW a \in Addrs
               PROVE  heap'[a] # Freed <=> a \in IdleClients' \/ \E p \in Procs : a \in Held(p)'
    BY DEF LiveIffReachable
  <2>1. heap'[a] # Freed <=> a \in IdleClients \/ \E p \in Procs : a \in Held(p)
    BY <1>1, <1>3 DEF LiveIffReachable
  <2>2. CASE a \in old \cup {found}
    BY <1>1, <1>2, <1>4, <1>5, <2>1, <2>2, PoolNames DEF Taken
  <2>3. CASE a \notin old \cup {found}
    BY <1>2, <1>5, <2>1, <2>3 DEF Taken
  <2> QED
    BY <2>2, <2>3
<1>9. ControlOK'
  BY <1>1, <1>3, <1>5, PoolNames DEF ControlOK, TypeOK, Procs
<1> QED
  BY <1>6, <1>7, <1>8, <1>9 DEF Ownership

(* A destroyed client belonged to nobody else. *)
LEMMA DestroyOwnership ==
  ASSUME Ownership, NEW p \in Procs, DestroyPooledClient(p)
  PROVE  Ownership'
<1>1. PICK a \in doomed[p] :
        /\ heap' = [heap EXCEPT ![a] = Freed]
        /\ doomed' = [doomed EXCEPT ![p] = @ \ {a}]
        /\ orphans' = orphans \ {a}
  BY DEF DestroyPooledClient
<1>2. UNCHANGED <<idle, key, since, now, pc, host, client, success, main>>
  BY DEF DestroyPooledClient, pool
<1>3. TypeOK /\ ExclusiveHandOut /\ LiveIffReachable /\ ControlOK /\ a \in Addrs
  BY <1>1 DEF Ownership, TypeOK
<1>4. /\ doomed'[p] = doomed[p] \ {a}
      /\ \A q \in Procs : q # p => doomed'[q] = doomed[q]
      /\ heap'[a] = Freed /\ \A b \in Addrs : b # a => heap'[b] = heap[b]
  BY <1>1, <1>3 DEF TypeOK
<1>5. IdleClients' = IdleClients /\ a \notin IdleClients /\ client[p] # a
  BY <1>1, <1>2, <1>3 DEF IdleClients, ExclusiveHandOut, Held
<1>6. /\ Held(p)' = Held(p) \ {a}
      /\ \A q \in Procs : q # p => Held(q)' = Held(q) /\ a \notin Held(q)
  BY <1>1, <1>2, <1>3, <1>4, <1>5 DEF Held, ExclusiveHandOut
<1>7. TypeOK'
  BY <1>1, <1>2, <1>3 DEF TypeOK
<1>8. ExclusiveHandOut'
  BY <1>2, <1>3, <1>4, <1>5, <1>6 DEF ExclusiveHandOut
<1>9. LiveIffReachable'
  BY <1>3, <1>4, <1>5, <1>6 DEF LiveIffReachable
<1>10. ControlOK'
  BY <1>2, <1>3, <1>4, PoolNames DEF ControlOK, Procs
<1> QED
  BY <1>7, <1>8, <1>9, <1>10 DEF Ownership

(* A new client is at an address nobody knows. *)
LEMMA CreateOwnership ==
  ASSUME Ownership, NEW t \in Threads, CreatePooledClient(t)
  PROVE  Ownership'
<1>1. /\ TypeOK /\ ExclusiveHandOut /\ LiveIffReachable /\ ControlOK
      /\ t \in Procs /\ pc[t] = "acquired" /\ doomed[t] = {} /\ client[t] = NoClient
      /\ host[t] \in Hosts
  BY DEF Ownership, CreatePooledClient, At, Procs, ControlOK
<1>2. UNCHANGED <<idle, key, since, now, success, doomed, main, orphans>> /\ IdleClients' = IdleClients
  BY DEF CreatePooledClient, pool, IdleClients
<1>3. CASE NoSuchClient(t)
  <2>1. pc' = [pc EXCEPT ![t] = "ready"] /\ host' = [host EXCEPT ![t] = NoHost] /\ UNCHANGED <<heap, client>>
    BY <1>3 DEF NoSuchClient
  <2>2. \A p \in Procs : Held(p)' = Held(p)
    BY <1>2, <2>1 DEF Held
  <2>3. TypeOK'
    BY <1>1, <1>2, <2>1 DEF TypeOK
  <2>4. ExclusiveHandOut' /\ LiveIffReachable'
    BY <1>1, <1>2, <2>1, <2>2 DEF ExclusiveHandOut, LiveIffReachable
  <2>5. ControlOK'
    BY <1>1, <1>2, <2>1 DEF ControlOK, TypeOK
  <2> QED
    BY <2>3, <2>4, <2>5 DEF Ownership
<1>4. ASSUME NEW a \in Addrs \ Allocated, NEW connected \in BOOLEAN,
             ClientClass(host[t]) # "none", NewClient(t, a, connected)
      PROVE  Ownership'
  <2> DEFINE c == [class      |-> ClientClass(host[t]),
                   login      |-> host[t].login,
                   url_encode |-> ~(host[t].type = "HTTP_SERVER" /\ host[t].http_server_type = "Github"),
                   connected  |-> connected,
                   xfercb     |-> FALSE,
                   failed     |-> FALSE]
  <2>1. /\ heap' = [heap EXCEPT ![a] = c]
        /\ client' = [client EXCEPT ![t] = a]
        /\ pc' = [pc EXCEPT ![t] = "created"]
        /\ host' = host
    BY <1>4 DEF NewClient
  <2>2. c \in Client
    <3>1. ClientClass(host[t]) \in Classes
      BY <1>4 DEF ClientClass, Classes, HttpClasses
    <3>2. host[t].login \in Logins
      BY <1>1, PoolNames DEF HostInfo
    <3> QED
      BY <3>1, <3>2 DEF Client
  <2> HIDE DEF c
  <2>3. heap[a] = Freed /\ heap'[a] # Freed /\ \A b \in Addrs : b # a => heap'[b] = heap[b]
    BY <1>1, <1>4, <2>1, <2>2, PoolNames DEF Allocated, TypeOK
  <2>4. a \in Addrs /\ a # NoClient /\ a \notin IdleClients /\ \A p \in Procs : a \notin Held(p)
    BY <1>1, <2>3, PoolNames DEF LiveIffReachable
  <2>5. /\ client'[t] = a
        /\ \A p \in Procs : p # t => client'[p] = client[p]
    BY <1>1, <2>1 DEF TypeOK
  <2>6. /\ Held(t) = {} /\ Held(t)' = {a}
        /\ \A p \in Procs : p # t => Held(p)' = Held(p)
    BY <1>1, <1>2, <2>4, <2>5 DEF Held
  <2>7. TypeOK'
    BY <1>1, <1>2, <2>1, <2>2 DEF TypeOK
  <2>8. ExclusiveHandOut'
    <3>1. \A p \in Procs : client'[p] \notin doomed'[p]
      BY <1>1, <1>2, <2>5 DEF ExclusiveHandOut
    <3> QED
      BY <1>1, <1>2, <2>4, <2>6, <3>1 DEF ExclusiveHandOut
  <2>9. LiveIffReachable'
    BY <1>1, <1>2, <2>3, <2>6 DEF LiveIffReachable
  <2>10. ControlOK'
    BY <1>1, <1>2, <2>1, <2>4, <2>5, PoolNames DEF ControlOK, TypeOK, Procs
  <2> QED
    BY <2>7, <2>8, <2>9, <2>10 DEF Ownership
<1> QED
  BY <1>3, <1>4 DEF CreatePooledClient

(* A step that moves no client and allocates or frees none. *)
LEMMA NoClientMoves ==
  ASSUME ExclusiveHandOut, LiveIffReachable, UNCHANGED <<idle, client, doomed>>,
         \A a \in Addrs : heap'[a] # Freed <=> heap[a] # Freed
  PROVE  ExclusiveHandOut' /\ LiveIffReachable'
<1>1. IdleClients' = IdleClients /\ \A p \in Procs : Held(p)' = Held(p)
  BY DEF IdleClients, Held
<1> QED
  BY <1>1 DEF ExclusiveHandOut, LiveIffReachable

(* The client a thread holds is an object on the heap. *)
LEMMA HeldIsAllocated ==
  ASSUME Ownership, NEW t \in Threads, client[t] # NoClient
  PROVE  client[t] \in Addrs /\ heap[client[t]] \in Client
BY DEF Ownership, TypeOK, LiveIffReachable, Held, Procs

(* The second critical section of the acquire only writes client_pool_key. *)
LEMMA RegisterOwnership ==
  ASSUME Ownership, NEW t \in Threads, RegisterClient(t)
  PROVE  Ownership'
<1>1. /\ TypeOK /\ ExclusiveHandOut /\ LiveIffReachable /\ ControlOK
      /\ pc[t] = "created" /\ host[t] \in Hosts
  BY DEF Ownership, RegisterClient, At, ControlOK
<1>2. key' \in [Addrs -> Keys \cup {NoKey}]
  BY <1>1 DEF RegisterClient, Keys, TypeOK
<1>3. TypeOK'
  BY <1>1, <1>2 DEF RegisterClient, TypeOK
<1>4. ExclusiveHandOut' /\ LiveIffReachable'
  BY <1>1, NoClientMoves DEF RegisterClient
<1>5. ControlOK'
  BY <1>1 DEF RegisterClient, ControlOK, TypeOK
<1> QED
  BY <1>3, <1>4, <1>5 DEF Ownership

(* Installing the transfer callback writes to a client the thread holds. *)
LEMMA StartOwnership ==
  ASSUME Ownership, NEW t \in Threads, StartTransfer(t)
  PROVE  Ownership'
<1>1. /\ TypeOK /\ ExclusiveHandOut /\ LiveIffReachable /\ ControlOK
      /\ pc[t] = "acquired" /\ client[t] # NoClient
      /\ client[t] \in Addrs /\ heap[client[t]] \in Client
  BY HeldIsAllocated DEF Ownership, StartTransfer, At
<1>2. /\ heap' \in [Addrs -> Client \cup {Freed}]
      /\ \A a \in Addrs : heap'[a] # Freed <=> heap[a] # Freed
  <2>1. [heap[client[t]] EXCEPT !.xfercb = TRUE] \in Client
    BY <1>1 DEF Client
  <2> QED
    BY <1>1, <2>1, PoolNames DEF StartTransfer, TypeOK
<1>3. TypeOK'
  BY <1>1, <1>2 DEF StartTransfer, TypeOK, pool
<1>4. ExclusiveHandOut' /\ LiveIffReachable'
  BY <1>1, <1>2, NoClientMoves DEF StartTransfer, pool
<1>5. ControlOK'
  BY <1>1 DEF StartTransfer, ControlOK, TypeOK
<1> QED
  BY <1>3, <1>4, <1>5 DEF Ownership

(* The end of a transfer marks a client the thread holds. *)
LEMMA FinishOwnership ==
  ASSUME Ownership, NEW t \in Threads, FinishTransfer(t)
  PROVE  Ownership'
<1>1. /\ TypeOK /\ ExclusiveHandOut /\ LiveIffReachable /\ ControlOK
      /\ pc[t] = "transfer" /\ client[t] # NoClient
      /\ client[t] \in Addrs /\ heap[client[t]] \in Client
  BY HeldIsAllocated DEF Ownership, FinishTransfer, At, ControlOK
<1>2. PICK ok \in BOOLEAN : /\ heap' = [heap EXCEPT ![client[t]].failed = ~ok]
                            /\ success' = [success EXCEPT ![t] = ok]
  BY DEF FinishTransfer
<1>3. /\ heap' \in [Addrs -> Client \cup {Freed}]
      /\ \A a \in Addrs : heap'[a] # Freed <=> heap[a] # Freed
  <2>1. [heap[client[t]] EXCEPT !.failed = ~ok] \in Client
    BY <1>1 DEF Client
  <2> QED
    BY <1>1, <1>2, <2>1, PoolNames DEF TypeOK
<1>4. TypeOK'
  BY <1>1, <1>2, <1>3 DEF FinishTransfer, TypeOK, pool
<1>5. ExclusiveHandOut' /\ LiveIffReachable'
  BY <1>1, <1>3, NoClientMoves DEF FinishTransfer, pool
<1>6. ControlOK'
  BY <1>1 DEF FinishTransfer, ControlOK, TypeOK
<1> QED
  BY <1>4, <1>5, <1>6 DEF Ownership

(* What a release gives to the pool: the client at the end of the list of  *)
(* its key, without its transfer callback.                                 *)
LEMMA ReturnMoves ==
  ASSUME TypeOK, NEW t \in Threads, client[t] \in Addrs, heap[client[t]] \in Client,
         Poolable(t), ReturnToPool(t)
  PROVE  /\ key[client[t]] \in Keys
         /\ IdleClients' = IdleClients \cup {client[t]}
         /\ idle' \in [Keys -> Seq(Addrs)]
         /\ \A l \in Keys : \A i \in DOMAIN idle'[l] :
              \/ i \in DOMAIN idle[l] /\ idle'[l][i] = idle[l][i]
              \/ l = key[client[t]] /\ i = Len(idle[l]) + 1 /\ idle'[l][i] = client[t]
         /\ heap' \in [Addrs -> Client \cup {Freed}]
         /\ heap'[client[t]] = [heap[client[t]] EXCEPT !.xfercb = FALSE]
         /\ \A b \in Addrs : b # client[t] => heap'[b] = heap[b]
         /\ since' = [since EXCEPT ![client[t]] = now]
         /\ UNCHANGED <<key, doomed>>
<1> DEFINE a == client[t]
           k == key[a]
<1>1. /\ heap' = [heap EXCEPT ![a].xfercb = FALSE]
      /\ idle' = [idle EXCEPT ![k] = Append(@, a)]
      /\ since' = [since EXCEPT ![a] = now]
      /\ UNCHANGED <<key, doomed>>
  BY DEF ReturnToPool
<1>2. k \in Keys
  BY DEF Poolable, TypeOK
<1>3. /\ heap' \in [Addrs -> Client \cup {Freed}]
      /\ heap'[a] = [heap[a] EXCEPT !.xfercb = FALSE]
      /\ \A b \in Addrs : b # a => heap'[b] = heap[b]
  <2>1. [heap[a] EXCEPT !.xfercb = FALSE] \in Client
    BY DEF Client
  <2> QED
    BY <1>1, <2>1 DEF TypeOK
<1>4. /\ idle[k] \in Seq(Addrs) /\ idle'[k] = Append(idle[k], a)
      /\ \A l \in Keys : l # k => idle'[l] = idle[l]
  BY <1>1, <1>2 DEF TypeOK
<1>5. /\ idle'[k] \in Seq(Addrs)
      /\ DOMAIN idle[k] = 1..Len(idle[k]) /\ Len(idle[k]) \in Nat
      /\ DOMAIN idle'[k] = 1..(Len(idle[k]) + 1)
      /\ \A i \in 1..Len(idle[k]) : idle'[k][i] = idle[k][i]
      /\ idle'[k][Len(idle[k]) + 1] = a
  BY <1>4
<1>6. idle' \in [Keys -> Seq(Addrs)]
  BY <1>1, <1>2, <1>5 DEF TypeOK
<1> HIDE DEF k, a
<1>7. \A l \in Keys : \A i \in DOMAIN idle'[l] :
        \/ i \in DOMAIN idle[l] /\ idle'[l][i] = idle[l][i]
        \/ l = k /\ i = Len(idle[l]) + 1 /\ idle'[l][i] = a
  <2>1. \A i \in DOMAIN idle'[k] : i \in DOMAIN idle[k] \/ i = Len(idle[k]) + 1
    BY <1>5
  <2> QED
    BY <1>4, <1>5, <2>1
<1>8. IdleClients' = IdleClients \cup {a}
  <2>1. \A l \in Keys : \A i \in DOMAIN idle'[l] : idle'[l][i] \in IdleClients \cup {a}
    BY <1>7 DEF IdleClients
  <2>2. a \in IdleClients'
    BY <1>2, <1>5 DEF IdleClients
  <2>3. \A l \in Keys : \A i \in DOMAIN idle[l] : i \in DOMAIN idle'[l] /\ idle'[l][i] = idle[l][i]
    <3>1. \A i \in DOMAIN idle[k] : i \in DOMAIN idle'[k] /\ idle'[k][i] = idle[k][i]
      BY <1>5
    <3> QED
      BY <1>4, <3>1
  <2>4. IdleClients \subseteq IdleClients'
    BY <2>3 DEF IdleClients
  <2>5. \A b \in IdleClients' : b \in IdleClients \cup {a}
    <3>1. SUFFICES ASSUME NEW l \in Keys, NEW i \in DOMAIN idle'[l]
                   PROVE  idle'[l][i] \in IdleClients \cup {a}
      BY DEF IdleClients
    <3> QED
      BY <2>1
  <2> QED
    BY <2>2, <2>4, <2>5
<1> QED
  BY <1>1, <1>2, <1>3, <1>6, <1>7, <1>8 DEF k, a

(* The thread gives its client to the idle list or to its own doomed ones. *)
LEMMA ReleaseOwnership ==
  ASSUME Ownership, NEW t \in Threads, ReleaseRemoteClient(t)
  PROVE  Ownership'
<1> DEFINE a == client[t]
<1>1. /\ TypeOK /\ ExclusiveHandOut /\ LiveIffReachable /\ ControlOK
      /\ t \in Procs /\ pc[t] = "release" /\ doomed[t] = {} /\ a # NoClient
      /\ a \in Addrs /\ heap[a] \in Client
  BY HeldIsAllocated DEF Ownership, ReleaseRemoteClient, At, ControlOK, Procs
<1>2. /\ client' = [client EXCEPT ![t] = NoClient]
      /\ host' = [host EXCEPT ![t] = NoHost]
      /\ success' = [success EXCEPT ![t] = FALSE]
      /\ pc' = [pc EXCEPT ![t] = "ready"]
      /\ UNCHANGED <<now, main, orphans>>
  BY DEF ReleaseRemoteClient
<1>3. /\ client'[t] = NoClient
      /\ \A p \in Procs : p # t => client'[p] = client[p]
  BY <1>1, <1>2 DEF TypeOK
<1>4. /\ Held(t) = {a} /\ a \notin IdleClients
      /\ \A p \in Procs : p # t => a \notin Held(p)
  BY <1>1 DEF Held, ExclusiveHandOut
<1>5. CASE Poolable(t) /\ ReturnToPool(t)
  <2>1. /\ key[a] \in Keys /\ IdleClients' = IdleClients \cup {a}
        /\ idle' \in [Keys -> Seq(Addrs)]
        /\ \A l \in Keys : \A i \in DOMAIN idle'[l] :
             \/ i \in DOMAIN idle[l] /\ idle'[l][i] = idle[l][i]
             \/ l = key[a] /\ i = Len(idle[l]) + 1 /\ idle'[l][i] = a
        /\ heap' \in [Addrs -> Client \cup {Freed}] /\ heap'[a] # Freed
        /\ \A b \in Addrs : b # a => heap'[b] = heap[b]
        /\ since' = [since EXCEPT ![a] = now]
        /\ UNCHANGED <<key, doomed>>
    <3>1. [heap[a] EXCEPT !.xfercb = FALSE] \in Client
      BY <1>1 DEF Client
    <3> QED
      BY <1>1, <1>5, <3>1, ReturnMoves, PoolNames
  <2> HIDE DEF a
  <2>2. Held(t)' = {} /\ \A p \in Procs : p # t => Held(p)' = Held(p)
    BY <1>1, <1>3, <2>1 DEF Held
  <2>3. TypeOK'
    BY <1>1, <1>2, <2>1 DEF TypeOK, a
  <2>4. ExclusiveHandOut'
    <3>1. /\ \A p, q \in Procs : p # q => Held(p)' \cap Held(q)' = {}
          /\ \A p \in Procs : Held(p)' \cap IdleClients' = {}
      BY <1>1, <1>4, <2>1, <2>2 DEF ExclusiveHandOut
    <3>2. \A p \in Procs : client'[p] \notin doomed'[p]
      BY <1>1, <1>3, <2>1 DEF ExclusiveHandOut
    <3>3. \A l \in Keys : \A i \in DOMAIN idle[l] : idle[l][i] # a
      BY <1>4 DEF IdleClients
    <3>4. \A l, m \in Keys : \A i \in DOMAIN idle'[l], j \in DOMAIN idle'[m] :
            idle'[l][i] = idle'[m][j] => l = m /\ i = j
      <4>1. \A l1, m1 \in Keys : \A i1 \in DOMAIN idle[l1], j1 \in DOMAIN idle[m1] :
              idle[l1][i1] = idle[m1][j1] => l1 = m1 /\ i1 = j1
        BY <1>1 DEF ExclusiveHandOut
      <4> QED
        BY <2>1, <3>3, <4>1
    <3> QED
      BY <3>1, <3>2, <3>4 DEF ExclusiveHandOut
  <2>5. LiveIffReachable'
    <3>1. \A b \in Addrs : heap'[b] # Freed <=> heap[b] # Freed
      BY <1>1, <2>1, PoolNames
    <3>2. IdleClients' = IdleClients \cup {a}
      BY <2>1
    <3>3. SUFFICES ASSUME NEW b \in Addrs
                   PROVE  heap'[b] # Freed <=> b \in IdleClients' \/ \E p \in Procs : b \in Held(p)'
      BY DEF LiveIffReachable
    <3>4. heap[b] # Freed <=> b \in IdleClients \/ \E p \in Procs : b \in Held(p)
      BY <1>1 DEF LiveIffReachable
    <3>5. CASE b = a
      BY <1>1, <3>1, <3>2, <3>5, PoolNames DEF a
    <3>6. CASE b # a
      BY <1>1, <1>4, <2>2, <3>1, <3>2, <3>4, <3>6
    <3> QED
      BY <3>5, <3>6
  <2>6. ControlOK'
    BY <1>1, <1>2, <1>3, <2>1, PoolNames DEF ControlOK, TypeOK, Procs
  <2> QED
    BY <2>3, <2>4, <2>5, <2>6 DEF Ownership
<1>6. CASE DropFromPool(t)
  <2>1. /\ key' = [key EXCEPT ![a] = NoKey]
        /\ doomed' = [doomed EXCEPT ![t] = {a}]
        /\ UNCHANGED <<heap, idle, since>>
    BY <1>6 DEF DropFromPool
  <2>2. /\ doomed'[t] = {a} /\ \A p \in Procs : p # t => doomed'[p] = doomed[p]
        /\ IdleClients' = IdleClients
    BY <1>1, <2>1 DEF TypeOK, IdleClients
  <2>3. Held(t)' = {a} /\ \A p \in Procs : p # t => Held(p)' = Held(p)
    BY <1>1, <1>3, <2>2 DEF Held
  <2>4. TypeOK'
    BY <1>1, <1>2, <2>1 DEF TypeOK
  <2>5. ExclusiveHandOut'
    <3>1. \A p \in Procs : client'[p] \notin doomed'[p]
      BY <1>1, <1>3, <2>2 DEF ExclusiveHandOut
    <3> QED
      BY <1>1, <1>4, <2>1, <2>2, <2>3, <3>1 DEF ExclusiveHandOut
  <2>6. LiveIffReachable'
    BY <1>1, <1>4, <2>1, <2>2, <2>3 DEF LiveIffReachable
  <2>7. ControlOK'
    BY <1>1, <1>2, <1>3, <2>2, PoolNames DEF ControlOK, TypeOK, Procs
  <2> QED
    BY <2>4, <2>5, <2>6, <2>7 DEF Ownership
<1> QED
  BY <1>5, <1>6 DEF ReleaseRemoteClient

(* The cleared clients go from the idle lists to main. *)
LEMMA ClearOwnership ==
  ASSUME Ownership, ClearClientPool
  PROVE  Ownership'
<1>1. /\ TypeOK /\ ExclusiveHandOut /\ LiveIffReachable /\ ControlOK
      /\ Main \in Procs /\ doomed[Main] = {} /\ client[Main] = NoClient
      /\ IdleClients \subseteq Addrs
  BY ReachableAddrs DEF Ownership, ClearClientPool, ControlOK, Procs
<1>2. /\ doomed' = [doomed EXCEPT ![Main] = IdleClients]
      /\ idle' = [k \in Keys |-> <<>>]
      /\ UNCHANGED <<heap, client, pc, host>>
      /\ main' = "clearing"
  BY DEF ClearClientPool
<1>3. IdleClients' = {} /\ NoClient \notin IdleClients
  BY <1>1, <1>2, PoolNames DEF IdleClients
<1>4. /\ doomed'[Main] = IdleClients /\ \A p \in Procs : p # Main => doomed'[p] = doomed[p]
      /\ Held(Main) = {} /\ Held(Main)' = IdleClients
      /\ \A p \in Procs : p # Main => Held(p)' = Held(p)
  BY <1>1, <1>2 DEF Held, TypeOK
<1>5. TypeOK'
  BY <1>1, <1>2 DEF ClearClientPool, TypeOK
<1>6. ExclusiveHandOut'
  <2>1. \A p \in Procs : client'[p] \notin doomed'[p]
    BY <1>1, <1>2, <1>3, <1>4 DEF ExclusiveHandOut
  <2> QED
    BY <1>1, <1>2, <1>3, <1>4, <2>1 DEF ExclusiveHandOut
<1>7. LiveIffReachable'
  BY <1>1, <1>2, <1>3, <1>4 DEF LiveIffReachable
<1>8. ControlOK'
  BY <1>1, <1>2 DEF ControlOK
<1> QED
  BY <1>5, <1>6, <1>7, <1>8 DEF Ownership

(* The steps that touch neither the clients nor the pool. *)
LEMMA OtherOwnership ==
  ASSUME Ownership,
         StopDownloadThread \/ CancelDownloadThread \/ Exit \/ Tick \/ UNCHANGED vars
  PROVE  Ownership'
<1>1. /\ TypeOK /\ ExclusiveHandOut /\ LiveIffReachable /\ ControlOK
      /\ UNCHANGED <<heap, idle, key, since, host, client, success, doomed, orphans>>
  BY DEF Ownership, StopDownloadThread, CancelDownloadThread, Exit, Tick, pool, vars
<1>2. TypeOK'
  <2>1. now' \in 0..MaxTime
    BY <1>1, PoolSizes DEF StopDownloadThread, CancelDownloadThread, Exit, Tick, vars, TypeOK
  <2>2. pc' \in [Threads -> {"ready", "acquired", "created", "transfer", "release", "cancelled"}]
    BY <1>1 DEF StopDownloadThread, CancelDownloadThread, Exit, Tick, vars, TypeOK
  <2>3. main' \in {"serving", "stopped", "clearing", "exited"}
    BY <1>1 DEF StopDownloadThread, CancelDownloadThread, Exit, Tick, vars, TypeOK
  <2> QED
    BY <1>1, <2>1, <2>2, <2>3 DEF TypeOK
<1>3. ExclusiveHandOut' /\ LiveIffReachable'
  BY <1>1, NoClientMoves
<1>4. ControlOK'
  BY <1>1 DEF StopDownloadThread, CancelDownloadThread, Exit, Tick, vars, ControlOK, TypeOK
<1> QED
  BY <1>2, <1>3, <1>4 DEF Ownership

(* Every step of the pool, its callers and main preserves the invariant. *)
LEMMA StepOwnership == Ownership /\ [Next]_vars => Ownership'
<1> SUFFICES ASSUME Ownership, [Next]_vars PROVE Ownership'
  OBVIOUS
<1>1. ASSUME NEW t \in Threads, NEW h \in Hosts, AcquireRemoteClient(t, h) PROVE Ownership'
  BY <1>1, AcquireOwnership
<1>2. ASSUME NEW t \in Threads, ThreadStep(t) \/ FinishTransfer(t) PROVE Ownership'
  <2>1. t \in Procs
    BY DEF Procs
  <2> QED
    BY <1>2, <2>1, CreateOwnership, RegisterOwnership, StartOwnership, FinishOwnership,
       ReleaseOwnership, DestroyOwnership DEF ThreadStep
<1>3. CASE MainStep
  <2>1. Main \in Procs
    BY DEF Procs
  <2> QED
    BY <1>3, <2>1, ClearOwnership, DestroyOwnership, OtherOwnership DEF MainStep
<1>4. CASE StopDownloadThread \/ CancelDownloadThread \/ Tick \/ Exited \/ UNCHANGED vars
  BY <1>4, OtherOwnership DEF Exited
<1> QED
  BY <1>1, <1>2, <1>3, <1>4 DEF Next

-----------------------------------------------------------------------------
(* The inductive invariant holds in every reachable state. *)
THEOREM PoolOwnership == Spec => []Ownership
BY InitOwnership, StepOwnership, PTL DEF Spec

(* Every variable of the pool keeps its type; in particular a thread only  *)
(* ever sets a field of a client that is still on the heap.                *)
THEOREM PoolTypeOK == Spec => []TypeOK
BY PoolOwnership, PTL DEF Ownership

(* "The pool hands a client out exclusively" (http_server.cpp:386).        *)
THEOREM PoolExclusive == Spec => []ExclusiveHandOut
BY PoolOwnership, PTL DEF Ownership

(* No client is used after its delete, deleted twice or leaked.            *)
THEOREM PoolLive == Spec => []LiveIffReachable
BY PoolOwnership, PTL DEF Ownership

-----------------------------------------------------------------------------
(***************************************************************************)
(* What the clients are used for: the pool's maps agree, and a request     *)
(* gets a working client of its own server.                                *)
(***************************************************************************)
(* A client made for a host with the key k: the key determines the login   *)
(* and, up to the kind of HTTP server, the class.                          *)
Fits(k, c) ==
  /\ c.login = k[2]
  /\ k[1] = "FTP" <=> c.class = "FtpClient"
  /\ k[1] \in {"HTTP_SERVER", "FILEHOST"} => c.class \in {"BaseClient", "ArchiveOrgClient"}

(* The client of a thread: for the host of its request, under the key of   *)
(* that host or under none, and failed only as its release will report.    *)
HeldOK(t) == client[t] # NoClient =>
  /\ host[t] \in Hosts
  /\ key[client[t]] \in {NoKey, ClientPoolKey(host[t])}
  /\ pc[t] = "created" => key[client[t]] = NoKey /\ client[t] \notin orphans
  /\ Fits(ClientPoolKey(host[t]), heap[client[t]])
  /\ pc[t] \in {"created", "acquired"} => ~heap[client[t]].failed
  /\ pc[t] = "release" => heap[client[t]].failed = ~success[t]
  /\ t \in Handlers => ~heap[client[t]].xfercb

(* A client that waits for a request. *)
Usable(k, c) == Fits(k, c) /\ c.connected /\ ~c.failed /\ ~c.xfercb
IdleOK == \A k \in Keys : \A i \in DOMAIN idle[k] : Usable(k, heap[idle[k][i]])

(* The clients checked out at the clear are on the heap without a key.     *)
OrphansOK == \A a \in orphans : heap[a] # Freed /\ key[a] = NoKey /\ a \notin IdleClients

(* The inductive invariant: a client that is taken from the pool fits its  *)
(* request because it fitted the key it was registered under, so the maps, *)
(* the idle and the held clients have to be followed together.             *)
Usage == Ownership /\ MapsAgree /\ (\A t \in Threads : HeldOK(t)) /\ IdleOK /\ OrphansOK

(* Nothing is held, idle or orphaned at the start.                         *)
LEMMA InitUsage == Init => Usage
<1> SUFFICES ASSUME Init PROVE Usage
  OBVIOUS
<1>1. IdleClients = {} /\ Ownership
  BY InitOwnership DEF Init, IdleClients
<1>2. MapsAgree
  BY <1>1 DEF Init, MapsAgree
<1>3. /\ \A t \in Threads : HeldOK(t)
      /\ IdleOK /\ OrphansOK
  BY DEF Init, HeldOK, IdleOK, OrphansOK, Procs
<1> QED
  BY <1>1, <1>2, <1>3 DEF Usage

(* A client class is created for a host exactly as its key requires.       *)
LEMMA CreatedFits ==
  ASSUME NEW h \in Hosts, ClientClass(h) # "none", NEW c \in Client,
         c.class = ClientClass(h), c.login = h.login
  PROVE  Fits(ClientPoolKey(h), c)
<1>1. h.type \in ClientTypes
  BY PoolNames DEF HostInfo
<1> QED
  BY <1>1 DEF Fits, ClientPoolKey, ClientClass, ClientTypes

(* A thread keeps a client that a step of another thread does not touch.   *)
LEMMA HeldFrame ==
  ASSUME NEW u \in Threads, HeldOK(u),
         client'[u] = client[u], host'[u] = host[u], pc'[u] = pc[u], success'[u] = success[u],
         client[u] # NoClient =>
           /\ key'[client[u]] = key[client[u]]
           /\ heap'[client[u]] = heap[client[u]]
           /\ client[u] \in orphans' => client[u] \in orphans
  PROVE  HeldOK(u)'
BY DEF HeldOK

(* What belongs to two threads, or to a thread and the pool, is different. *)
LEMMA HeldApart ==
  ASSUME Ownership, NEW t \in Threads, client[t] # NoClient
  PROVE  /\ client[t] \in Addrs /\ heap[client[t]] \in Client
         /\ client[t] \notin IdleClients
         /\ \A u \in Threads : u # t => client[u] # client[t]
         /\ \A p \in Procs : client[t] \notin doomed[p]
<1>1. /\ TypeOK /\ ExclusiveHandOut /\ LiveIffReachable /\ t \in Procs
      /\ \A u \in Threads : u \in Procs
  BY DEF Ownership, Procs
<1>2. client[t] \in Held(t)
  BY DEF Held
<1>3. client[t] \in Addrs /\ heap[client[t]] \in Client
  BY <1>1, <1>2 DEF TypeOK, LiveIffReachable
<1>4. client[t] \notin IdleClients
  BY <1>1, <1>2 DEF ExclusiveHandOut
<1>5. ASSUME NEW u \in Threads, u # t PROVE client[u] # client[t]
  BY <1>1, <1>2, <1>5 DEF ExclusiveHandOut, Held
<1>6. ASSUME NEW p \in Procs PROVE client[t] \notin doomed[p]
  BY <1>1, <1>2, <1>6 DEF ExclusiveHandOut, Held
<1> QED
  BY <1>3, <1>4, <1>5, <1>6

(* An idle client is on the heap, and the property of its list is its own. *)
LEMMA IdleOnHeap ==
  ASSUME Ownership, IdleOK, NEW a \in IdleClients
  PROVE  /\ a \in Addrs /\ heap[a] \in Client
         /\ heap[a].connected /\ ~heap[a].failed /\ ~heap[a].xfercb
<1>1. a \in Addrs /\ heap[a] # Freed
  BY ReachableAddrs DEF Ownership, LiveIffReachable
<1>2. PICK k \in Keys : \E i \in DOMAIN idle[k] : a = idle[k][i]
  BY DEF IdleClients
<1> QED
  BY <1>1, <1>2 DEF IdleOK, Usable, Ownership, TypeOK

-----------------------------------------------------------------------------
(* One lemma per action. *)

(* What is taken from the list of a key fits the host with that key. *)
LEMMA AcquireUsage ==
  ASSUME Usage, NEW t \in Threads, NEW h \in Hosts, AcquireRemoteClient(t, h)
  PROVE  Usage'
<1> DEFINE k == ClientPoolKey(h)
<1>1. /\ TypeOK /\ ExclusiveHandOut /\ LiveIffReachable /\ ControlOK /\ Ownership
      /\ MapsAgree /\ IdleOK /\ OrphansOK /\ k \in Keys /\ t \in Procs
      /\ pc[t] = "ready" /\ client[t] = NoClient
      /\ host' = [host EXCEPT ![t] = h]
      /\ pc' = [pc EXCEPT ![t] = "acquired"]
      /\ UNCHANGED <<heap, now, success, main, orphans>>
  BY DEF Usage, Ownership, AcquireRemoteClient, At, Procs, Keys, ControlOK
<1>2. PICK old \in SUBSET Addrs, found \in Addrs \cup {NoClient} : Taken(t, h, old, found)
  BY <1>1, AcquireMoves
<1>3. /\ client'[t] = found /\ host'[t] = h /\ pc'[t] = "acquired"
      /\ \A u \in Threads : u # t => client'[u] = client[u] /\ host'[u] = host[u] /\ pc'[u] = pc[u]
  BY <1>1, <1>2 DEF Taken, TypeOK, Procs
<1>4. /\ old \subseteq IdleClients /\ found \notin old
      /\ IdleClients' = IdleClients \ (old \cup {found})
      /\ \A a \in Addrs : key'[a] = (IF a \in old THEN NoKey ELSE key[a])
      /\ \A a \in Addrs : since'[a] = (IF a \in old \cup {found} THEN NoTime ELSE since[a])
  BY <1>2 DEF Taken
<1>5. \A l \in Keys : \A i \in DOMAIN idle'[l] : i \in DOMAIN idle[l] /\ idle'[l][i] = idle[l][i]
  BY <1>2 DEF Taken
<1>6. found # NoClient => found \in IdleClients /\ key[found] = k /\ Usable(k, heap[found])
  BY <1>1, <1>2 DEF Taken, IdleClients, MapsAgree, IdleOK
<1> HIDE DEF k
<1>7. MapsAgree'
  <2>1. \A a \in Addrs : since'[a] # NoTime <=> a \in IdleClients'
    BY <1>1, <1>4 DEF MapsAgree
  <2>2. ASSUME NEW l \in Keys, NEW i \in DOMAIN idle'[l] PROVE key'[idle'[l][i]] = l
    <3>1. idle'[l][i] \in IdleClients' /\ idle'[l][i] = idle[l][i] /\ idle[l][i] \in IdleClients
      BY <1>5, <2>2 DEF IdleClients
    <3>2. idle'[l][i] \notin old /\ idle'[l][i] \in Addrs
      BY <1>1, <1>4, <3>1, ReachableAddrs
    <3> QED
      BY <1>1, <1>4, <1>5, <3>1, <3>2 DEF MapsAgree
  <2>3. ASSUME NEW a \in Addrs, key'[a] # NoKey
        PROVE  a \in IdleClients' \/ \E u \in Threads : a = client'[u]
    <3>1. a \notin old /\ (a \in IdleClients \/ \E u \in Threads : a = client[u])
      BY <1>1, <1>4, <2>3 DEF MapsAgree
    <3> QED
      BY <1>1, <1>3, <1>4, <3>1, PoolNames
  <2> QED
    BY <2>1, <2>2, <2>3 DEF MapsAgree
<1>8. ASSUME NEW u \in Threads PROVE HeldOK(u)'
  <2>1. CASE u = t
    BY <1>1, <1>3, <1>4, <1>6, <2>1 DEF HeldOK, Usable, k
  <2>2. CASE u # t
    <3>1. client[u] # NoClient => client[u] \in Addrs /\ client[u] \notin old
      BY <1>1, <1>4, HeldApart
    <3> QED
      BY <1>1, <1>3, <1>4, <2>2, <3>1, HeldFrame DEF Usage
  <2> QED
    BY <2>1, <2>2
<1>9. IdleOK'
  BY <1>1, <1>5 DEF IdleOK
<1>10. OrphansOK'
  BY <1>1, <1>4 DEF OrphansOK, TypeOK
<1> QED
  BY <1>1, <1>7, <1>8, <1>9, <1>10, AcquireOwnership DEF Usage

(* An address is free before it is used again: the pool has forgotten it.  *)
LEMMA FreeIsUnknown ==
  ASSUME Usage, NEW a \in Addrs \ Allocated
  PROVE  /\ key[a] = NoKey /\ a \notin IdleClients /\ a \notin orphans
         /\ \A t \in Threads : client[t] # a
<1>1. heap[a] = Freed /\ a \in Addrs /\ Ownership
  BY DEF Allocated, Usage
<1>2. a \notin IdleClients /\ \A t \in Threads : client[t] # a
  BY <1>1, PoolNames DEF Ownership, LiveIffReachable, Held, Procs
<1> QED
  BY <1>1, <1>2 DEF Usage, MapsAgree, OrphansOK

(* A new client is made for the host of the request, and under no key.     *)
LEMMA CreateUsage ==
  ASSUME Usage, NEW t \in Threads, CreatePooledClient(t)
  PROVE  Usage'
<1>1. /\ TypeOK /\ Ownership /\ MapsAgree /\ IdleOK /\ OrphansOK
      /\ t \in Procs /\ client[t] = NoClient /\ host[t] \in Hosts /\ pc[t] = "acquired"
      /\ UNCHANGED <<pool, now, success, doomed, main, orphans>>
  BY DEF Usage, Ownership, CreatePooledClient, At, Procs, ControlOK
<1>2. /\ UNCHANGED <<idle, key, since, success, orphans>>
      /\ IdleClients' = IdleClients
  BY <1>1 DEF pool, IdleClients
<1>3. Ownership'
  BY <1>1, CreateOwnership
<1>4. CASE NoSuchClient(t)
  <2>1. /\ UNCHANGED <<heap, client>>
        /\ \A u \in Threads : u # t => host'[u] = host[u] /\ pc'[u] = pc[u]
    BY <1>1, <1>4 DEF NoSuchClient, TypeOK
  <2>2. ASSUME NEW u \in Threads PROVE HeldOK(u)'
    <3>1. CASE u = t
      BY <1>1, <2>1, <3>1 DEF HeldOK
    <3>2. CASE u # t
      BY <1>2, <2>1, <3>2, HeldFrame DEF Usage
    <3> QED
      BY <3>1, <3>2
  <2>3. MapsAgree' /\ IdleOK' /\ OrphansOK'
    BY <1>1, <1>2, <2>1 DEF MapsAgree, IdleOK, OrphansOK
  <2> QED
    BY <1>3, <2>2, <2>3 DEF Usage
<1>5. ASSUME NEW a \in Addrs \ Allocated, NEW connected \in BOOLEAN, NewClient(t, a, connected),
             ClientClass(host[t]) # "none"
      PROVE  Usage'
  <2> DEFINE c == heap'[a]
  <2>1. /\ c.class = ClientClass(host[t]) /\ c.login = host[t].login
        /\ ~c.xfercb /\ ~c.failed /\ a \in Addrs
        /\ \A b \in Addrs : b # a => heap'[b] = heap[b]
    BY <1>1, <1>5 DEF NewClient, TypeOK
  <2>2. /\ client'[t] = a /\ pc'[t] = "created" /\ UNCHANGED host
        /\ \A u \in Threads : u # t => client'[u] = client[u] /\ pc'[u] = pc[u]
    BY <1>1, <1>5 DEF NewClient, TypeOK, Procs
  <2>3. /\ key[a] = NoKey /\ a \notin IdleClients /\ a \notin orphans
        /\ \A u \in Threads : client[u] # a
    BY <1>5, FreeIsUnknown
  <2>4. a # NoClient /\ c \in Client
    <3>1. t \in Procs /\ client'[t] # NoClient
      BY <1>1, <2>1, <2>2, PoolNames
    <3> QED
      BY <1>3, <2>1, <2>2, <3>1, PoolNames DEF Ownership, LiveIffReachable, TypeOK, Held
  <2> HIDE DEF c
  <2>5. HeldOK(t)'
    <3>1. Fits(ClientPoolKey(host[t]), c)
      BY <1>1, <1>5, <2>1, <2>4, CreatedFits
    <3> QED
      BY <1>1, <1>2, <2>1, <2>2, <2>3, <3>1 DEF HeldOK, c
  <2>6. ASSUME NEW u \in Threads, u # t PROVE HeldOK(u)'
    <3>1. client[u] # NoClient => client[u] \in Addrs /\ client[u] # a
      BY <1>1, <2>3, HeldApart
    <3> QED
      BY <1>2, <2>1, <2>2, <2>6, <3>1, HeldFrame DEF Usage
  <2>7. MapsAgree'
    <3>1. \A b \in Addrs : key'[b] # NoKey =>
            b \in IdleClients' \/ \E u \in Threads : b = client'[u]
      BY <1>1, <1>2, <2>2, <2>3, PoolNames DEF MapsAgree
    <3> QED
      BY <1>1, <1>2, <3>1 DEF MapsAgree
  <2>8. IdleOK'
    <3>1. \A k \in Keys : \A i \in DOMAIN idle[k] : idle[k][i] \in Addrs /\ idle[k][i] # a
      BY <1>1, <2>3, ReachableAddrs DEF IdleClients
    <3> QED
      BY <1>1, <1>2, <2>1, <3>1 DEF IdleOK
  <2>9. OrphansOK'
    BY <1>1, <1>2, <2>1, <2>3 DEF OrphansOK, TypeOK
  <2> QED
    BY <1>3, <2>5, <2>6, <2>7, <2>8, <2>9 DEF Usage
<1> QED
  BY <1>4, <1>5 DEF CreatePooledClient

(* A new client is registered under the key of the host it was made for.   *)
LEMMA RegisterUsage ==
  ASSUME Usage, NEW t \in Threads, RegisterClient(t)
  PROVE  Usage'
<1> DEFINE a == client[t]
<1>1. /\ TypeOK /\ Ownership /\ MapsAgree /\ IdleOK /\ OrphansOK /\ HeldOK(t)
      /\ pc[t] = "created" /\ a # NoClient /\ host[t] \in Hosts
      /\ UNCHANGED <<heap, idle, since, now, host, client, success, doomed, main, orphans>>
      /\ pc' = [pc EXCEPT ![t] = "acquired"]
      /\ key' = [key EXCEPT ![a] = ClientPoolKey(host[t])]
  BY DEF Usage, Ownership, RegisterClient, At, ControlOK
<1>2. /\ pc'[t] = "acquired" /\ \A u \in Threads : u # t => pc'[u] = pc[u]
      /\ IdleClients' = IdleClients
  BY <1>1 DEF TypeOK, IdleClients
<1>3. /\ a \in Addrs /\ a \notin IdleClients /\ a \notin orphans
      /\ \A u \in Threads : u # t => client[u] # a
  BY <1>1, HeldApart DEF HeldOK
<1>4. /\ key'[a] = ClientPoolKey(host[t])
      /\ \A b \in Addrs : b # a => key'[b] = key[b]
  BY <1>1, <1>3 DEF TypeOK
<1>5. HeldOK(t)'
  BY <1>1, <1>2, <1>4 DEF HeldOK
<1>6. ASSUME NEW u \in Threads, u # t PROVE HeldOK(u)'
  <2>1. client[u] # NoClient => client[u] \in Addrs
    BY <1>1, HeldApart
  <2> QED
    BY <1>1, <1>2, <1>3, <1>4, <1>6, <2>1, HeldFrame DEF Usage
<1> HIDE DEF a
<1>7. MapsAgree'
  <2>1. \A k \in Keys : \A i \in DOMAIN idle[k] : idle[k][i] \in Addrs /\ idle[k][i] # a
    BY <1>1, <1>3, ReachableAddrs DEF IdleClients
  <2> QED
    BY <1>1, <1>2, <1>4, <2>1 DEF MapsAgree, a
<1>8. IdleOK' /\ OrphansOK'
  BY <1>1, <1>2, <1>3, <1>4 DEF IdleOK, OrphansOK, TypeOK
<1> QED
  BY <1>1, <1>5, <1>6, <1>7, <1>8, RegisterOwnership DEF Usage

(* Writing to the client a thread holds reaches no other client.           *)
LEMMA HeldWrite ==
  ASSUME Usage, NEW t \in Threads, client[t] # NoClient,
         heap' \in [Addrs -> Client \cup {Freed}],
         \A a \in Addrs : a # client[t] => heap'[a] = heap[a],
         heap'[client[t]] # Freed,
         UNCHANGED <<idle, key, since, host, client, orphans>>,
         \A u \in Threads : u # t => pc'[u] = pc[u] /\ success'[u] = success[u]
  PROVE  /\ MapsAgree' /\ IdleOK' /\ OrphansOK'
         /\ \A u \in Threads : u # t => HeldOK(u)'
<1>1. /\ TypeOK /\ Ownership /\ MapsAgree /\ IdleOK /\ OrphansOK /\ IdleClients' = IdleClients
  BY DEF Usage, Ownership, IdleClients
<1>2. /\ client[t] \notin IdleClients
      /\ \A u \in Threads : u # t => client[u] # client[t]
  BY <1>1, HeldApart
<1>3. MapsAgree'
  BY <1>1 DEF MapsAgree
<1>4. IdleOK'
  <2>1. \A k \in Keys : \A i \in DOMAIN idle[k] : idle[k][i] \in Addrs /\ idle[k][i] # client[t]
    BY <1>1, <1>2, ReachableAddrs DEF IdleClients
  <2> QED
    BY <1>1, <2>1 DEF IdleOK
<1>5. OrphansOK'
  BY <1>1 DEF OrphansOK, TypeOK
<1>6. ASSUME NEW u \in Threads, u # t PROVE HeldOK(u)'
  <2>1. client[u] # NoClient => client[u] \in Addrs /\ client[u] # client[t]
    BY <1>1, <1>2, <1>6, HeldApart
  <2> QED
    BY <1>6, <2>1, HeldFrame DEF Usage
<1> QED
  BY <1>3, <1>4, <1>5, <1>6

(* Only the download thread installs its callback.                         *)
LEMMA StartUsage ==
  ASSUME Usage, NEW t \in Threads, StartTransfer(t)
  PROVE  Usage'
<1>1. /\ TypeOK /\ Ownership /\ HeldOK(t) /\ pc[t] = "acquired" /\ client[t] # NoClient
      /\ client[t] \in Addrs /\ heap[client[t]] \in Client
      /\ UNCHANGED <<idle, key, since, host, client, success, orphans>>
      /\ pc'[t] = "transfer" /\ \A u \in Threads : u # t => pc'[u] = pc[u]
  BY HeldApart DEF Usage, Ownership, StartTransfer, At, pool, TypeOK
<1>2. /\ heap'[client[t]] = (IF t = Downloader /\ host[t].type = "FTP"
                             THEN [heap[client[t]] EXCEPT !.xfercb = TRUE] ELSE heap[client[t]])
      /\ \A a \in Addrs : a # client[t] => heap'[a] = heap[a]
  BY <1>1 DEF StartTransfer, TypeOK
<1>3. Ownership'
  BY <1>1, StartOwnership
<1>4. heap'[client[t]] # Freed /\ heap' \in [Addrs -> Client \cup {Freed}]
  <2>1. client'[t] = client[t] /\ t \in Procs
    BY <1>1 DEF Procs
  <2> QED
    BY <1>1, <1>3, <2>1, PoolNames DEF Ownership, LiveIffReachable, TypeOK, Held
<1>5. HeldOK(t)'
  <2>1. /\ heap'[client[t]].class = heap[client[t]].class
        /\ heap'[client[t]].login = heap[client[t]].login
        /\ t \in Handlers => heap'[client[t]] = heap[client[t]]
    BY <1>1, <1>2, PoolNames DEF Client
  <2>2. Fits(ClientPoolKey(host[t]), heap'[client[t]])
    BY <1>1, <2>1 DEF HeldOK, Fits
  <2> QED
    BY <1>1, <2>1, <2>2 DEF HeldOK
<1> QED
  BY <1>1, <1>2, <1>3, <1>4, <1>5, HeldWrite DEF Usage

(* The transfer's result is what the release will be told.                 *)
LEMMA FinishUsage ==
  ASSUME Usage, NEW t \in Threads, FinishTransfer(t)
  PROVE  Usage'
<1>1. /\ TypeOK /\ Ownership /\ HeldOK(t) /\ pc[t] = "transfer" /\ client[t] # NoClient
      /\ client[t] \in Addrs /\ heap[client[t]] \in Client
      /\ UNCHANGED <<idle, key, since, host, client, orphans>>
      /\ pc'[t] = "release" /\ \A u \in Threads : u # t => pc'[u] = pc[u]
  BY HeldApart DEF Usage, Ownership, FinishTransfer, At, pool, TypeOK, ControlOK
<1>2. PICK ok \in BOOLEAN :
        /\ heap' = [heap EXCEPT ![client[t]].failed = ~ok]
        /\ success' = [success EXCEPT ![t] = ok]
  BY DEF FinishTransfer
<1>3. /\ heap'[client[t]] = [heap[client[t]] EXCEPT !.failed = ~ok] /\ success'[t] = ok
      /\ \A a \in Addrs : a # client[t] => heap'[a] = heap[a]
      /\ \A u \in Threads : u # t => success'[u] = success[u]
  BY <1>1, <1>2 DEF TypeOK
<1>4. Ownership'
  BY <1>1, FinishOwnership
<1>5. heap'[client[t]] # Freed /\ heap' \in [Addrs -> Client \cup {Freed}]
  <2>1. client'[t] = client[t] /\ t \in Procs
    BY <1>1 DEF Procs
  <2> QED
    BY <1>1, <1>4, <2>1, PoolNames DEF Ownership, LiveIffReachable, TypeOK, Held
<1>6. HeldOK(t)'
  <2>1. /\ heap'[client[t]].class = heap[client[t]].class
        /\ heap'[client[t]].login = heap[client[t]].login
        /\ heap'[client[t]].xfercb = heap[client[t]].xfercb
        /\ heap'[client[t]].failed = ~success'[t]
    BY <1>1, <1>3 DEF Client
  <2>2. Fits(ClientPoolKey(host[t]), heap'[client[t]])
    BY <1>1, <2>1 DEF HeldOK, Fits
  <2> QED
    BY <1>1, <2>1, <2>2 DEF HeldOK
<1> QED
  BY <1>1, <1>3, <1>4, <1>5, <1>6, HeldWrite DEF Usage

(* A client goes back under its own key, working and without a callback,   *)
(* or loses its key; one that lost its key at the clear does not go back.  *)
LEMMA ReleaseUsage ==
  ASSUME Usage, NEW t \in Threads, ReleaseRemoteClient(t)
  PROVE  Usage'
<1> DEFINE a == client[t]
<1>1. /\ TypeOK /\ Ownership /\ MapsAgree /\ IdleOK /\ OrphansOK /\ HeldOK(t)
      /\ pc[t] = "release" /\ a # NoClient /\ t \in Procs
      /\ UNCHANGED <<now, main, orphans>>
  BY DEF Usage, Ownership, ReleaseRemoteClient, At, ControlOK, Procs
<1>2. /\ client'[t] = NoClient
      /\ \A u \in Threads : u # t => /\ client'[u] = client[u] /\ host'[u] = host[u]
                                     /\ success'[u] = success[u] /\ pc'[u] = pc[u]
  BY <1>1 DEF ReleaseRemoteClient, TypeOK, Procs
<1>3. /\ a \in Addrs /\ heap[a] \in Client /\ a \notin IdleClients
      /\ \A u \in Threads : u # t => client[u] # a
  BY <1>1, HeldApart
<1>4. \A u \in Threads : client[u] # NoClient => client[u] \in Addrs
  BY <1>1, HeldApart
<1>5. HeldOK(t)'
  BY <1>2 DEF HeldOK
<1>6. Ownership'
  BY <1>1, ReleaseOwnership
<1>7. \A k \in Keys : \A i \in DOMAIN idle[k] :
        idle[k][i] \in Addrs /\ idle[k][i] # a /\ idle[k][i] \in IdleClients
  BY <1>1, <1>3, ReachableAddrs DEF IdleClients
<1>8. CASE Poolable(t) /\ ReturnToPool(t)
  <2>1. /\ key[a] \in Keys
        /\ IdleClients' = IdleClients \cup {a}
        /\ \A l \in Keys : \A i \in DOMAIN idle'[l] :
             \/ i \in DOMAIN idle[l] /\ idle'[l][i] = idle[l][i]
             \/ l = key[a] /\ i = Len(idle[l]) + 1 /\ idle'[l][i] = a
        /\ heap'[a] = [heap[a] EXCEPT !.xfercb = FALSE]
        /\ \A b \in Addrs : b # a => heap'[b] = heap[b]
        /\ since' = [since EXCEPT ![a] = now]
        /\ UNCHANGED <<key, doomed>>
    BY <1>1, <1>3, <1>8, ReturnMoves
  <2>2. key[a] = ClientPoolKey(host[t]) /\ success[t] /\ heap[a].connected
    BY <1>1, <1>8, <2>1, KeyNames DEF HeldOK, Poolable
  <2>3. Usable(key[a], heap'[a])
    BY <1>1, <1>3, <2>1, <2>2 DEF HeldOK, Usable, Fits, Client
  <2> HIDE DEF a
  <2>4. ASSUME NEW u \in Threads, u # t PROVE HeldOK(u)'
    BY <1>1, <1>2, <1>3, <1>4, <2>1, <2>4, HeldFrame DEF Usage
  <2>5. MapsAgree'
    <3>1. now # NoTime /\ since'[a] = now /\ \A b \in Addrs : b # a => since'[b] = since[b]
      BY <1>1, <1>3, <2>1, PoolSizes DEF TypeOK, NoTime
    <3>2. \A b \in Addrs : since'[b] # NoTime <=> b \in IdleClients'
      BY <1>1, <2>1, <3>1 DEF MapsAgree
    <3>3. \A l \in Keys : \A i \in DOMAIN idle'[l] : key'[idle'[l][i]] = l
      BY <1>1, <2>1 DEF MapsAgree
    <3>4. \A b \in Addrs : key'[b] # NoKey =>
            b \in IdleClients' \/ \E u \in Threads : b = client'[u]
      <4>1. \A b \in Addrs : key[b] # NoKey =>
              b \in IdleClients \/ \E u \in Threads : b = client[u]
        BY <1>1 DEF MapsAgree
      <4> QED
        BY <1>2, <2>1, <4>1 DEF a
    <3> QED
      BY <3>2, <3>3, <3>4 DEF MapsAgree
  <2>6. IdleOK'
    BY <1>1, <1>7, <2>1, <2>3 DEF IdleOK
  <2>7. OrphansOK'
    <3>1. a \notin orphans
      BY <1>1, <2>1, KeyNames DEF OrphansOK
    <3> QED
      BY <1>1, <2>1, <3>1 DEF OrphansOK, TypeOK
  <2> QED
    BY <1>5, <1>6, <2>4, <2>5, <2>6, <2>7 DEF Usage
<1>9. CASE DropFromPool(t)
  <2>1. /\ key'[a] = NoKey /\ \A b \in Addrs : b # a => key'[b] = key[b]
        /\ UNCHANGED <<heap, idle, since>> /\ IdleClients' = IdleClients
    BY <1>1, <1>3, <1>9 DEF DropFromPool, TypeOK, IdleClients
  <2>2. ASSUME NEW u \in Threads, u # t PROVE HeldOK(u)'
    BY <1>1, <1>2, <1>3, <1>4, <2>1, <2>2, HeldFrame DEF Usage
  <2>3. MapsAgree'
    <3>1. \A b \in Addrs : key'[b] # NoKey =>
            b \in IdleClients' \/ \E u \in Threads : b = client'[u]
      <4>1. \A b \in Addrs : key[b] # NoKey =>
              b \in IdleClients \/ \E u \in Threads : b = client[u]
        BY <1>1 DEF MapsAgree
      <4> QED
        BY <1>2, <2>1, <4>1
    <3>2. \A l \in Keys : \A i \in DOMAIN idle'[l] : key'[idle'[l][i]] = l
      BY <1>1, <1>7, <2>1 DEF MapsAgree
    <3> QED
      BY <1>1, <2>1, <3>1, <3>2 DEF MapsAgree
  <2>4. IdleOK' /\ OrphansOK'
    BY <1>1, <2>1 DEF IdleOK, OrphansOK, TypeOK
  <2> QED
    BY <1>5, <1>6, <2>2, <2>3, <2>4 DEF Usage
<1> QED
  BY <1>8, <1>9 DEF ReleaseRemoteClient

(* What is destroyed is neither idle nor held, and is not an orphan after. *)
LEMMA DestroyUsage ==
  ASSUME Usage, NEW p \in Procs, DestroyPooledClient(p)
  PROVE  Usage'
<1>1. /\ TypeOK /\ Ownership /\ ExclusiveHandOut /\ MapsAgree /\ IdleOK /\ OrphansOK
      /\ UNCHANGED <<idle, key, since, pc, host, client, success>>
      /\ IdleClients' = IdleClients
  BY DEF Usage, Ownership, DestroyPooledClient, pool, IdleClients
<1>2. PICK a \in doomed[p] : heap' = [heap EXCEPT ![a] = Freed] /\ orphans' = orphans \ {a}
  BY DEF DestroyPooledClient
<1>3. /\ a \notin IdleClients /\ \A u \in Threads : client[u] # NoClient => client[u] # a
      /\ \A b \in Addrs : b # a => heap'[b] = heap[b]
  BY <1>1, <1>2, HeldApart DEF ExclusiveHandOut, Held, TypeOK
<1>4. ASSUME NEW u \in Threads PROVE HeldOK(u)'
  <2>1. client[u] # NoClient => client[u] \in Addrs
    BY <1>1, HeldApart
  <2> QED
    BY <1>1, <1>2, <1>3, <2>1, HeldFrame DEF Usage
<1>5. MapsAgree'
  BY <1>1 DEF MapsAgree
<1>6. IdleOK'
  <2>1. \A k \in Keys : \A i \in DOMAIN idle[k] : idle[k][i] \in Addrs /\ idle[k][i] # a
    BY <1>1, <1>3, ReachableAddrs DEF IdleClients
  <2> QED
    BY <1>1, <1>3, <2>1 DEF IdleOK
<1>7. OrphansOK'
  BY <1>1, <1>2, <1>3 DEF OrphansOK, TypeOK
<1> QED
  BY <1>1, <1>4, <1>5, <1>6, <1>7, DestroyOwnership DEF Usage

(* At the clear every key is dropped, and only clients that had one are    *)
(* orphans: a client about to be registered is not.                        *)
LEMMA ClearUsage ==
  ASSUME Usage, ClearClientPool
  PROVE  Usage'
<1>1. /\ TypeOK /\ Ownership /\ LiveIffReachable /\ MapsAgree
      /\ UNCHANGED <<heap, pc, host, client, success>>
      /\ idle' = [k \in Keys |-> <<>>]
      /\ key' = [a \in Addrs |-> NoKey] /\ since' = [a \in Addrs |-> NoTime]
      /\ orphans' = {a \in Addrs : key[a] # NoKey /\ a \notin IdleClients}
  BY DEF Usage, Ownership, ClearClientPool
<1>2. IdleClients' = {}
  BY <1>1 DEF IdleClients
<1>3. ASSUME NEW u \in Threads PROVE HeldOK(u)'
  <2>1. client[u] # NoClient => client[u] \in Addrs
    BY <1>1, HeldApart
  <2> QED
    BY <1>1, <1>3, <2>1 DEF HeldOK, Usage
<1>4. MapsAgree' /\ IdleOK'
  BY <1>1, <1>2 DEF MapsAgree, IdleOK
<1>5. OrphansOK'
  <2>1. \A a \in Addrs : key[a] # NoKey /\ a \notin IdleClients => heap[a] # Freed
    BY <1>1, PoolNames DEF MapsAgree, LiveIffReachable, Held, Procs
  <2> QED
    BY <1>1, <1>2, <2>1 DEF OrphansOK
<1> QED
  BY <1>1, <1>3, <1>4, <1>5, ClearOwnership DEF Usage

(* The steps that touch neither the clients nor the pool.                  *)
LEMMA OtherUsage ==
  ASSUME Usage,
         StopDownloadThread \/ CancelDownloadThread \/ Exit \/ Tick \/ UNCHANGED vars
  PROVE  Usage'
<1>1. /\ Ownership /\ TypeOK /\ MapsAgree /\ IdleOK /\ OrphansOK
      /\ UNCHANGED <<heap, idle, key, since, host, client, success, orphans>>
      /\ IdleClients' = IdleClients
      /\ \A u \in Threads : pc'[u] = pc[u] \/ pc'[u] = "cancelled"
  BY DEF Usage, Ownership, StopDownloadThread, CancelDownloadThread, Exit, Tick, pool, vars,
         IdleClients, TypeOK
<1>2. ASSUME NEW u \in Threads PROVE HeldOK(u)'
  BY <1>1, <1>2 DEF HeldOK, Usage
<1>3. MapsAgree' /\ IdleOK' /\ OrphansOK'
  BY <1>1 DEF MapsAgree, IdleOK, OrphansOK
<1> QED
  BY <1>1, <1>2, <1>3, OtherOwnership DEF Usage

(* Every step of the pool, its callers and main preserves the invariant.   *)
LEMMA StepUsage == Usage /\ [Next]_vars => Usage'
<1> SUFFICES ASSUME Usage, [Next]_vars PROVE Usage'
  OBVIOUS
<1>1. ASSUME NEW t \in Threads, NEW h \in Hosts, AcquireRemoteClient(t, h) PROVE Usage'
  BY <1>1, AcquireUsage
<1>2. ASSUME NEW t \in Threads, ThreadStep(t) \/ FinishTransfer(t) PROVE Usage'
  <2>1. t \in Procs
    BY DEF Procs
  <2> QED
    BY <1>2, <2>1, CreateUsage, RegisterUsage, StartUsage, FinishUsage, ReleaseUsage,
       DestroyUsage DEF ThreadStep
<1>3. CASE MainStep
  <2>1. Main \in Procs
    BY DEF Procs
  <2> QED
    BY <1>3, <2>1, ClearUsage, DestroyUsage, OtherUsage DEF MainStep
<1>4. CASE StopDownloadThread \/ CancelDownloadThread \/ Tick \/ Exited \/ UNCHANGED vars
  BY <1>4, OtherUsage DEF Exited
<1> QED
  BY <1>1, <1>2, <1>3, <1>4 DEF Next

-----------------------------------------------------------------------------
(* The inductive invariant holds in every reachable state. *)
THEOREM PoolUsage == Spec => []Usage
BY InitUsage, StepUsage, PTL DEF Spec

(* The three maps of the pool agree, so that a client at a reused address  *)
(* finds nothing of its predecessor (http_server.cpp:132-135).             *)
THEOREM PoolMapsAgree == Spec => []MapsAgree
BY PoolUsage, PTL DEF Usage

(* "a client that failed is never handed out again" (http_server.cpp:334), *)
(* and a request is served by a connection to its own server, of a class   *)
(* the casts of http_server.cpp:193 and 399 may rely on.                   *)
THEOREM PoolHandedOutFits == Spec => []HandedOutFits
<1>1. ASSUME Usage
      PROVE  \A a \in IdleClients : heap[a].connected /\ ~heap[a].failed
  BY <1>1, IdleOnHeap DEF Usage
<1>2. ASSUME Usage, NEW t \in Threads, client[t] # NoClient, pc[t] # "cancelled"
      PROVE  /\ pc[t] = "acquired" => ~heap[client[t]].failed
             /\ heap[client[t]].login = host[t].login
             /\ host[t].type = "FTP" <=> heap[client[t]].class = "FtpClient"
             /\ host[t].type \in {"HTTP_SERVER", "FILEHOST"} =>
                  heap[client[t]].class \in {"BaseClient", "ArchiveOrgClient"}
  BY <1>2 DEF Usage, HeldOK, Fits, ClientPoolKey
<1>3. Usage => HandedOutFits
  BY <1>1, <1>2 DEF HandedOutFits
<1> QED
  BY <1>3, PoolUsage, PTL

(* No idle client and no handler's client has the download thread's        *)
(* callback installed (ftpclient.cpp:1391).                                *)
THEOREM PoolCallbackNotInherited == Spec => []CallbackNotInherited
<1>1. Usage => CallbackNotInherited
  BY IdleOnHeap DEF Usage, HeldOK, CallbackNotInherited, Threads
<1> QED
  BY <1>1, PoolUsage, PTL

(* A client that was checked out at the clear never becomes idle again     *)
(* (http_server.cpp:320).                                                  *)
THEOREM PoolOrphansNeverPooled == Spec => []OrphansNeverPooled
<1>1. Usage => OrphansNeverPooled
  BY DEF Usage, OrphansOK, OrphansNeverPooled
<1> QED
  BY <1>1, PoolUsage, PTL

=============================================================================
