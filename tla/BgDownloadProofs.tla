-------------------------- MODULE BgDownloadProofs --------------------------
(***************************************************************************)
(* Proofs about BgDownload, for any number of downloads, blocks, attempts, *)
(* naps and crashes.                                                       *)
(***************************************************************************)
EXTENDS BgDownload, WellFoundedInduction, TLAPS

(***************************************************************************)
(* What Selected computes, for every list, by induction on its length; the *)
(* induction is over a set of naturals.                                    *)
(***************************************************************************)
(* A non-empty set of naturals has a least element.                        *)
LEMMA LeastNatural ==
  ASSUME NEW S \in SUBSET Nat, S # {}
  PROVE  \E x \in S : \A y \in S : x <= y
<1> DEFINE less == {p \in Nat \X Nat : p[1] < p[2]}
<1>1. IsWellFoundedOn(less, Nat)
  BY NatLessThanWellFounded DEF OpToRel
<1>2. PICK x \in S : \A y \in S : <<y, x>> \notin less
  <2> HIDE DEF less
  <2> QED
    BY <1>1, WFMin
<1>3. ASSUME NEW y \in S PROVE x <= y
  <2>1. ~(y < x)
    BY <1>2
  <2> QED
    BY <2>1
<1> QED
  BY <1>3

(* Induction up to a bound, for a set instead of a predicate.              *)
LEMMA InductionTo ==
  ASSUME NEW bound \in Nat, NEW S, 0 \in S,
         \A n \in 0..(bound - 1) : n \in S => n + 1 \in S
  PROVE  \A n \in 0..bound : n \in S
<1> SUFFICES ASSUME NEW n \in 0..bound, n \notin S PROVE FALSE
  OBVIOUS
<1> DEFINE R == (0..bound) \ S
<1>1. PICK x \in R : \A y \in R : x <= y
  <2>1. R \in SUBSET Nat /\ R # {}
    OBVIOUS
  <2> HIDE DEF R
  <2> QED
    BY <2>1, LeastNatural
<1>2. x - 1 \in 0..(bound - 1) /\ x - 1 \in S
  BY <1>1
<1> QED
  BY <1>1, <1>2

(* How a list l was made of the kept positions of s up to n: by picking    *)
(* all of them, in their order.                                            *)
Picks(f, l, s, keep, n) ==
  /\ f \in [1..Len(l) -> keep \cap (1..n)]
  /\ \A m \in 1..Len(l) : l[m] = s[f[m]]
  /\ \A p, q \in 1..Len(l) : p < q => f[p] < f[q]
  /\ \A p \in keep \cap (1..n) : \E m \in 1..Len(l) : f[m] = p

(* One more position: skipped, or picked at the end.                       *)
LEMMA PicksOneMore ==
  ASSUME NEW S, NEW s \in Seq(S), NEW keep, NEW n \in 0..(Len(s) - 1), NEW l \in Seq(S),
         NEW f, Picks(f, l, s, keep, n)
  PROVE  IF n + 1 \in keep
         THEN \E g : Picks(g, Append(l, s[n + 1]), s, keep, n + 1)
         ELSE Picks(f, l, s, keep, n + 1)
<1> DEFINE k == Len(l)
<1>1. k \in Nat /\ n \in Nat /\ n + 1 \in 1..Len(s) /\ s[n + 1] \in S
  OBVIOUS
<1>2. 1..(n + 1) = (1..n) \cup {n + 1}
  BY <1>1
<1>3. CASE n + 1 \notin keep
  <2>1. keep \cap (1..(n + 1)) = keep \cap (1..n)
    BY <1>2, <1>3
  <2> QED
    BY <1>3, <2>1 DEF Picks
<1>4. CASE n + 1 \in keep
  <2> DEFINE r == Append(l, s[n + 1])
             g == [m \in 1..(k + 1) |-> IF m = k + 1 THEN n + 1 ELSE f[m]]
  <2>1. /\ Len(r) = k + 1 /\ r[k + 1] = s[n + 1]
        /\ \A m \in 1..k : r[m] = l[m]
    BY <1>1
  <2>2. /\ g[k + 1] = n + 1 /\ \A m \in 1..k : g[m] = f[m]
        /\ \A m \in 1..(k + 1) : m = k + 1 \/ m \in 1..k
    BY <1>1
  <2>3. \A m \in 1..k : f[m] \in keep /\ f[m] \in 1..n
    BY DEF Picks
  <2>4. g \in [1..(k + 1) -> keep \cap (1..(n + 1))]
    BY <1>1, <1>2, <1>4, <2>2, <2>3
  <2> HIDE DEF g, r, k
  <2>5. \A m \in 1..(k + 1) : r[m] = s[g[m]]
    BY <2>1, <2>2 DEF Picks, k
  <2>6. ASSUME NEW p \in 1..(k + 1), NEW q \in 1..(k + 1), p < q PROVE g[p] < g[q]
    <3>1. p \in 1..k
      BY <1>1, <2>6
    <3>2. g[p] = f[p] /\ f[p] \in 1..n
      BY <2>2, <2>3, <3>1
    <3>3. CASE q = k + 1
      BY <1>1, <2>2, <3>2, <3>3
    <3>4. CASE q \in 1..k
      BY <2>2, <2>6, <3>1, <3>2, <3>4 DEF Picks, k
    <3> QED
      BY <2>2, <3>3, <3>4
  <2>7. ASSUME NEW p \in keep \cap (1..(n + 1)) PROVE \E m \in 1..(k + 1) : g[m] = p
    <3>1. k + 1 \in 1..(k + 1) /\ \A m \in 1..k : m \in 1..(k + 1)
      BY <1>1
    <3>2. CASE p = n + 1
      BY <2>2, <3>1, <3>2
    <3>3. CASE p \in 1..n
      BY <2>2, <2>7, <3>1, <3>3 DEF Picks, k
    <3> QED
      BY <1>2, <2>7, <3>2, <3>3
  <2>8. Picks(g, r, s, keep, n + 1)
    BY <2>1, <2>4, <2>5, <2>6, <2>7 DEF Picks
  <2> QED
    BY <1>4, <2>8 DEF r
<1> QED
  BY <1>3, <1>4

(* The recursion of Selected on the list s and the positions keep.         *)
Recursion(s, keep, sel, bound) ==
  sel = [n \in 0..bound |->
           IF n = 0 THEN <<>>
           ELSE IF n \in keep THEN Append(sel[n - 1], s[n]) ELSE sel[n - 1]]

(* The recursion has a solution.                                           *)
LEMMA RecursionSolved ==
  ASSUME NEW S, NEW s \in Seq(S), NEW keep
  PROVE  \E sel : Recursion(s, keep, sel, Len(s))
<1> DEFINE Good == {n \in 0..Len(s) : \E sel : Recursion(s, keep, sel, n)}
<1>1. 0 \in Good
  <2> DEFINE one == [n \in 0..0 |-> <<>>]
  <2>1. Recursion(s, keep, one, 0)
    BY DEF Recursion
  <2> QED
    BY <2>1
<1>2. ASSUME NEW n \in 0..(Len(s) - 1), n \in Good PROVE n + 1 \in Good
  <2>1. PICK sel : Recursion(s, keep, sel, n)
    BY <1>2
  <2> DEFINE more == [m \in 0..(n + 1) |->
                        IF m <= n THEN sel[m]
                        ELSE IF m \in keep THEN Append(sel[n], s[m]) ELSE sel[n]]
  <2>2. \A m \in 0..n : more[m] = sel[m]
    OBVIOUS
  <2>3. \A m \in 1..(n + 1) : m - 1 \in 0..n /\ more[m - 1] = sel[m - 1]
    BY <2>2
  <2>4. ASSUME NEW m \in 0..(n + 1)
        PROVE  more[m] = (IF m = 0 THEN <<>>
                          ELSE IF m \in keep THEN Append(more[m - 1], s[m]) ELSE more[m - 1])
    <3>1. CASE m \in 0..n
      <4>1. sel[m] = (IF m = 0 THEN <<>>
                      ELSE IF m \in keep THEN Append(sel[m - 1], s[m]) ELSE sel[m - 1])
        BY <2>1, <3>1 DEF Recursion
      <4> QED
        BY <2>2, <2>3, <3>1, <4>1
    <3>2. CASE m = n + 1
      BY <2>3, <3>2
    <3> QED
      BY <3>1, <3>2
  <2>5. Recursion(s, keep, more, n + 1)
    BY <2>4 DEF Recursion
  <2> QED
    BY <2>5
<1> HIDE DEF Good
<1>3. \A n \in 0..Len(s) : n \in Good
  BY <1>1, <1>2, InductionTo
<1> QED
  BY <1>3 DEF Good

(* What Selected computes: the kept elements of the list, all of them and  *)
(* in their order.                                                         *)
LEMMA SelectedPicks ==
  ASSUME NEW S, NEW s \in Seq(S), NEW keep
  PROVE  /\ Selected(s, keep) \in Seq(S)
         /\ \E f : Picks(f, Selected(s, keep), s, keep, Len(s))
<1> DEFINE sel == CHOOSE g : Recursion(s, keep, g, Len(s))
<1>1. Recursion(s, keep, sel, Len(s))
  BY RecursionSolved
<1>2. Selected(s, keep) = sel[Len(s)]
  BY DEF Selected, Recursion
<1> HIDE DEF sel
<1>3. \A n \in 0..Len(s) : sel[n] = (IF n = 0 THEN <<>>
                                    ELSE IF n \in keep THEN Append(sel[n - 1], s[n]) ELSE sel[n - 1])
  BY <1>1 DEF Recursion
<1> DEFINE Good == {n \in 0..Len(s) : sel[n] \in Seq(S) /\ \E f : Picks(f, sel[n], s, keep, n)}
<1>4. 0 \in Good
  <2>1. 0 \in 0..Len(s)
    OBVIOUS
  <2>2. sel[0] = <<>>
    BY <1>3, <2>1
  <2>3. <<>> \in Seq(S)
    OBVIOUS
  <2> DEFINE none == [m \in 1..0 |-> m]
  <2>4. Picks(none, <<>>, s, keep, 0)
    BY DEF Picks
  <2>5. \E f : Picks(f, sel[0], s, keep, 0)
    <3> HIDE DEF none
    <3> QED
      BY <2>2, <2>4
  <2> QED
    BY <2>1, <2>2, <2>3, <2>5
<1>5. ASSUME NEW n \in 0..(Len(s) - 1), n \in Good PROVE n + 1 \in Good
  <2>1. PICK f : Picks(f, sel[n], s, keep, n)
    BY <1>5
  <2>2. sel[n] \in Seq(S) /\ n + 1 \in 0..Len(s) /\ n + 1 # 0 /\ (n + 1) - 1 = n /\ s[n + 1] \in S
    BY <1>5
  <2>3. sel[n + 1] = IF n + 1 \in keep THEN Append(sel[n], s[n + 1]) ELSE sel[n]
    BY <1>3, <2>2
  <2>4. IF n + 1 \in keep
        THEN \E g : Picks(g, Append(sel[n], s[n + 1]), s, keep, n + 1)
        ELSE Picks(f, sel[n], s, keep, n + 1)
    BY <2>1, <2>2, PicksOneMore
  <2>5. sel[n + 1] \in Seq(S)
    BY <2>2, <2>3
  <2>6. \E g : Picks(g, sel[n + 1], s, keep, n + 1)
    BY <2>3, <2>4
  <2> QED
    BY <2>2, <2>5, <2>6
<1> HIDE DEF Good
<1>6. \A n \in 0..Len(s) : n \in Good
  BY <1>4, <1>5, InductionTo
<1> QED
  BY <1>2, <1>6 DEF Good

(* The same by elements: a selection has the kept elements and no others,  *)
(* and two of its positions come from two positions.                       *)
THEOREM SelectedElements ==
  ASSUME NEW S, NEW s \in Seq(S), NEW keep
  PROVE  LET r == Selected(s, keep) IN
         /\ r \in Seq(S)
         /\ \A m \in DOMAIN r : \E n \in DOMAIN s : n \in keep /\ r[m] = s[n]
         /\ \A n \in DOMAIN s : n \in keep => \E m \in DOMAIN r : r[m] = s[n]
         /\ \A p, q \in DOMAIN r : p # q =>
              \E m, n \in DOMAIN s : m # n /\ r[p] = s[m] /\ r[q] = s[n]
<1> DEFINE r == Selected(s, keep)
<1>1. r \in Seq(S)
  BY SelectedPicks
<1>2. PICK f : Picks(f, r, s, keep, Len(s))
  BY SelectedPicks
<1>3. DOMAIN s = 1..Len(s) /\ DOMAIN r = 1..Len(r) /\ Len(r) \in Nat
  BY <1>1
<1> HIDE DEF r
<1>4. \A m \in DOMAIN r : f[m] \in DOMAIN s /\ f[m] \in keep /\ r[m] = s[f[m]]
  BY <1>2, <1>3 DEF Picks
<1>5. \A n \in DOMAIN s : n \in keep => \E m \in DOMAIN r : r[m] = s[n]
  BY <1>2, <1>3 DEF Picks
<1>6. ASSUME NEW p \in DOMAIN r, NEW q \in DOMAIN r, p # q PROVE f[p] # f[q]
  <2>1. p < q \/ q < p
    BY <1>3, <1>6
  <2>2. f[p] < f[q] \/ f[q] < f[p]
    BY <1>2, <1>3, <2>1 DEF Picks
  <2>3. f[p] \in Nat /\ f[q] \in Nat
    BY <1>3, <1>4
  <2> QED
    BY <2>2, <2>3
<1>7. \A m \in DOMAIN r : \E n \in DOMAIN s : n \in keep /\ r[m] = s[n]
  BY <1>4
<1>8. \A p, q \in DOMAIN r : p # q =>
        \E m, n \in DOMAIN s : m # n /\ r[p] = s[m] /\ r[q] = s[n]
  <2> SUFFICES ASSUME NEW p \in DOMAIN r, NEW q \in DOMAIN r, p # q
               PROVE  \E m, n \in DOMAIN s : m # n /\ r[p] = s[m] /\ r[q] = s[n]
    OBVIOUS
  <2>1. /\ f[p] \in DOMAIN s /\ f[q] \in DOMAIN s /\ f[p] # f[q]
        /\ r[p] = s[f[p]] /\ r[q] = s[f[q]]
    BY <1>4, <1>6
  <2> QED
    BY <2>1
<1> QED
  BY <1>1, <1>5, <1>7, <1>8 DEF r

-----------------------------------------------------------------------------

(* What is true of a row in the list and in the history: attempts are      *)
(* counted from the first resumption on, and only a row that is finished   *)
(* for good is flagged.                                                    *)
RowOK(row) ==
  /\ row.state \in {"PENDING", "DOWNLOADING"} => row.failed_attempts = 0
  /\ row.state = "RESUMED" => row.failed_attempts < MAX_FAILED_ATTEMPTS
  /\ row.remove_requested => Finished(row) /\ row.job \in cleared
  /\ req[row.job] # "unsent"

OneRowPerJob(rows) == \A m, n \in DOMAIN rows : rows[m].job = rows[n].job => m = n

ListOK == OneRowPerJob(list) /\ \A n \in DOMAIN list : RowOK(list[n])

HistoryOK ==
  /\ history = Torn => torn
  /\ history # Torn =>
       /\ OneRowPerJob(history)
       /\ \A n \in DOMAIN history : RowOK(history[n]) /\ ~history[n].remove_requested

(* The temporary file exists while Get writes to it. *)
OutputOpen == pc = "xfer" => tmp[DestPath[temp_file]] # NoFile

(* The inductive invariant of the list and its history. *)
QueueInv == TypeOK /\ IndexNamesItsRow /\ ListOK /\ HistoryOK /\ OutputOpen

(* A download is kept from the moment it is added, saved or not. *)
Retained ==
  \A j \in Jobs : req[j] \in {"adding", "answered"} /\ j \notin cleared \cup aged /\ ~torn =>
    j \in Shown
KeptInv == Retained /\ AnsweredIsKept

(* The position of a transfer: the offset Get was given is the size of the *)
(* temporary file or nothing, and from then on the row counts its blocks.  *)
TransferOK ==
  /\ pc \in {"save_start", "get"} =>
       /\ offset = 0 \/ offset = TmpSize(temp_file)
       /\ Type[temp_file] = "FTP" => g_dl_offset = offset
  /\ pc = "xfer" =>
       IF Type[temp_file] = "FTP"
       THEN /\ g_dl_offset + xfered = TmpSize(temp_file)
            /\ xfered > 0 => list[i].bytes_transfered = TmpSize(temp_file)
       ELSE list[i].bytes_transfered = TmpSize(temp_file)

(* The contents for a job with a destination of its own and a client that  *)
(* resumes where it is told to: not HTTP, whose servers may ignore it.     *)
Reliable(j) == OwnPath(j) /\ Type[j] # "HTTP"

IsPrefixOf(file, j) == Len(file) <= FileSize /\ \A n \in 1..Len(file) : file[n] = <<j, n>>

TmpOK(j) ==
  LET file == tmp[DestPath[j]] IN
  /\ file # NoFile => IsPrefixOf(file, j)
  /\ pc = "xfer" /\ temp_file = j =>
       Len(file) + Len(body) = FileSize /\ \A n \in 1..Len(body) : body[n] = <<j, Len(file) + n>>

FinalOK(j) ==
  \A row \in Rows \cup SavedRows :
    row.job = j /\ row.state = "SUCCESS" =>
      /\ final[DestPath[j]] \in File /\ IsPrefixOf(final[DestPath[j]], j)
      /\ Type[j] # "FTP" => Len(final[DestPath[j]]) = FileSize

ContentOK == \A j \in Jobs : Reliable(j) => TmpOK(j) /\ FinalOK(j)

-----------------------------------------------------------------------------
(* Facts about the operators of the model. *)

(* The rest of a source is a file. *)
LEMMA BlocksFile ==
  ASSUME NEW j \in Jobs, NEW o \in Nat
  PROVE  /\ Blocks(j, o) \in File
         /\ Len(Blocks(j, o)) = (IF o <= FileSize THEN FileSize - o ELSE 0)
         /\ \A n \in 1..Len(Blocks(j, o)) : Blocks(j, o)[n] = <<j, o + n>>
<1> DEFINE k == IF o <= FileSize THEN FileSize - o ELSE 0
<1>1. k \in Nat /\ 1..(FileSize - o) = 1..k
  BY DownloadBounds
<1>2. \A n \in 1..k : <<j, o + n>> \in Block
  BY <1>1, DownloadBounds DEF Block
<1>3. Blocks(j, o) = [n \in 1..k |-> <<j, o + n>>]
  BY <1>1 DEF Blocks
<1> HIDE DEF k
<1>4. Blocks(j, o) \in Seq(Block)
  <2> DEFINE e(n) == <<j, o + n>>
  <2>1. Blocks(j, o) = [n \in 1..k |-> e(n)] /\ \A n \in 1..k : e(n) \in Block
    BY <1>2, <1>3
  <2> HIDE DEF e
  <2> QED
    BY <1>1, <2>1
<1>5. Len(Blocks(j, o)) = k
  BY <1>1, <1>3
<1>6. \A n \in 1..k : Blocks(j, o)[n] = <<j, o + n>>
  BY <1>3
<1> QED
  BY <1>4, <1>5, <1>6 DEF File, k

(* What a server sends is a file. *)
LEMMA AnswersFiles ==
  ASSUME NEW j \in Jobs, offset \in Nat, NEW answer \in Answers(j)
  PROVE  answer \in File
<1>1. <<j, 0>> \in Block
  BY DownloadBounds DEF Block
<1>2. <<<<j, 0>>>> \in File
  BY <1>1 DEF File
<1>3. Blocks(j, offset) \in File /\ Whole(j) \in File
  BY BlocksFile DEF Whole
<1> QED
  BY <1>2, <1>3 DEF Answers

(* The size of a temporary file, and the file once it was opened. *)
LEMMA TmpFiles ==
  ASSUME TypeOK, NEW j \in Jobs
  PROVE  /\ DestPath[j] \in Paths /\ tmp[DestPath[j]] \in File \cup {NoFile}
         /\ TmpSize(j) \in Nat
         /\ Opened(DestPath[j]) \in [Paths -> File \cup {NoFile}]
         /\ Opened(DestPath[j])[DestPath[j]] =
              (IF offset = 0 \/ tmp[DestPath[j]] = NoFile THEN <<>> ELSE tmp[DestPath[j]])
         /\ \A p \in Paths : p # DestPath[j] => Opened(DestPath[j])[p] = tmp[p]
<1>1. DestPath[j] \in Paths /\ tmp[DestPath[j]] \in File \cup {NoFile}
  BY JobKinds DEF TypeOK
<1>2. <<>> \in File
  BY DEF File
<1>3. TmpSize(j) \in Nat
  BY <1>1 DEF TmpSize, File
<1> QED
  BY <1>1, <1>2, <1>3 DEF TypeOK, Opened

(* The fields of a row. *)
LEMMA RowType ==
  ASSUME NEW rows \in Seq(BgDownloadData), NEW n \in DOMAIN rows
  PROVE  /\ rows[n] \in BgDownloadData /\ rows[n].job \in Jobs /\ rows[n].state \in States
         /\ rows[n].failed_attempts \in 0..MAX_FAILED_ATTEMPTS /\ rows[n].bytes_transfered \in Nat
         /\ rows[n].remove_requested \in BOOLEAN
<1>1. rows[n] \in BgDownloadData
  OBVIOUS
<1> QED
  BY <1>1 DEF BgDownloadData

(* Changing one row. *)
LEMMA RowChanged ==
  ASSUME NEW rows \in Seq(BgDownloadData), NEW n \in DOMAIN rows, NEW row \in BgDownloadData
  PROVE  /\ [rows EXCEPT ![n] = row] \in Seq(BgDownloadData)
         /\ DOMAIN [rows EXCEPT ![n] = row] = DOMAIN rows
         /\ [rows EXCEPT ![n] = row][n] = row
         /\ \A m \in DOMAIN rows : m # n => [rows EXCEPT ![n] = row][m] = rows[m]
OBVIOUS

(* What a save writes: the recent rows, unflagged.                         *)
LEMMA PersistedRows ==
  ASSUME TypeOK
  PROVE  /\ Persisted \in Seq(BgDownloadData)
         /\ \A m \in DOMAIN Persisted : \E n \in DOMAIN list :
              Recent(list[n]) /\ Persisted[m] = Unflagged(list[n])
         /\ \A n \in DOMAIN list : Recent(list[n]) =>
              \E m \in DOMAIN Persisted : Persisted[m] = Unflagged(list[n])
         /\ \A p, q \in DOMAIN Persisted : p # q =>
              \E m, n \in DOMAIN list : /\ m # n
                                        /\ Persisted[p] = Unflagged(list[m])
                                        /\ Persisted[q] = Unflagged(list[n])
<1> DEFINE keep == {n \in DOMAIN list : Recent(list[n])}
           kept == Selected(list, keep)
<1>1. /\ kept \in Seq(BgDownloadData)
      /\ \A m \in DOMAIN kept : \E n \in DOMAIN list : n \in keep /\ kept[m] = list[n]
      /\ \A n \in DOMAIN list : n \in keep => \E m \in DOMAIN kept : kept[m] = list[n]
      /\ \A p, q \in DOMAIN kept : p # q =>
           \E m, n \in DOMAIN list : m # n /\ kept[p] = list[m] /\ kept[q] = list[n]
  <2>1. list \in Seq(BgDownloadData)
    BY DEF TypeOK
  <2> HIDE DEF keep
  <2> QED
    BY <2>1, SelectedElements
<1>2. Persisted = [n \in DOMAIN kept |-> Unflagged(kept[n])]
  BY DEF Persisted
<1>3. \A n \in DOMAIN list : n \in keep <=> Recent(list[n])
  OBVIOUS
<1> HIDE DEF kept, keep
<1>4. \A row \in BgDownloadData : Unflagged(row) \in BgDownloadData
  BY DEF Unflagged, BgDownloadData
<1>5. Persisted \in Seq(BgDownloadData)
  <2>1. DOMAIN kept = 1..Len(kept) /\ Len(kept) \in Nat /\ \A n \in 1..Len(kept) : kept[n] \in BgDownloadData
    BY <1>1
  <2> QED
    BY <1>2, <1>4, <2>1
<1>6. \A m \in DOMAIN Persisted : m \in DOMAIN kept /\ Persisted[m] = Unflagged(kept[m])
  BY <1>2
<1>7. \A m \in DOMAIN kept : m \in DOMAIN Persisted
  BY <1>2
<1>8. \A m \in DOMAIN Persisted : \E n \in DOMAIN list :
        Recent(list[n]) /\ Persisted[m] = Unflagged(list[n])
  BY <1>1, <1>3, <1>6
<1>9. ASSUME NEW n \in DOMAIN list, Recent(list[n])
      PROVE  \E m \in DOMAIN Persisted : Persisted[m] = Unflagged(list[n])
  BY <1>1, <1>3, <1>6, <1>7, <1>9
<1>10. ASSUME NEW p \in DOMAIN Persisted, NEW q \in DOMAIN Persisted, p # q
       PROVE  \E m, n \in DOMAIN list : /\ m # n
                                        /\ Persisted[p] = Unflagged(list[m])
                                        /\ Persisted[q] = Unflagged(list[n])
  <2>1. PICK m \in DOMAIN list, n \in DOMAIN list : m # n /\ kept[p] = list[m] /\ kept[q] = list[n]
    BY <1>1, <1>6, <1>10
  <2> QED
    BY <1>6, <2>1
<1> QED
  BY <1>5, <1>8, <1>9, <1>10

(* What the erase loop leaves: the rows that are not flagged.              *)
Unerased == Selected(list, {n \in DOMAIN list : Kept(list[n])})

LEMMA UnerasedRows ==
  ASSUME TypeOK
  PROVE  /\ Unerased \in Seq(BgDownloadData)
         /\ \A m \in DOMAIN Unerased : \E n \in DOMAIN list :
              Kept(list[n]) /\ Unerased[m] = list[n]
         /\ \A n \in DOMAIN list : Kept(list[n]) => \E m \in DOMAIN Unerased : Unerased[m] = list[n]
         /\ \A p, q \in DOMAIN Unerased : p # q =>
              \E m, n \in DOMAIN list : m # n /\ Unerased[p] = list[m] /\ Unerased[q] = list[n]
<1> DEFINE keep == {n \in DOMAIN list : Kept(list[n])}
<1>1. list \in Seq(BgDownloadData) /\ \A n \in DOMAIN list : n \in keep <=> Kept(list[n])
  BY DEF TypeOK
<1>2. Unerased = Selected(list, keep)
  BY DEF Unerased
<1> HIDE DEF keep
<1> QED
  BY <1>1, <1>2, SelectedElements

-----------------------------------------------------------------------------
(* How the list and the history change: not at all, or by a save, or in    *)
(* one row.  A request once sent stays sent, a cleared job cleared.        *)
Monotone ==
  /\ cleared \subseteq cleared'
  /\ \A j \in Jobs : req'[j] = "unsent" => req[j] = "unsent"

LEMMA ListFrame ==
  ASSUME TypeOK, ListOK, Monotone, UNCHANGED list
  PROVE  ListOK'
<1>1. \A n \in DOMAIN list : list[n] \in BgDownloadData /\ list[n].job \in Jobs
  BY RowType DEF TypeOK
<1> QED
  BY <1>1 DEF ListOK, RowOK, Monotone, OneRowPerJob, Finished

LEMMA HistoryFrame ==
  ASSUME TypeOK, HistoryOK, Monotone, UNCHANGED <<history, torn>>
  PROVE  HistoryOK'
<1>1. history # Torn => \A n \in DOMAIN history : history[n] \in BgDownloadData /\ history[n].job \in Jobs
  BY RowType DEF TypeOK
<1> QED
  BY <1>1 DEF HistoryOK, RowOK, Monotone, OneRowPerJob, Finished

LEMMA HistorySaved ==
  ASSUME TypeOK, ListOK, Monotone, SaveBgDownloadData
  PROVE  history' \in Seq(BgDownloadData) /\ history' # Torn /\ HistoryOK'
<1>1. history' = Persisted /\ Persisted \in Seq(BgDownloadData) /\ Persisted # Torn
  BY PersistedRows, FileNames DEF SaveBgDownloadData
<1>2. \A n \in DOMAIN list : list[n] \in BgDownloadData /\ list[n].job \in Jobs
  BY RowType DEF TypeOK
<1>3. \A n \in DOMAIN list :
        /\ Unflagged(list[n]).job = list[n].job /\ Unflagged(list[n]).state = list[n].state
        /\ Unflagged(list[n]).failed_attempts = list[n].failed_attempts
        /\ Unflagged(list[n]).remove_requested = FALSE
  BY <1>2 DEF Unflagged, BgDownloadData
<1>4. OneRowPerJob(history')
  <2> SUFFICES ASSUME NEW p \in DOMAIN Persisted, NEW q \in DOMAIN Persisted, p # q
               PROVE  Persisted[p].job # Persisted[q].job
    BY <1>1 DEF OneRowPerJob
  <2>1. PICK m \in DOMAIN list, n \in DOMAIN list :
          m # n /\ Persisted[p] = Unflagged(list[m]) /\ Persisted[q] = Unflagged(list[n])
    BY PersistedRows
  <2> QED
    BY <1>3, <2>1 DEF ListOK, OneRowPerJob
<1>5. ASSUME NEW m \in DOMAIN history' PROVE RowOK(history[m])' /\ ~history'[m].remove_requested
  <2>1. PICK n \in DOMAIN list : history'[m] = Unflagged(list[n])
    BY <1>1, PersistedRows
  <2> QED
    BY <1>2, <1>3, <2>1 DEF ListOK, RowOK, Monotone
<1> QED
  BY <1>1, <1>4, <1>5 DEF HistoryOK, OneRowPerJob

LEMMA RowUpdated ==
  ASSUME TypeOK, ListOK, Monotone, UNCHANGED <<req, cleared>>,
         NEW n \in DOMAIN list, NEW row \in BgDownloadData,
         row.job = list[n].job, RowOK(row), list' = [list EXCEPT ![n] = row]
  PROVE  /\ ListOK' /\ list' \in Seq(BgDownloadData) /\ DOMAIN list' = DOMAIN list
         /\ list'[n] = row
         /\ \A m \in DOMAIN list : m # n => list'[m] = list[m]
<1>1. /\ list' \in Seq(BgDownloadData) /\ DOMAIN list' = DOMAIN list /\ list'[n] = row
      /\ \A m \in DOMAIN list : m # n => list'[m] = list[m]
  BY RowChanged DEF TypeOK
<1>2. \A m \in DOMAIN list' : list'[m].job = list[m].job
  BY <1>1
<1>3. OneRowPerJob(list')
  BY <1>1, <1>2 DEF ListOK, OneRowPerJob
<1>4. ASSUME NEW m \in DOMAIN list' PROVE RowOK(list[m])'
  <2>1. CASE m = n
    BY <1>1, <2>1 DEF RowOK, Finished
  <2>2. CASE m # n
    BY <1>1, <1>4, <2>2 DEF ListOK, RowOK, Finished
  <2> QED
    BY <2>1, <2>2
<1> QED
  BY <1>1, <1>3, <1>4 DEF ListOK, OneRowPerJob

LEMMA InitQueue == Init => QueueInv
<1> SUFFICES ASSUME Init PROVE QueueInv
  OBVIOUS
<1>1. <<>> \in Seq(BgDownloadData) /\ <<>> \in File /\ <<>> # Torn
  <2>1. <<>> \in Seq(BgDownloadData)
    OBVIOUS
  <2>2. <<>> \in File
    BY DEF File
  <2> QED
    BY <2>1, <2>2, FileNames
<1>2. temp_file \in Jobs
  BY JobKinds DEF Init
<1>3. TypeOK
  <2>1. list \in Seq(BgDownloadData) /\ history \in Seq(BgDownloadData) /\ body \in File
    BY <1>1 DEF Init
  <2>2. tmp \in [Paths -> File \cup {NoFile}] /\ final \in [Paths -> File \cup {NoFile}]
    BY DEF Init
  <2>3. naps \in 0..MaxNaps /\ crashes \in 0..MaxCrashes
    BY DownloadBounds DEF Init
  <2>4. i \in Nat \ {0} /\ offset \in Nat /\ xfered \in Nat /\ g_dl_offset \in Nat
    BY DEF Init
  <2>5. /\ rest \in BOOLEAN /\ signalled \in BOOLEAN /\ torn \in BOOLEAN
        /\ aged \subseteq Jobs /\ cleared \subseteq Jobs /\ pc = "pause"
    BY DEF Init
  <2>6. req \in [Jobs -> {"unsent", "adding", "answered", "dropped"}]
    BY DEF Init
  <2> QED
    BY <1>2, <2>1, <2>2, <2>3, <2>4, <2>5, <2>6 DEF TypeOK
<1>4. IndexNamesItsRow /\ ListOK /\ HistoryOK /\ OutputOpen
  BY <1>1 DEF Init, IndexNamesItsRow, Working, ListOK, HistoryOK, OneRowPerJob, OutputOpen
<1> QED
  BY <1>3, <1>4 DEF QueueInv

-----------------------------------------------------------------------------
(* One lemma per group of steps. *)

(* A request adds a row at the end. *)
LEMMA AddQueue ==
  ASSUME QueueInv, NEW j \in Jobs, AddBgDownloadData(j)
  PROVE  QueueInv'
<1>1. /\ TypeOK /\ IndexNamesItsRow /\ ListOK /\ HistoryOK
      /\ req[j] = "unsent" /\ list' = Append(list, NewRow(j))
      /\ req' = [req EXCEPT ![j] = "adding"]
      /\ UNCHANGED <<history, files, pc, i, transfer, rest, signalled, bounds>>
  BY DEF QueueInv, AddBgDownloadData
<1>2. NewRow(j) \in BgDownloadData /\ NewRow(j).job = j
  BY DownloadBounds DEF NewRow, BgDownloadData, States
<1>3. /\ list' \in Seq(BgDownloadData) /\ DOMAIN list' = 1..(Len(list) + 1)
      /\ DOMAIN list = 1..Len(list) /\ Len(list) \in Nat
      /\ list'[Len(list) + 1] = NewRow(j)
      /\ \A n \in 1..Len(list) : list'[n] = list[n]
  BY <1>1, <1>2 DEF TypeOK
<1>4. /\ req'[j] = "adding" /\ \A k \in Jobs : k # j => req'[k] = req[k]
      /\ req' \in [Jobs -> {"unsent", "adding", "answered", "dropped"}]
      /\ Monotone
  BY <1>1 DEF TypeOK, bounds, Monotone
<1>5. TypeOK'
  BY <1>1, <1>3, <1>4 DEF TypeOK, files, transfer, bounds
<1>6. IndexNamesItsRow' /\ OutputOpen'
  BY <1>1, <1>3 DEF IndexNamesItsRow, Working, transfer, QueueInv, OutputOpen, files
<1>7. ListOK'
  <2>1. \A n \in 1..Len(list) : list[n].job # j /\ list[n].job \in Jobs
    BY <1>1, <1>3, RowType DEF ListOK, RowOK, TypeOK
  <2>2. OneRowPerJob(list')
    <3>1. SUFFICES ASSUME NEW m \in DOMAIN list', NEW n \in DOMAIN list', m # n
                   PROVE  list'[m].job # list'[n].job
      BY DEF OneRowPerJob
    <3>2. /\ m \in 1..Len(list) \/ m = Len(list) + 1
          /\ n \in 1..Len(list) \/ n = Len(list) + 1
      BY <1>3, <3>1
    <3> QED
      BY <1>1, <1>2, <1>3, <2>1, <3>1, <3>2 DEF ListOK, OneRowPerJob
  <2>3. ASSUME NEW n \in DOMAIN list' PROVE RowOK(list[n])'
    <3>1. CASE n \in 1..Len(list)
      BY <1>1, <1>3, <1>4, <2>1, <3>1 DEF ListOK, RowOK, Finished, bounds
    <3>2. CASE n = Len(list) + 1
      BY <1>2, <1>3, <1>4, <3>2 DEF RowOK, NewRow
    <3> QED
      BY <1>3, <2>3, <3>1, <3>2
  <2> QED
    BY <2>2, <2>3 DEF ListOK, OneRowPerJob
<1>8. HistoryOK'
  BY <1>1, <1>4, HistoryFrame DEF bounds
<1> QED
  BY <1>5, <1>6, <1>7, <1>8 DEF QueueInv

(* A save leaves the list alone. *)
LEMMA SaveQueue ==
  ASSUME QueueInv,
         SaveAfterErase \/ SaveAfterStart \/ SaveAfterSuccess \/ SaveAfterFailure
           \/ \E j \in Jobs : SaveAndAnswer(j)
  PROVE  QueueInv'
<1>1. /\ TypeOK /\ IndexNamesItsRow /\ ListOK /\ HistoryOK /\ SaveBgDownloadData
      /\ UNCHANGED <<list, files, transfer, rest, signalled, bounds>>
      /\ req' \in [Jobs -> {"unsent", "adding", "answered", "dropped"}]
      /\ \A j \in Jobs : req'[j] = "unsent" => req[j] = "unsent"
      /\ i' \in Nat \ {0}
      /\ \/ UNCHANGED <<pc, i>>
         \/ pc = "save_start" /\ pc' = "get" /\ UNCHANGED i
         \/ pc' \in {"scan", "pause"}
  BY DEF QueueInv, SaveAfterErase, SaveAfterStart, SaveAfterSuccess, SaveAfterFailure,
         SaveAndAnswer, TypeOK
<1>2. Monotone
  BY <1>1 DEF Monotone, bounds
<1>3. history' \in Seq(BgDownloadData) /\ HistoryOK' /\ ListOK'
  BY <1>1, <1>2, HistorySaved, ListFrame
<1>4. TypeOK'
  BY <1>1, <1>3 DEF TypeOK, files, transfer, bounds, SavingLabels
<1>5. IndexNamesItsRow' /\ OutputOpen'
  BY <1>1 DEF IndexNamesItsRow, Working, transfer, QueueInv, OutputOpen, files
<1> QED
  BY <1>3, <1>4, <1>5 DEF QueueInv

(* Clearing flags finished rows where they are. *)
LEMMA ClearQueue ==
  ASSUME QueueInv, ClearDownloadHistory
  PROVE  QueueInv'
<1>1. /\ TypeOK /\ IndexNamesItsRow /\ ListOK /\ HistoryOK
      /\ list' = [n \in DOMAIN list |->
           IF Finished(list[n]) THEN [list[n] EXCEPT !.remove_requested = TRUE] ELSE list[n]]
      /\ cleared' = cleared \cup {list[n].job : n \in {m \in DOMAIN list : Finished(list[m])}}
      /\ UNCHANGED <<history, files, pc, i, transfer, rest, signalled, req, naps, crashes, aged, torn>>
  BY DEF QueueInv, ClearDownloadHistory
<1>2. \A n \in DOMAIN list : list[n] \in BgDownloadData /\ list[n].job \in Jobs
  BY <1>1, RowType DEF TypeOK
<1>3. /\ DOMAIN list' = DOMAIN list
      /\ \A n \in DOMAIN list :
           /\ list'[n] \in BgDownloadData
           /\ list'[n].job = list[n].job /\ list'[n].state = list[n].state
           /\ list'[n].failed_attempts = list[n].failed_attempts
           /\ list'[n].remove_requested => list[n].remove_requested \/ Finished(list[n])
  <2>1. DOMAIN list' = DOMAIN list
    BY <1>1
  <2>2. ASSUME NEW n \in DOMAIN list
        PROVE  list'[n] = list[n]
                 \/ (Finished(list[n]) /\ list'[n] = [list[n] EXCEPT !.remove_requested = TRUE])
    BY <1>1, <2>2
  <2> QED
    BY <1>2, <2>1, <2>2 DEF BgDownloadData
<1>4. list' \in Seq(BgDownloadData)
  <2>1. DOMAIN list = 1..Len(list) /\ Len(list) \in Nat
    BY <1>1 DEF TypeOK
  <2> DEFINE e(n) == list'[n]
  <2>2. list' = [n \in 1..Len(list) |-> e(n)]
    BY <1>1, <2>1
  <2>3. \A n \in 1..Len(list) : e(n) \in BgDownloadData
    BY <1>3, <2>1
  <2> HIDE DEF e
  <2> QED
    BY <2>1, <2>2, <2>3
<1>5. cleared' \subseteq Jobs /\ Monotone
  BY <1>1, <1>2 DEF TypeOK, Monotone
<1>6. TypeOK'
  BY <1>1, <1>4, <1>5 DEF TypeOK, files, transfer
<1>7. IndexNamesItsRow' /\ OutputOpen'
  BY <1>1, <1>3 DEF IndexNamesItsRow, Working, transfer, QueueInv, OutputOpen, files
<1>8. ListOK'
  <2>1. \A n \in DOMAIN list : Finished(list[n]) => list[n].job \in cleared'
    BY <1>1
  <2>2. ASSUME NEW n \in DOMAIN list' PROVE RowOK(list[n])'
    BY <1>1, <1>3, <1>5, <2>1, <2>2 DEF ListOK, RowOK, Finished, Monotone
  <2>3. OneRowPerJob(list')
    BY <1>1, <1>3 DEF ListOK, OneRowPerJob
  <2> QED
    BY <2>2, <2>3 DEF ListOK, OneRowPerJob
<1>9. HistoryOK'
  BY <1>1, <1>5, HistoryFrame
<1> QED
  BY <1>6, <1>7, <1>8, <1>9 DEF QueueInv

(* The erase loop runs between passes, when no row is worked on. *)
LEMMA EraseQueue ==
  ASSUME QueueInv, EraseCleared
  PROVE  QueueInv'
<1>1. /\ TypeOK /\ ListOK /\ HistoryOK /\ list' = Unerased
      /\ pc' \in {"save_erase", "scan"} /\ i' = 1
      /\ UNCHANGED <<history, files, transfer, rest, signalled, req, bounds>>
  BY DEF QueueInv, EraseCleared, Unerased
<1>2. TypeOK'
  BY <1>1, UnerasedRows DEF TypeOK, files, transfer, bounds, SavingLabels
<1>3. IndexNamesItsRow' /\ OutputOpen'
  BY <1>1 DEF IndexNamesItsRow, Working, OutputOpen
<1>4. Monotone
  BY <1>1 DEF Monotone, bounds
<1>5. OneRowPerJob(list')
  <2> SUFFICES ASSUME NEW p \in DOMAIN Unerased, NEW q \in DOMAIN Unerased, p # q
               PROVE  Unerased[p].job # Unerased[q].job
    BY <1>1 DEF OneRowPerJob
  <2>1. PICK m \in DOMAIN list, n \in DOMAIN list : m # n /\ Unerased[p] = list[m] /\ Unerased[q] = list[n]
    BY <1>1, UnerasedRows
  <2> QED
    BY <1>1, <2>1 DEF ListOK, OneRowPerJob
<1>6. ASSUME NEW m \in DOMAIN list' PROVE RowOK(list[m])'
  <2>1. PICK n \in DOMAIN list : list'[m] = list[n]
    BY <1>1, UnerasedRows
  <2> QED
    BY <1>1, <2>1 DEF ListOK, RowOK, Finished, bounds
<1>7. HistoryOK'
  BY <1>1, <1>4, HistoryFrame DEF bounds
<1> QED
  BY <1>2, <1>3, <1>5, <1>6, <1>7 DEF QueueInv, ListOK, OneRowPerJob

(* The row the thread works on is not finished, so nobody has flagged it.  *)
LEMMA WorkedRow ==
  ASSUME QueueInv, pc \in {"save_start", "get", "xfer", "failed"}
  PROVE  /\ i \in DOMAIN list /\ list[i] \in BgDownloadData /\ list[i].job = temp_file
         /\ temp_file \in Jobs /\ list[i].state \in {"DOWNLOADING", "RESUMED"}
         /\ ~Finished(list[i]) /\ RowOK(list[i]) /\ ~list[i].remove_requested
<1>1. /\ i \in DOMAIN list /\ list[i].job = temp_file /\ list[i].state \in {"DOWNLOADING", "RESUMED"}
      /\ temp_file \in Jobs /\ list \in Seq(BgDownloadData)
  BY DEF QueueInv, IndexNamesItsRow, Working, TypeOK
<1>2. list[i] \in BgDownloadData
  BY <1>1, RowType
<1>3. ~Finished(list[i]) /\ RowOK(list[i])
  BY <1>1 DEF QueueInv, ListOK, Finished
<1> QED
  BY <1>1, <1>2, <1>3 DEF RowOK

(* The thread takes a row up. *)
LEMMA TakeUpQueue ==
  ASSUME QueueInv, StartDownload \/ ResumeDownload
  PROVE  QueueInv'
<1> DEFINE new == IF StartDownload THEN "DOWNLOADING" ELSE "RESUMED"
           row == [list[i] EXCEPT !.state = new]
<1>1. /\ TypeOK /\ ListOK /\ HistoryOK /\ pc = "scan" /\ i \in DOMAIN list
      /\ HasClient(list[i]) /\ RowOK(list[i]) /\ list[i] \in BgDownloadData
      /\ UNCHANGED <<history, files, i, body, xfered, rest, signalled, req, bounds>>
  <2>1. TypeOK /\ ListOK /\ HistoryOK
    BY DEF QueueInv
  <2>2. i \in DOMAIN list
    BY <2>1 DEF StartDownload, ResumeDownload, TypeOK
  <2>3. list[i] \in BgDownloadData
    BY <2>1, <2>2, RowType DEF TypeOK
  <2> QED
    BY <2>1, <2>2, <2>3 DEF StartDownload, ResumeDownload, ListOK
<1>2. list' = [list EXCEPT ![i] = row] /\ temp_file' = list[i].job
  BY <1>1 DEF StartDownload, ResumeDownload
<1>3. /\ row \in BgDownloadData /\ row.job = list[i].job /\ row.state = new
      /\ row.failed_attempts = list[i].failed_attempts
      /\ row.remove_requested = list[i].remove_requested
  BY <1>1 DEF BgDownloadData, States
<1>4. RowOK(row)
  <2>1. list[i].failed_attempts < MAX_FAILED_ATTEMPTS /\ ~Finished(list[i])
    <3>1. list[i].state \in {"PENDING", "DOWNLOADING"}
            \/ (list[i].state = "FAILED" /\ list[i].failed_attempts < MAX_FAILED_ATTEMPTS)
      BY DEF StartDownload, ResumeDownload, Fresh, Interrupted
    <3>2. list[i].failed_attempts \in 0..MAX_FAILED_ATTEMPTS
      BY <1>1 DEF BgDownloadData
    <3>3. list[i].failed_attempts < MAX_FAILED_ATTEMPTS
      BY <1>1, <3>1, DownloadBounds DEF RowOK
    <3> QED
      BY <3>1, <3>2, <3>3, DownloadBounds DEF Finished
  <2>2. StartDownload => list[i].failed_attempts = 0
    BY <1>1 DEF StartDownload, Fresh, RowOK
  <2> QED
    BY <1>1, <1>3, <2>1, <2>2 DEF RowOK
<1> HIDE DEF row
<1>5. Monotone
  BY <1>1 DEF Monotone, bounds
<1>6. ListOK' /\ list' \in Seq(BgDownloadData) /\ DOMAIN list' = DOMAIN list /\ list'[i] = row
  BY <1>1, <1>2, <1>3, <1>4, <1>5, RowUpdated DEF bounds
<1>7. TypeOK'
  <2>1. list[i].job \in Jobs /\ TmpSize(list[i].job) \in Nat
    BY <1>1, TmpFiles DEF BgDownloadData
  <2>2. offset' \in Nat /\ g_dl_offset' \in Nat /\ pc' \in {"save_start", "get"}
    BY <1>1, <2>1 DEF StartDownload, ResumeDownload, TypeOK
  <2> QED
    BY <1>1, <1>2, <1>6, <2>1, <2>2 DEF TypeOK, files, bounds, SavingLabels
<1>8. IndexNamesItsRow' /\ OutputOpen'
  <2>1. pc' \in {"save_start", "get"}
    BY DEF StartDownload, ResumeDownload
  <2> QED
    BY <1>1, <1>2, <1>3, <1>6, <2>1 DEF IndexNamesItsRow, Working, OutputOpen
<1>9. HistoryOK'
  BY <1>1, <1>5, HistoryFrame DEF bounds
<1> QED
  BY <1>6, <1>7, <1>8, <1>9 DEF QueueInv

(* A step of Get that writes the progress of its row, or nothing to it. *)
LEMMA CountQueue ==
  ASSUME QueueInv, pc \in {"get", "xfer"}, pc' \in {"xfer", "failed"},
         NEW count \in Nat,
         list' = list \/ list' = [list EXCEPT ![i].bytes_transfered = count],
         tmp' \in [Paths -> File \cup {NoFile}], OutputOpen',
         offset' \in Nat, body' \in File, xfered' \in Nat,
         UNCHANGED <<history, final, i, temp_file, g_dl_offset, rest, signalled, req, bounds>>
  PROVE  QueueInv'
<1>1. /\ TypeOK /\ ListOK /\ HistoryOK /\ IndexNamesItsRow
      /\ i \in DOMAIN list /\ list[i] \in BgDownloadData /\ list[i].job = temp_file
      /\ list[i].state \in {"DOWNLOADING", "RESUMED"} /\ RowOK(list[i])
  BY WorkedRow DEF QueueInv
<1>2. Monotone
  BY DEF Monotone, bounds
<1>3. /\ ListOK' /\ list' \in Seq(BgDownloadData) /\ DOMAIN list' = DOMAIN list
      /\ list'[i].job = list[i].job /\ list'[i].state = list[i].state
  <2>1. CASE list' = list
    BY <1>1, <1>2, <2>1, ListFrame DEF TypeOK
  <2>2. CASE list' = [list EXCEPT ![i].bytes_transfered = count]
    <3> DEFINE row == [list[i] EXCEPT !.bytes_transfered = count]
    <3>1. /\ row \in BgDownloadData /\ row.job = list[i].job /\ row.state = list[i].state
          /\ row.failed_attempts = list[i].failed_attempts
          /\ row.remove_requested = list[i].remove_requested
      BY <1>1 DEF BgDownloadData
    <3>2. RowOK(row)
      BY <1>1, <3>1 DEF RowOK, Finished
    <3>3. list' = [list EXCEPT ![i] = row]
      BY <2>2
    <3> HIDE DEF row
    <3> QED
      BY <1>1, <1>2, <3>1, <3>2, <3>3, RowUpdated DEF bounds
  <2> QED
    BY <2>1, <2>2
<1>4. TypeOK'
  BY <1>1, <1>3 DEF TypeOK, bounds
<1>5. IndexNamesItsRow'
  BY <1>1, <1>3 DEF IndexNamesItsRow, Working
<1>6. HistoryOK'
  BY <1>1, <1>2, HistoryFrame DEF bounds
<1> QED
  BY <1>3, <1>4, <1>5, <1>6 DEF QueueInv

(* Get opens the temporary file, writes to it and ends without success. *)
LEMMA GetQueue ==
  ASSUME QueueInv, GetStarts \/ GetRefused \/ ReceiveBlock \/ ConnectionLost
  PROVE  QueueInv'
<1>1. /\ TypeOK /\ OutputOpen /\ pc \in {"get", "xfer"} /\ i \in DOMAIN list
      /\ list[i] \in BgDownloadData /\ list[i].job = temp_file /\ temp_file \in Jobs
      /\ offset \in Nat /\ body \in File /\ xfered \in Nat /\ g_dl_offset \in Nat
      /\ list[i].bytes_transfered \in Nat
      /\ DestPath[temp_file] \in Paths
  BY WorkedRow, TmpFiles DEF QueueInv, TypeOK, BgDownloadData, GetStarts, GetRefused, ReceiveBlock,
     ConnectionLost
<1>2. <<>> \in File /\ <<>> # NoFile
  <2>1. <<>> \in File
    BY DEF File
  <2> QED
    BY <2>1, FileNames
<1>3. CASE GetStarts
  <2>1. body' \in File
    BY <1>1, <1>3, AnswersFiles DEF GetStarts
  <2>2. tmp' \in [Paths -> File \cup {NoFile}] /\ tmp'[DestPath[temp_file]] # NoFile
    BY <1>1, <1>2, <1>3, TmpFiles DEF GetStarts
  <2>3. /\ list' = list \/ list' = [list EXCEPT ![i].bytes_transfered = offset]
        /\ pc = "get" /\ pc' = "xfer" /\ xfered' = 0 /\ offset' = offset
        /\ UNCHANGED <<history, final, i, temp_file, g_dl_offset, rest, signalled, req, bounds>>
    BY <1>3 DEF GetStarts
  <2> QED
    BY <1>1, <2>1, <2>2, <2>3, CountQueue DEF OutputOpen
<1>4. CASE GetRefused
  <2>1. tmp' \in [Paths -> File \cup {NoFile}]
    BY <1>1, <1>4, TmpFiles DEF GetRefused, TypeOK
  <2>2. /\ list' = list \/ list' = [list EXCEPT ![i].bytes_transfered = offset]
        /\ pc = "get" /\ pc' = "failed" /\ xfered' = 0 /\ offset' = 0 /\ body' = <<>>
        /\ UNCHANGED <<history, final, i, temp_file, g_dl_offset, rest, signalled, req, bounds>>
    BY <1>4 DEF GetRefused, GetReturns
  <2> QED
    BY <1>1, <1>2, <2>1, <2>2, CountQueue DEF OutputOpen
<1>5. CASE ReceiveBlock
  <2> DEFINE p == DestPath[temp_file]
             count == IF Type[list[i].job] = "FTP" THEN g_dl_offset + xfered + 1
                      ELSE list[i].bytes_transfered + 1
  <2>1. count \in Nat
    BY <1>1
  <2>2. tmp[p] \in File /\ body # <<>> /\ pc = "xfer"
    BY <1>1, <1>5 DEF ReceiveBlock, OutputOpen, TypeOK
  <2>3. Append(tmp[p], Head(body)) \in File /\ Tail(body) \in File
    BY <1>1, <2>2 DEF File
  <2>4. Append(tmp[p], Head(body)) # NoFile
    BY <2>3, FileNames
  <2>5. tmp' \in [Paths -> File \cup {NoFile}] /\ tmp'[p] # NoFile
    BY <1>1, <1>5, <2>3, <2>4 DEF ReceiveBlock, TypeOK
  <2>6. /\ list' = [list EXCEPT ![i].bytes_transfered = count]
        /\ pc' = "xfer" /\ xfered' \in Nat /\ offset' = offset /\ body' = Tail(body)
        /\ UNCHANGED <<history, final, i, temp_file, g_dl_offset, rest, signalled, req, bounds>>
    BY <1>1, <1>5 DEF ReceiveBlock
  <2> HIDE DEF count
  <2> QED
    BY <1>1, <2>1, <2>2, <2>3, <2>5, <2>6, CountQueue DEF OutputOpen
<1>6. CASE ConnectionLost
  <2>1. /\ list' = list /\ pc = "xfer" /\ pc' = "failed" /\ xfered' = 0 /\ offset' = 0 /\ body' = <<>>
        /\ UNCHANGED <<tmp, history, final, i, temp_file, g_dl_offset, rest, signalled, req, bounds>>
    BY <1>6 DEF ConnectionLost, GetReturns, files
  <2> QED
    BY <1>1, <1>2, <2>1, CountQueue DEF OutputOpen, TypeOK
<1> QED
  BY <1>3, <1>4, <1>5, <1>6

(* Get is complete: the file is moved into place and the row marked. *)
LEMMA CompleteQueue ==
  ASSUME QueueInv, GetCompletes
  PROVE  QueueInv'
<1> DEFINE row == [list[i] EXCEPT !.state = "SUCCESS"]
<1>1. /\ TypeOK /\ ListOK /\ HistoryOK /\ i \in DOMAIN list /\ list[i] \in BgDownloadData
      /\ list[i].job = temp_file /\ temp_file \in Jobs /\ RowOK(list[i]) /\ ~list[i].remove_requested
  BY WorkedRow DEF QueueInv, GetCompletes
<1>2. /\ DestPath[temp_file] \in Paths /\ tmp[DestPath[temp_file]] \in File \cup {NoFile}
  BY <1>1, TmpFiles
<1>3. /\ list' = [list EXCEPT ![i] = row] /\ pc' = "save_done"
      /\ offset' = 0 /\ body' = <<>> /\ xfered' = 0
      /\ final' = [final EXCEPT ![DestPath[list[i].job]] = tmp[DestPath[temp_file]]]
      /\ tmp' = [tmp EXCEPT ![DestPath[temp_file]] = NoFile]
      /\ UNCHANGED <<history, i, temp_file, g_dl_offset, rest, signalled, req, bounds>>
  BY DEF GetCompletes, GetReturns
<1>4. /\ row \in BgDownloadData /\ row.job = list[i].job /\ row.state = "SUCCESS"
      /\ row.remove_requested = list[i].remove_requested
  BY <1>1 DEF BgDownloadData, States
<1>5. RowOK(row)
  BY <1>1, <1>4 DEF RowOK
<1> HIDE DEF row
<1>6. Monotone
  BY <1>3 DEF Monotone, bounds
<1>7. ListOK' /\ list' \in Seq(BgDownloadData) /\ DOMAIN list' = DOMAIN list /\ list'[i] = row
  BY <1>1, <1>3, <1>4, <1>5, <1>6, RowUpdated DEF bounds
<1>8. TypeOK'
  <2>1. tmp' \in [Paths -> File \cup {NoFile}] /\ final' \in [Paths -> File \cup {NoFile}]
    BY <1>1, <1>2, <1>3 DEF TypeOK
  <2>2. body' \in File
    BY <1>3 DEF File
  <2> QED
    BY <1>1, <1>3, <1>7, <2>1, <2>2 DEF TypeOK, bounds, SavingLabels
<1>9. IndexNamesItsRow' /\ OutputOpen'
  BY <1>1, <1>3, <1>4, <1>7 DEF IndexNamesItsRow, Working, OutputOpen
<1>10. HistoryOK'
  BY <1>1, <1>3, <1>6, HistoryFrame DEF bounds
<1> QED
  BY <1>7, <1>8, <1>9, <1>10 DEF QueueInv

(* Get has failed: a resumption is counted, outside rest mode. *)
LEMMA FailQueue ==
  ASSUME QueueInv, GetFailed
  PROVE  QueueInv'
<1> DEFINE row == [list[i] EXCEPT !.state = "FAILED", !.failed_attempts = AttemptsAfter(list[i])]
<1>1. /\ TypeOK /\ ListOK /\ HistoryOK /\ i \in DOMAIN list /\ list[i] \in BgDownloadData
      /\ list[i].state \in {"DOWNLOADING", "RESUMED"} /\ RowOK(list[i]) /\ ~list[i].remove_requested
  BY WorkedRow DEF QueueInv, GetFailed
<1>2. /\ list' = list \/ list' = [list EXCEPT ![i] = row]
      /\ pc' \in {"save_failed", "pause"}
      /\ UNCHANGED <<history, files, i, transfer, rest, signalled, req, bounds>>
  <2>1. [list EXCEPT ![i].state = "FAILED", ![i].failed_attempts = AttemptsAfter(list[i])]
          = [list EXCEPT ![i] = row]
    BY <1>1 DEF TypeOK, BgDownloadData
  <2> QED
    BY <2>1 DEF GetFailed
<1>3. AttemptsAfter(list[i]) \in 0..MAX_FAILED_ATTEMPTS
  <2>1. list[i].failed_attempts \in 0..MAX_FAILED_ATTEMPTS
    BY <1>1 DEF BgDownloadData
  <2> QED
    BY <1>1, <2>1, DownloadBounds DEF RowOK, AttemptsAfter
<1>4. /\ row \in BgDownloadData /\ row.job = list[i].job /\ row.state = "FAILED"
      /\ row.remove_requested = list[i].remove_requested
  BY <1>1, <1>3 DEF BgDownloadData, States
<1>5. RowOK(row)
  BY <1>1, <1>4 DEF RowOK
<1> HIDE DEF row
<1>6. Monotone
  BY <1>2 DEF Monotone, bounds
<1>7. ListOK' /\ list' \in Seq(BgDownloadData)
  <2>1. CASE list' = list
    BY <1>1, <1>6, <2>1, ListFrame DEF TypeOK
  <2>2. CASE list' = [list EXCEPT ![i] = row]
    BY <1>1, <1>2, <1>4, <1>5, <1>6, <2>2, RowUpdated DEF bounds
  <2> QED
    BY <1>2, <2>1, <2>2
<1>8. TypeOK' /\ IndexNamesItsRow' /\ OutputOpen'
  BY <1>1, <1>2, <1>7 DEF TypeOK, files, transfer, bounds, SavingLabels, IndexNamesItsRow, Working,
     OutputOpen
<1>9. HistoryOK'
  BY <1>1, <1>2, <1>6, HistoryFrame DEF bounds
<1> QED
  BY <1>7, <1>8, <1>9 DEF QueueInv

(* The steps that touch neither the list, nor the history, nor a file. *)
IdleStep ==
  \/ WaitWhilePaused \/ EndOfPass \/ PassOver \/ PauseDownloadThread \/ ResumeDownloadThread
  \/ \E j \in Jobs : Age(j)
  \/ UNCHANGED vars

LEMMA IdleQueue ==
  ASSUME QueueInv, IdleStep
  PROVE  QueueInv'
<1>1. /\ TypeOK /\ ListOK /\ HistoryOK /\ IndexNamesItsRow /\ OutputOpen
      /\ UNCHANGED <<list, history, tmp, final, transfer, req, crashes, cleared, torn>>
      /\ rest' \in BOOLEAN /\ signalled' \in BOOLEAN
      /\ i' \in Nat \ {0} /\ naps' \in 0..MaxNaps /\ aged' \subseteq Jobs
      /\ \/ UNCHANGED <<pc, i>>
         \/ pc' \in {"waiting", "erase", "pause"}
         \/ pc' = "scan"
  <2>1. TypeOK /\ ListOK /\ HistoryOK /\ IndexNamesItsRow /\ OutputOpen
    BY DEF QueueInv
  <2>2. CASE WaitWhilePaused \/ EndOfPass
    BY <2>1, <2>2 DEF WaitWhilePaused, EndOfPass, TypeOK, files, transfer, bounds
  <2>3. CASE PassOver
    BY <2>1, <2>3 DEF PassOver, TypeOK, files, transfer, bounds
  <2>4. CASE PauseDownloadThread
    BY <2>1, <2>4, DownloadBounds DEF PauseDownloadThread, TypeOK, files, transfer
  <2>5. CASE ResumeDownloadThread
    BY <2>1, <2>5 DEF ResumeDownloadThread, TypeOK, files, transfer, bounds
  <2>6. CASE \E j \in Jobs : Age(j)
    BY <2>1, <2>6 DEF Age, TypeOK, files, transfer
  <2>7. CASE UNCHANGED vars
    BY <2>1, <2>7 DEF vars, TypeOK, transfer
  <2> QED
    BY <2>1, <2>2, <2>3, <2>4, <2>5, <2>6, <2>7 DEF IdleStep
<1>2. Monotone
  BY <1>1 DEF Monotone
<1>3. TypeOK'
  BY <1>1 DEF TypeOK, transfer
<1>4. IndexNamesItsRow' /\ OutputOpen'
  BY <1>1 DEF IndexNamesItsRow, Working, OutputOpen, transfer
<1>5. ListOK' /\ HistoryOK'
  BY <1>1, <1>2, ListFrame, HistoryFrame
<1> QED
  BY <1>3, <1>4, <1>5 DEF QueueInv

(* A restart reads back what the last whole save wrote, or nothing. *)
LEMMA CrashQueue ==
  ASSUME QueueInv, CrashAndRestart
  PROVE  QueueInv'
<1>1. /\ TypeOK /\ ListOK /\ HistoryOK
      /\ \/ history' = history /\ torn' = torn
         \/ history' = Torn /\ torn' = TRUE
      /\ list' = IF history' = Torn THEN <<>> ELSE history'
      /\ pc' = "pause" /\ i' = 1 /\ crashes < MaxCrashes /\ crashes' = crashes + 1
      /\ offset' = 0 /\ body' = <<>> /\ xfered' = 0 /\ g_dl_offset' = 0
      /\ rest' = FALSE /\ signalled' = FALSE
      /\ req' = [j \in Jobs |-> IF req[j] = "adding" THEN "dropped" ELSE req[j]]
      /\ UNCHANGED <<tmp, final, temp_file, naps, aged, cleared>>
  BY DEF QueueInv, CrashAndRestart, LoadBgDownloadData, files
<1>2. req' \in [Jobs -> {"unsent", "adding", "answered", "dropped"}] /\ Monotone
  BY <1>1 DEF TypeOK, Monotone
<1>3. HistoryOK'
  <2>1. CASE history' = history /\ torn' = torn
    BY <1>1, <1>2, <2>1, HistoryFrame
  <2>2. CASE history' = Torn /\ torn' = TRUE
    BY <2>2 DEF HistoryOK
  <2> QED
    BY <1>1, <2>1, <2>2
<1>4. list' \in Seq(BgDownloadData) /\ ListOK'
  <2>1. CASE history' = Torn
    BY <1>1, <2>1 DEF ListOK, OneRowPerJob
  <2>2. CASE history' # Torn
    BY <1>1, <1>3, <2>2 DEF ListOK, OneRowPerJob, HistoryOK, TypeOK
  <2> QED
    BY <2>1, <2>2
<1>5. TypeOK'
  <2>1. body' \in File
    BY <1>1 DEF File
  <2>2. crashes' \in 0..MaxCrashes
    BY <1>1, DownloadBounds DEF TypeOK
  <2>3. history' \in Seq(BgDownloadData) \cup {Torn} /\ torn' \in BOOLEAN
    BY <1>1 DEF TypeOK
  <2>4. rest' \in BOOLEAN /\ signalled' \in BOOLEAN
    BY <1>1
  <2> QED
    BY <1>1, <1>2, <1>4, <2>1, <2>2, <2>3, <2>4 DEF TypeOK
<1>6. IndexNamesItsRow' /\ OutputOpen'
  BY <1>1 DEF IndexNamesItsRow, Working, OutputOpen
<1> QED
  BY <1>3, <1>4, <1>5, <1>6 DEF QueueInv

LEMMA StepQueue == QueueInv /\ [Next]_vars => QueueInv'
<1> SUFFICES ASSUME QueueInv, [Next]_vars PROVE QueueInv'
  OBVIOUS
<1>1. CASE \E j \in Jobs : AddBgDownloadData(j)
  BY <1>1, AddQueue
<1>2. CASE SaveAfterErase \/ SaveAfterStart \/ SaveAfterSuccess \/ SaveAfterFailure
             \/ \E j \in Jobs : SaveAndAnswer(j)
  BY <1>2, SaveQueue
<1>3. CASE ClearDownloadHistory
  BY <1>3, ClearQueue
<1>4. CASE EraseCleared
  BY <1>4, EraseQueue
<1>5. CASE StartDownload \/ ResumeDownload
  BY <1>5, TakeUpQueue
<1>6. CASE GetStarts \/ GetRefused \/ ReceiveBlock \/ ConnectionLost
  BY <1>6, GetQueue
<1>7. CASE GetCompletes
  BY <1>7, CompleteQueue
<1>8. CASE GetFailed
  BY <1>8, FailQueue
<1>9. CASE CrashAndRestart
  BY <1>9, CrashQueue
<1>10. CASE IdleStep
  BY <1>10, IdleQueue
<1> QED
  BY <1>1, <1>2, <1>3, <1>4, <1>5, <1>6, <1>7, <1>8, <1>9, <1>10 DEF Next, DownloadThread, IdleStep

(***************************************************************************)
(* The list and its history: rows are well formed, one per job, flagged    *)
(* only when finished for good, attempts within their limit, through every *)
(* interleaving of the thread, the handlers, rest mode and crashes.        *)
(***************************************************************************)
THEOREM DownloadQueue == Spec => []QueueInv
BY InitQueue, StepQueue, PTL DEF Spec

(* The types of the download queue, the files and the threads that share   *)
(* them (http_server.cpp:32-41).                                           *)
THEOREM DownloadTypeOK == Spec => []TypeOK
<1>1. QueueInv => TypeOK
  BY DEF QueueInv
<1> QED
  BY <1>1, DownloadQueue, PTL

(***************************************************************************)
(* The unlocked accesses bg_download_list[i] of a whole attempt concern    *)
(* the row that the attempt began with (http_server.cpp:382-497).          *)
(***************************************************************************)
THEOREM DownloadIndexNamesItsRow == Spec => []IndexNamesItsRow
<1>1. QueueInv => IndexNamesItsRow
  BY DEF QueueInv
<1> QED
  BY <1>1, DownloadQueue, PTL

-----------------------------------------------------------------------------
(* What becomes of the rows of the list in a step other than a restart: an *)
(* unfinished one stays, a finished one keeps its state while it stays,    *)
(* and one that is shown stays so unless it is cleared in this step.       *)
Lasting ==
  /\ \A n \in DOMAIN list : ~Finished(list[n]) => \E m \in DOMAIN list' : list'[m].job = list[n].job
  /\ \A n \in DOMAIN list, m \in DOMAIN list' :
       Finished(list[n]) /\ list'[m].job = list[n].job => list'[m].state = list[n].state
  /\ \A n \in DOMAIN list : ~list[n].remove_requested /\ list[n].job \notin cleared' =>
       \E m \in DOMAIN list' : list'[m].job = list[n].job /\ ~list'[m].remove_requested

(* Rows changed in place, and no finished one. *)
LEMMA LastingInPlace ==
  ASSUME QueueInv, DOMAIN list' = DOMAIN list,
         \A n \in DOMAIN list :
           /\ list'[n].job = list[n].job
           /\ Finished(list[n]) => list'[n].state = list[n].state
           /\ ~list[n].remove_requested /\ list[n].job \notin cleared' => ~list'[n].remove_requested
  PROVE  Lasting
<1>1. OneRowPerJob(list)
  BY DEF QueueInv, ListOK
<1> QED
  BY <1>1 DEF Lasting, OneRowPerJob

(* One row changed, that the thread may work on. *)
LEMMA LastingOneRow ==
  ASSUME QueueInv, i \in DOMAIN list, ~Finished(list[i]), NEW row \in BgDownloadData,
         row.job = list[i].job, row.remove_requested = list[i].remove_requested,
         list' = list \/ list' = [list EXCEPT ![i] = row]
  PROVE  Lasting
<1>1. /\ DOMAIN [list EXCEPT ![i] = row] = DOMAIN list
      /\ [list EXCEPT ![i] = row][i] = row
      /\ \A m \in DOMAIN list : m # i => [list EXCEPT ![i] = row][m] = list[m]
  BY RowChanged DEF QueueInv, TypeOK
<1> QED
  BY <1>1, LastingInPlace

LEMMA StepLasting ==
  ASSUME QueueInv, [Next]_vars, crashes' = crashes
  PROVE  Lasting
<1>1. /\ TypeOK /\ ListOK /\ list \in Seq(BgDownloadData)
      /\ \A n \in DOMAIN list : list[n] \in BgDownloadData /\ list[n].job \in Jobs
  BY RowType DEF QueueInv, TypeOK
<1>2. ASSUME NEW j \in Jobs, AddBgDownloadData(j) PROVE Lasting
  <2>1. /\ DOMAIN list = 1..Len(list) /\ Len(list) \in Nat /\ DOMAIN list' = 1..(Len(list) + 1)
        /\ list'[Len(list) + 1] = NewRow(j)
        /\ \A n \in 1..Len(list) : list'[n] = list[n]
    BY <1>1, <1>2 DEF AddBgDownloadData
  <2>2. NewRow(j).job = j /\ \A n \in DOMAIN list : list[n].job # j
    BY <1>1, <1>2 DEF NewRow, AddBgDownloadData, ListOK, RowOK
  <2>3. \A m \in DOMAIN list' : m \in DOMAIN list \/ list'[m].job = j
    BY <2>1, <2>2
  <2>4. \A n \in DOMAIN list : n \in DOMAIN list' /\ list'[n] = list[n]
    BY <2>1
  <2> QED
    BY <1>1, <2>2, <2>3, <2>4 DEF Lasting, ListOK, OneRowPerJob
<1>3. CASE ClearDownloadHistory
  <2>1. /\ DOMAIN list' = DOMAIN list
        /\ \A n \in DOMAIN list :
             list'[n] = IF Finished(list[n]) THEN [list[n] EXCEPT !.remove_requested = TRUE] ELSE list[n]
        /\ \A n \in DOMAIN list : Finished(list[n]) => list[n].job \in cleared'
    BY <1>3 DEF ClearDownloadHistory
  <2>2. \A n \in DOMAIN list : list'[n].job = list[n].job /\ list'[n].state = list[n].state
    BY <1>1, <2>1 DEF BgDownloadData
  <2> QED
    BY <2>1, <2>2, LastingInPlace
<1>4. CASE EraseCleared
  <2>1. list' = Unerased
    BY <1>4 DEF EraseCleared, Unerased
  <2>2. \A n \in DOMAIN list : ~list[n].remove_requested => \E m \in DOMAIN list' : list'[m] = list[n]
    BY <1>1, <2>1, UnerasedRows DEF Kept
  <2>3. \A m \in DOMAIN list' : \E n \in DOMAIN list : list'[m] = list[n]
    BY <1>1, <2>1, UnerasedRows
  <2>4. \A n \in DOMAIN list : ~Finished(list[n]) => ~list[n].remove_requested
    BY <1>1 DEF ListOK, RowOK
  <2>5. \A m, n \in DOMAIN list : list[m].job = list[n].job => m = n
    BY <1>1 DEF ListOK, OneRowPerJob
  <2>6. \A n \in DOMAIN list, m \in DOMAIN list' :
          Finished(list[n]) /\ list'[m].job = list[n].job => list'[m].state = list[n].state
    BY <2>3, <2>5
  <2>7. \A n \in DOMAIN list : ~list[n].remove_requested =>
          \E m \in DOMAIN list' : list'[m].job = list[n].job /\ ~list'[m].remove_requested
    BY <2>2
  <2> QED
    BY <2>4, <2>6, <2>7 DEF Lasting
<1>5. CASE StartDownload \/ ResumeDownload
  <2> DEFINE new == IF StartDownload THEN "DOWNLOADING" ELSE "RESUMED"
             row == [list[i] EXCEPT !.state = new]
  <2>1. i \in DOMAIN list /\ list[i] \in BgDownloadData
    BY <1>1, <1>5 DEF TypeOK, StartDownload, ResumeDownload
  <2>2. ~Finished(list[i])
    <3>1. /\ list[i].state \in {"PENDING", "DOWNLOADING"}
               \/ (list[i].state = "FAILED" /\ list[i].failed_attempts < MAX_FAILED_ATTEMPTS)
          /\ list[i].failed_attempts \in 0..MAX_FAILED_ATTEMPTS
      BY <1>5, <2>1 DEF StartDownload, ResumeDownload, Fresh, Interrupted, BgDownloadData
    <3> QED
      BY <3>1, DownloadBounds DEF Finished
  <2>3. /\ row \in BgDownloadData /\ row.job = list[i].job
        /\ row.remove_requested = list[i].remove_requested
    BY <2>1 DEF BgDownloadData, States
  <2>4. list' = [list EXCEPT ![i] = row]
    BY <1>5 DEF StartDownload, ResumeDownload
  <2> HIDE DEF row
  <2> QED
    BY <2>1, <2>2, <2>3, <2>4, LastingOneRow
<1>6. CASE GetStarts \/ GetRefused \/ ReceiveBlock
  <2>1. /\ i \in DOMAIN list /\ list[i] \in BgDownloadData /\ ~Finished(list[i])
        /\ offset \in Nat /\ g_dl_offset \in Nat /\ xfered \in Nat
    BY <1>1, <1>6, WorkedRow DEF GetStarts, GetRefused, ReceiveBlock, TypeOK
  <2> DEFINE count == IF ~ReceiveBlock THEN offset
                      ELSE IF Type[list[i].job] = "FTP" THEN g_dl_offset + xfered + 1
                      ELSE list[i].bytes_transfered + 1
             row == [list[i] EXCEPT !.bytes_transfered = count]
  <2>2. list' = list \/ list' = [list EXCEPT ![i] = row]
    BY <1>6 DEF GetStarts, GetRefused, ReceiveBlock
  <2>3. count \in Nat
    BY <2>1 DEF BgDownloadData
  <2> HIDE DEF count
  <2>4. /\ row \in BgDownloadData /\ row.job = list[i].job
        /\ row.remove_requested = list[i].remove_requested
    BY <2>1, <2>3 DEF BgDownloadData
  <2> HIDE DEF row
  <2> QED
    BY <2>1, <2>2, <2>4, LastingOneRow
<1>7. CASE GetCompletes
  <2> DEFINE row == [list[i] EXCEPT !.state = "SUCCESS"]
  <2>1. i \in DOMAIN list /\ list[i] \in BgDownloadData /\ ~Finished(list[i])
    BY <1>7, WorkedRow DEF GetCompletes
  <2>2. /\ row \in BgDownloadData /\ row.job = list[i].job
        /\ row.remove_requested = list[i].remove_requested
    BY <2>1 DEF BgDownloadData, States
  <2>3. list' = [list EXCEPT ![i] = row]
    BY <1>7 DEF GetCompletes
  <2> HIDE DEF row
  <2> QED
    BY <2>1, <2>2, <2>3, LastingOneRow
<1>8. CASE GetFailed
  <2> DEFINE row == [list[i] EXCEPT !.state = "FAILED", !.failed_attempts = AttemptsAfter(list[i])]
  <2>1. /\ i \in DOMAIN list /\ list[i] \in BgDownloadData /\ ~Finished(list[i])
        /\ list[i].state = "RESUMED" => list[i].failed_attempts < MAX_FAILED_ATTEMPTS
        /\ list[i].failed_attempts \in 0..MAX_FAILED_ATTEMPTS
    BY <1>8, WorkedRow DEF GetFailed, RowOK, BgDownloadData
  <2>2. AttemptsAfter(list[i]) \in 0..MAX_FAILED_ATTEMPTS
    BY <2>1, DownloadBounds DEF AttemptsAfter
  <2>3. /\ row \in BgDownloadData /\ row.job = list[i].job
        /\ row.remove_requested = list[i].remove_requested
    BY <2>1, <2>2 DEF BgDownloadData, States
  <2>4. list' = list \/ list' = [list EXCEPT ![i] = row]
    BY <1>1, <1>8, <2>1 DEF GetFailed, BgDownloadData
  <2> HIDE DEF row
  <2> QED
    BY <2>1, <2>3, <2>4, LastingOneRow
<1>9. CASE UNCHANGED list
  BY <1>9, LastingInPlace
<1>10. ~CrashAndRestart
  BY <1>1 DEF CrashAndRestart, TypeOK
<1> QED
  BY <1>2, <1>3, <1>4, <1>5, <1>6, <1>7, <1>8, <1>9, <1>10
     DEF Next, DownloadThread, vars, WaitWhilePaused, SaveAfterErase, EndOfPass, PassOver,
         SaveAfterStart, ConnectionLost, SaveAfterSuccess, SaveAfterFailure, SaveAndAnswer, Age,
         PauseDownloadThread, ResumeDownloadThread

(***************************************************************************)
(* Except by a restart, a row leaves the list only when it is finished for *)
(* good, and a finished row is never taken up again (http_server.cpp:      *)
(* 367-378, 434, 650).                                                     *)
(***************************************************************************)
THEOREM DownloadFinishedStaysFinished == Spec => FinishedStaysFinished
<1>1. ASSUME QueueInv, [Next]_vars
      PROVE  crashes' = crashes =>
               \A row \in Rows :
                 /\ ~Finished(row) => \E new \in Rows' : new.job = row.job
                 /\ Finished(row) => \A new \in Rows' : new.job = row.job => new.state = row.state
  <2> SUFFICES ASSUME crashes' = crashes, NEW n \in DOMAIN list
               PROVE  /\ ~Finished(list[n]) => \E new \in Rows' : new.job = list[n].job
                      /\ Finished(list[n]) =>
                           \A new \in Rows' : new.job = list[n].job => new.state = list[n].state
    BY DEF Rows
  <2>1. Lasting
    BY <1>1, StepLasting
  <2>2. Rows' = {list'[m] : m \in DOMAIN list'}
    BY DEF Rows
  <2> QED
    BY <2>1, <2>2 DEF Lasting
<1> QED
  BY <1>1, DownloadQueue, PTL DEF Spec, FinishedStaysFinished

-----------------------------------------------------------------------------
(* A save after which a job that is shown, and recent, is in the history.  *)
LEMMA SavedIsKept ==
  ASSUME QueueInv, SaveBgDownloadData, NEW j \in Jobs, j \in Shown, j \notin aged
  PROVE  \E row \in SavedRows' : row.job = j
<1>1. TypeOK /\ history' = Persisted /\ Persisted # Torn
  BY PersistedRows, FileNames DEF QueueInv, SaveBgDownloadData
<1>2. PICK n \in DOMAIN list : list[n].job = j
  BY DEF Shown
<1>3. Unflagged(list[n]).job = j
  BY <1>1, <1>2, RowType DEF TypeOK, Unflagged, BgDownloadData
<1>4. PICK m \in DOMAIN Persisted : Persisted[m] = Unflagged(list[n])
  BY <1>1, <1>2, PersistedRows DEF Recent
<1> QED
  BY <1>1, <1>3, <1>4 DEF SavedRows

(* A job that is shown stays so, unless it is cleared. *)
LEMMA ShownLasts ==
  ASSUME Lasting, NEW j, j \in Shown, j \notin cleared'
  PROVE  j \in Shown'
<1>1. PICK n \in DOMAIN list : list[n].job = j /\ ~list[n].remove_requested
  BY DEF Shown
<1>2. PICK m \in DOMAIN list' : list'[m].job = j /\ ~list'[m].remove_requested
  BY <1>1 DEF Lasting
<1> QED
  BY <1>2 DEF Shown

LEMMA InitKept == Init => KeptInv
BY DEF Init, KeptInv, Retained, AnsweredIsKept

LEMMA StepKept ==
  ASSUME QueueInv, KeptInv, [Next]_vars
  PROVE  KeptInv'
<1>1. TypeOK /\ HistoryOK /\ Retained /\ AnsweredIsKept
  BY DEF QueueInv, KeptInv
<1>2. CASE CrashAndRestart
  <2> SUFFICES ASSUME NEW j \in Jobs, req'[j] \in {"adding", "answered"}, j \notin cleared' \cup aged',
                      ~torn'
               PROVE  j \in Shown' /\ \E row \in SavedRows' : row.job = j
    BY DEF KeptInv, Retained, AnsweredIsKept
  <2>1. /\ history' = history /\ torn' = torn /\ req[j] = "answered"
        /\ UNCHANGED <<aged, cleared>> /\ list' = IF history = Torn THEN <<>> ELSE history
    BY <1>1, <1>2 DEF CrashAndRestart, LoadBgDownloadData, TypeOK
  <2>2. history # Torn
    BY <1>1, <2>1 DEF HistoryOK
  <2>3. PICK n \in DOMAIN history : history[n].job = j
    BY <1>1, <2>1, <2>2 DEF AnsweredIsKept, SavedRows
  <2>4. ~history[n].remove_requested
    BY <1>1, <2>2 DEF HistoryOK
  <2> QED
    BY <2>1, <2>2, <2>3, <2>4 DEF Shown, SavedRows
<1>3. CASE ~CrashAndRestart
  <2>1. /\ crashes' = crashes /\ torn' = torn /\ cleared \subseteq cleared' /\ aged \subseteq aged'
    BY <1>3 DEF Next, DownloadThread, vars, WaitWhilePaused, SaveAfterErase, EndOfPass, PassOver,
         SaveAfterStart, ConnectionLost, SaveAfterSuccess, SaveAfterFailure, SaveAndAnswer, Age,
         PauseDownloadThread, ResumeDownloadThread, AddBgDownloadData, ClearDownloadHistory,
         EraseCleared, StartDownload, ResumeDownload, GetStarts, GetRefused, ReceiveBlock,
         GetCompletes, GetFailed, bounds
  <2>2. Lasting
    BY <2>1, StepLasting
  <2>3. CASE \E k \in Jobs : AddBgDownloadData(k)
    <3>1. PICK k \in Jobs : AddBgDownloadData(k)
      BY <2>3
    <3>2. /\ req' = [req EXCEPT ![k] = "adding"] /\ UNCHANGED <<history, cleared, aged>>
          /\ list' = Append(list, NewRow(k))
      BY <3>1 DEF AddBgDownloadData, bounds
    <3>3. k \in Shown'
      <4>1. Len(list) + 1 \in DOMAIN list' /\ list'[Len(list) + 1] = NewRow(k)
        BY <1>1, <3>2 DEF TypeOK
      <4>2. NewRow(k).job = k /\ NewRow(k).remove_requested = FALSE
        BY DEF NewRow
      <4> QED
        BY <4>1, <4>2 DEF Shown
    <3>4. \A j \in Jobs : j # k => req'[j] = req[j]
      BY <1>1, <3>2 DEF TypeOK
    <3>5. req'[k] = "adding"
      BY <1>1, <3>2 DEF TypeOK
    <3>6. Retained'
      BY <1>1, <2>1, <2>2, <3>2, <3>3, <3>4, ShownLasts DEF Retained
    <3>7. AnsweredIsKept'
      BY <1>1, <2>1, <2>2, <3>2, <3>4, <3>5, ShownLasts DEF AnsweredIsKept, SavedRows
    <3> QED
      BY <3>6, <3>7 DEF KeptInv
  <2>4. CASE SaveAfterErase \/ SaveAfterStart \/ SaveAfterSuccess \/ SaveAfterFailure
               \/ \E k \in Jobs : SaveAndAnswer(k)
    <3>1. /\ SaveBgDownloadData /\ UNCHANGED <<list, cleared, aged>>
          /\ \A j \in Jobs : req'[j] \in {"adding", "answered"} => req[j] \in {"adding", "answered"}
      BY <1>1, <2>4 DEF SaveAfterErase, SaveAfterStart, SaveAfterSuccess, SaveAfterFailure, SaveAndAnswer,
         bounds, TypeOK
    <3>2. Shown' = Shown
      BY <3>1 DEF Shown
    <3> SUFFICES ASSUME NEW j \in Jobs, req'[j] \in {"adding", "answered"}, j \notin cleared' \cup aged',
                        ~torn'
                 PROVE  j \in Shown' /\ \E row \in SavedRows' : row.job = j
      BY DEF KeptInv, Retained, AnsweredIsKept
    <3>3. j \in Shown /\ j \notin aged
      BY <1>1, <2>1, <3>1 DEF Retained
    <3> QED
      BY <3>1, <3>2, <3>3, SavedIsKept
  <2>5. CASE UNCHANGED <<history, req>>
    <3>1. SavedRows' = SavedRows
      BY <2>5 DEF SavedRows
    <3>2. ASSUME NEW j \in Jobs, j \in Shown, j \notin cleared' PROVE j \in Shown'
      BY <2>2, <3>2, ShownLasts
    <3>3. Retained'
      BY <1>1, <2>1, <2>5, <3>2 DEF Retained
    <3>4. AnsweredIsKept'
      BY <1>1, <2>1, <2>5, <3>1, <3>2 DEF AnsweredIsKept
    <3> QED
      BY <3>3, <3>4 DEF KeptInv
  <2> QED
    BY <1>3, <2>3, <2>4, <2>5 DEF Next, DownloadThread, vars, WaitWhilePaused, EndOfPass, PassOver,
         ConnectionLost, Age, PauseDownloadThread, ResumeDownloadThread, ClearDownloadHistory,
         EraseCleared, StartDownload, ResumeDownload, GetStarts, GetRefused, ReceiveBlock,
         GetCompletes, GetFailed
<1> QED
  BY <1>2, <1>3

(***************************************************************************)
(* A download whose request was answered is in the list, shown, and in the *)
(* history until it is cleared, whatever crashes meanwhile: only a crash   *)
(* during a save and the retention lose one (http_server.cpp:612-613,      *)
(* config.cpp:195-298).                                                    *)
(***************************************************************************)
THEOREM DownloadAnsweredIsKept == Spec => []AnsweredIsKept
<1>1. QueueInv /\ KeptInv /\ [Next]_vars => KeptInv'
  BY StepKept
<1>2. KeptInv => AnsweredIsKept
  BY DEF KeptInv
<1> QED
  BY <1>1, <1>2, InitKept, DownloadQueue, PTL DEF Spec

-----------------------------------------------------------------------------
(* The steps of the others leave the thread's transfer and its row alone.  *)
OthersStep ==
  \/ \E j \in Jobs : AddBgDownloadData(j) \/ SaveAndAnswer(j) \/ Age(j)
  \/ ClearDownloadHistory \/ PauseDownloadThread \/ ResumeDownloadThread
  \/ UNCHANGED vars

LEMMA OthersLeaveTheTransfer ==
  ASSUME QueueInv, OthersStep
  PROVE  /\ UNCHANGED <<pc, i, transfer, files>>
         /\ pc \in {"save_start", "get", "xfer", "failed"} => list'[i] = list[i]
<1>1. UNCHANGED <<pc, i, transfer, files>>
  BY DEF OthersStep, AddBgDownloadData, SaveAndAnswer, Age, ClearDownloadHistory, PauseDownloadThread,
         ResumeDownloadThread, vars, transfer, files
<1>2. ASSUME pc \in {"save_start", "get", "xfer", "failed"} PROVE list'[i] = list[i]
  <2>1. i \in DOMAIN list /\ ~Finished(list[i]) /\ list \in Seq(BgDownloadData)
    BY <1>2, WorkedRow DEF QueueInv, TypeOK
  <2>2. CASE \E j \in Jobs : AddBgDownloadData(j)
    BY <2>1, <2>2 DEF AddBgDownloadData
  <2>3. CASE ClearDownloadHistory
    BY <2>1, <2>3 DEF ClearDownloadHistory
  <2>4. CASE UNCHANGED list
    BY <2>4
  <2> QED
    BY <2>2, <2>3, <2>4 DEF OthersStep, SaveAndAnswer, Age, PauseDownloadThread, ResumeDownloadThread, vars
<1> QED
  BY <1>1, <1>2

(* The temporary file as Get has opened it: as long as the offset says. *)
LEMMA OpenedSize ==
  ASSUME QueueInv, TransferOK, pc = "get"
  PROVE  LET file == Opened(DestPath[temp_file])[DestPath[temp_file]] IN
         /\ file \in File /\ Len(file) = offset
         /\ file = <<>> \/ file = tmp[DestPath[temp_file]]
<1>1. TypeOK /\ temp_file \in Jobs /\ offset \in Nat /\ <<>> \in File
  BY DEF QueueInv, TypeOK, File
<1>2. offset = 0 \/ offset = TmpSize(temp_file)
  BY DEF TransferOK
<1>3. /\ tmp[DestPath[temp_file]] \in File \cup {NoFile}
      /\ Opened(DestPath[temp_file])[DestPath[temp_file]] =
           (IF offset = 0 \/ tmp[DestPath[temp_file]] = NoFile THEN <<>> ELSE tmp[DestPath[temp_file]])
  BY <1>1, TmpFiles
<1> QED
  BY <1>1, <1>2, <1>3 DEF TmpSize

LEMMA InitTransfer == Init => TransferOK
BY DEF Init, TransferOK

LEMMA StepTransfer ==
  ASSUME QueueInv, TransferOK, [Next]_vars
  PROVE  TransferOK'
<1>1. /\ TypeOK /\ OutputOpen
      /\ list \in Seq(BgDownloadData) /\ tmp \in [Paths -> File \cup {NoFile}] /\ temp_file \in Jobs
      /\ offset \in Nat /\ body \in File /\ xfered \in Nat /\ g_dl_offset \in Nat
      /\ DestPath[temp_file] \in Paths
  BY JobKinds DEF QueueInv, TypeOK
<1>2. CASE OthersStep
  <2>1. /\ UNCHANGED <<pc, i, temp_file, offset, xfered, g_dl_offset, tmp>>
        /\ pc = "xfer" => list'[i] = list[i]
    BY <1>2, OthersLeaveTheTransfer DEF transfer, files
  <2> QED
    BY <2>1 DEF TransferOK, TmpSize
<1>3. CASE StartDownload \/ ResumeDownload
  BY <1>3 DEF StartDownload, ResumeDownload, TransferOK, TmpSize, files
<1>4. CASE SaveAfterStart
  BY <1>4 DEF SaveAfterStart, TransferOK, TmpSize, files, transfer
<1>5. CASE GetStarts
  <2>1. i \in DOMAIN list /\ list[i] \in BgDownloadData /\ list[i].job = temp_file /\ pc = "get"
    BY <1>5, WorkedRow DEF GetStarts
  <2>2. /\ tmp' = Opened(DestPath[temp_file]) /\ temp_file' = temp_file /\ i' = i /\ xfered' = 0
        /\ g_dl_offset' = g_dl_offset /\ pc' = "xfer"
        /\ list' = IF Type[list[i].job] = "FTP" THEN list
                   ELSE [list EXCEPT ![i].bytes_transfered = offset]
    BY <1>5 DEF GetStarts
  <2>3. TmpSize(temp_file)' = offset
    <3>1. tmp'[DestPath[temp_file]] \in File /\ Len(tmp'[DestPath[temp_file]]) = offset
      BY <2>1, <2>2, OpenedSize
    <3> QED
      BY <2>2, <3>1, FileNames DEF TmpSize
  <2>4. Type[temp_file] = "FTP" => g_dl_offset = offset
    BY <2>1 DEF TransferOK
  <2>5. Type[temp_file] # "FTP" => list'[i].bytes_transfered = offset
    BY <1>1, <2>1, <2>2 DEF BgDownloadData
  <2> QED
    BY <1>1, <2>2, <2>3, <2>4, <2>5 DEF TransferOK
<1>6. CASE ReceiveBlock
  <2> DEFINE p == DestPath[temp_file]
  <2>1. i \in DOMAIN list /\ list[i] \in BgDownloadData /\ list[i].job = temp_file /\ pc = "xfer"
    BY <1>6, WorkedRow DEF ReceiveBlock
  <2>2. tmp[p] \in File /\ body # <<>>
    BY <1>1, <1>6, <2>1 DEF OutputOpen, ReceiveBlock
  <2>3. tmp'[p] = Append(tmp[p], Head(body)) /\ Head(body) \in Block
    BY <1>1, <1>6, <2>2 DEF ReceiveBlock, File
  <2>4. tmp'[p] \in File /\ Len(tmp'[p]) = Len(tmp[p]) + 1
    BY <2>2, <2>3 DEF File
  <2>5. TmpSize(temp_file) = Len(tmp[p]) /\ TmpSize(temp_file)' = Len(tmp[p]) + 1 /\ Len(tmp[p]) \in Nat
    <3>1. tmp[p] # NoFile /\ tmp'[p] # NoFile
      BY <2>2, <2>4, FileNames
    <3>2. temp_file' = temp_file /\ Len(tmp[p]) \in Nat
      BY <1>6, <2>2 DEF ReceiveBlock, File
    <3> QED
      BY <2>4, <3>1, <3>2 DEF TmpSize
  <2>6. /\ list'[i].bytes_transfered =
             (IF Type[temp_file] = "FTP" THEN g_dl_offset + xfered + 1 ELSE list[i].bytes_transfered + 1)
        /\ UNCHANGED <<pc, i, temp_file, g_dl_offset>> /\ xfered' = xfered + 1
    BY <1>1, <1>6, <2>1 DEF ReceiveBlock, BgDownloadData
  <2> QED
    BY <1>1, <2>1, <2>5, <2>6 DEF TransferOK
<1>7. CASE pc' \notin {"save_start", "get", "xfer"}
  BY <1>7 DEF TransferOK
<1> QED
  BY <1>2, <1>3, <1>4, <1>5, <1>6, <1>7 DEF Next, DownloadThread, OthersStep, WaitWhilePaused, EraseCleared,
     SaveAfterErase, EndOfPass, PassOver, GetRefused, ConnectionLost, GetCompletes, SaveAfterSuccess,
     GetFailed, SaveAfterFailure, CrashAndRestart

(* The offset Get is given is nothing or the size of the temporary file,    *)
(* and the row counts what is written from there (http_server.cpp:455-470).*)
THEOREM DownloadTransfer == Spec => []TransferOK
<1>1. QueueInv /\ TransferOK /\ [Next]_vars => TransferOK'
  BY StepTransfer
<1> QED
  BY <1>1, InitTransfer, DownloadQueue, PTL DEF Spec

(***************************************************************************)
(* While a transfer runs, the progress /get_download_state reports is the  *)
(* size of the temporary file, on the first attempt and on a resumed one,  *)
(* for every type of client (http_server.cpp:45-49, 463, 468).             *)
(***************************************************************************)
THEOREM DownloadProgressIsTmpSize == Spec => []ProgressIsTmpSize
<1>1. TransferOK => ProgressIsTmpSize
  BY DEF TransferOK, ProgressIsTmpSize
<1> QED
  BY <1>1, DownloadTransfer, PTL

-----------------------------------------------------------------------------
(* A file whose blocks are the first ones of the source is cut from it. *)
LEMMA PrefixCut ==
  ASSUME NEW j \in Jobs, NEW file \in File, IsPrefixOf(file, j)
  PROVE  file = SubSeq(Whole(j), 1, Len(file))
<1>1. Len(file) \in Nat /\ Len(file) <= FileSize /\ \A n \in 1..Len(file) : file[n] = <<j, n>>
  BY DEF IsPrefixOf, File
<1>2. /\ Whole(j) \in File /\ Len(Whole(j)) = FileSize
      /\ \A n \in 1..FileSize : Whole(j)[n] = <<j, 0 + n>>
  BY BlocksFile, DownloadBounds DEF Whole
<1>3. \A n \in 1..Len(file) : Whole(j)[n] = <<j, n>>
  BY <1>1, <1>2, DownloadBounds
<1> DEFINE sub == SubSeq(Whole(j), 1, Len(file))
<1>4. /\ sub \in Seq(Block) /\ Len(sub) = Len(file)
      /\ \A n \in 1..Len(file) : sub[n] = Whole(j)[n]
  BY <1>1, <1>2, DownloadBounds DEF File
<1>5. \A n \in 1..Len(file) : sub[n] = file[n]
  BY <1>1, <1>3, <1>4
<1>6. file \in Seq(Block)
  BY DEF File
<1> HIDE DEF sub
<1>7. sub = file
  BY <1>4, <1>5, <1>6
<1> QED
  BY <1>7 DEF sub

(* The rows of the list and of the history after a step: where the         *)
(* successes among them come from.                                         *)
SuccessesAreOld(j) ==
  \A row \in (Rows \cup SavedRows)' : row.job = j /\ row.state = "SUCCESS" =>
    \E old \in Rows \cup SavedRows : old.job = j /\ old.state = "SUCCESS"

LEMMA FinalFrame ==
  ASSUME NEW j \in Jobs, FinalOK(j), SuccessesAreOld(j), final'[DestPath[j]] = final[DestPath[j]]
  PROVE  FinalOK(j)'
BY DEF FinalOK, SuccessesAreOld

(* Only GetCompletes makes a success. *)
LEMMA SuccessesOld ==
  ASSUME QueueInv, [Next]_vars, NEW j \in Jobs, GetCompletes => j # temp_file
  PROVE  SuccessesAreOld(j)
<1>1. /\ TypeOK /\ list \in Seq(BgDownloadData)
      /\ \A n \in DOMAIN list : list[n] \in BgDownloadData
  BY RowType DEF QueueInv, TypeOK
<1>2. ASSUME NEW row \in SavedRows'
      PROVE  \E old \in Rows \cup SavedRows : old.job = row.job /\ old.state = row.state
  <2>1. CASE history' = history
    BY <1>2, <2>1 DEF SavedRows
  <2>2. CASE SaveBgDownloadData
    <3>1. history' = Persisted /\ Persisted # Torn
      BY <1>1, <2>2, PersistedRows, FileNames DEF SaveBgDownloadData
    <3>2. PICK m \in DOMAIN Persisted : row = Persisted[m]
      BY <1>2, <3>1 DEF SavedRows
    <3>3. PICK n \in DOMAIN list : row = Unflagged(list[n])
      BY <1>1, <3>2, PersistedRows
    <3>4. row.job = list[n].job /\ row.state = list[n].state
      BY <1>1, <3>3 DEF Unflagged, BgDownloadData
    <3> QED
      BY <3>4 DEF Rows
  <2>3. CASE history' = Torn
    BY <1>2, <2>3 DEF SavedRows
  <2> QED
    BY <2>1, <2>2, <2>3 DEF Next, DownloadThread, vars, WaitWhilePaused, SaveAfterErase, EndOfPass, PassOver,
         SaveAfterStart, ConnectionLost, SaveAfterSuccess, SaveAfterFailure, SaveAndAnswer, Age,
         PauseDownloadThread, ResumeDownloadThread, AddBgDownloadData, ClearDownloadHistory,
         EraseCleared, StartDownload, ResumeDownload, GetStarts, GetRefused, ReceiveBlock,
         GetCompletes, GetFailed, CrashAndRestart
<1>3. ASSUME NEW m \in DOMAIN list', list'[m].job = j, list'[m].state = "SUCCESS"
      PROVE  \E old \in Rows \cup SavedRows : old.job = j /\ old.state = "SUCCESS"
  <2>1. ASSUME NEW n \in DOMAIN list, list'[m].job = list[n].job, list'[m].state = list[n].state
        PROVE  \E old \in Rows \cup SavedRows : old.job = j /\ old.state = "SUCCESS"
    BY <1>3, <2>1 DEF Rows
  <2>2. ASSUME NEW k \in Jobs, AddBgDownloadData(k)
        PROVE  m \in DOMAIN list /\ list'[m] = list[m]
    <3>1. NewRow(k).state = "PENDING"
      BY DEF NewRow
    <3>2. /\ list' = Append(list, NewRow(k)) /\ Len(list) \in Nat /\ DOMAIN list = 1..Len(list)
          /\ DOMAIN list' = 1..(Len(list) + 1) /\ list'[Len(list) + 1] = NewRow(k)
      BY <1>1, <2>2 DEF AddBgDownloadData
    <3>3. m # Len(list) + 1
      BY <1>3, <3>1, <3>2
    <3>4. m \in DOMAIN list
      BY <1>3, <3>2, <3>3
    <3> QED
      BY <1>1, <3>2, <3>4
  <2>3. CASE ClearDownloadHistory
    <3>1. m \in DOMAIN list
          /\ list'[m] = IF Finished(list[m]) THEN [list[m] EXCEPT !.remove_requested = TRUE] ELSE list[m]
      BY <1>3, <2>3 DEF ClearDownloadHistory
    <3>2. list'[m].job = list[m].job /\ list'[m].state = list[m].state
      BY <1>1, <3>1 DEF BgDownloadData
    <3> QED
      BY <2>1, <3>1, <3>2
  <2>4. CASE EraseCleared
    <3>1. list' = Unerased
      BY <2>4 DEF EraseCleared, Unerased
    <3>2. PICK n \in DOMAIN list : list'[m] = list[n]
      BY <1>1, <3>1, UnerasedRows
    <3> QED
      BY <2>1, <3>2
  <2>5. CASE StartDownload \/ ResumeDownload \/ GetCompletes \/ GetFailed
    <3>1. i \in DOMAIN list /\ (GetCompletes => list[i].job = temp_file)
      BY <1>1, <2>5, WorkedRow DEF StartDownload, ResumeDownload, GetCompletes, GetFailed, TypeOK
    <3>2. m \in DOMAIN list
      BY <1>3, <2>5 DEF StartDownload, ResumeDownload, GetCompletes, GetFailed
    <3>3. CASE m # i \/ list' = list
      <4>1. list'[m] = list[m]
        BY <1>1, <2>5, <3>1, <3>2, <3>3 DEF StartDownload, ResumeDownload, GetCompletes, GetFailed
      <4> QED
        BY <2>1, <3>2, <4>1
    <3>4. CASE m = i /\ list' # list
      <4>1. CASE GetCompletes
        <5>1. list'[i].job = list[i].job
          BY <1>1, <3>1, <4>1 DEF GetCompletes, BgDownloadData
        <5> QED
          BY <1>3, <3>1, <3>4, <4>1, <5>1
      <4>2. CASE StartDownload \/ ResumeDownload
        <5>1. list'[i].state \in {"DOWNLOADING", "RESUMED"}
          BY <1>1, <3>1, <4>2 DEF StartDownload, ResumeDownload, BgDownloadData
        <5> QED
          BY <1>3, <3>4, <5>1
      <4>3. CASE GetFailed
        <5>1. list'[i].state = "FAILED"
          BY <1>1, <3>1, <3>4, <4>3 DEF GetFailed, BgDownloadData
        <5> QED
          BY <1>3, <3>4, <5>1
      <4> QED
        BY <2>5, <4>1, <4>2, <4>3
    <3> QED
      BY <3>3, <3>4
  <2>6. CASE GetStarts \/ GetRefused \/ ReceiveBlock
    <3>1. i \in DOMAIN list
      BY <2>6, WorkedRow DEF GetStarts, GetRefused, ReceiveBlock
    <3>2. PICK count : list' = list \/ list' = [list EXCEPT ![i].bytes_transfered = count]
      BY <2>6 DEF GetStarts, GetRefused, ReceiveBlock
    <3>3. m \in DOMAIN list
      BY <1>3, <3>2
    <3>4. list'[m].job = list[m].job /\ list'[m].state = list[m].state
      BY <1>1, <3>1, <3>2, <3>3 DEF BgDownloadData
    <3> QED
      BY <2>1, <3>3, <3>4
  <2>7. CASE CrashAndRestart
    <3>1. list' = history /\ history # Torn
      BY <1>3, <2>7 DEF CrashAndRestart, LoadBgDownloadData
    <3> QED
      BY <1>3, <3>1 DEF SavedRows
  <2>8. CASE UNCHANGED list
    BY <1>3, <2>1, <2>8
  <2> QED
    BY <2>1, <2>2, <2>3, <2>4, <2>5, <2>6, <2>7, <2>8 DEF Next, DownloadThread, vars, WaitWhilePaused,
       SaveAfterErase, EndOfPass, PassOver, SaveAfterStart, ConnectionLost, SaveAfterSuccess,
       SaveAfterFailure, SaveAndAnswer, Age, PauseDownloadThread, ResumeDownloadThread
<1>4. \A row \in Rows' : \E m \in DOMAIN list' : row = list'[m]
  BY DEF Rows
<1> QED
  BY <1>2, <1>3, <1>4 DEF SuccessesAreOld

(* No other job's transfer touches the files of a job with its own path. *)
LEMMA OtherPaths ==
  ASSUME QueueInv, NEW j \in Jobs, OwnPath(j), temp_file # j
  PROVE  DestPath[temp_file] # DestPath[j] /\ DestPath[temp_file] \in Paths /\ DestPath[j] \in Paths
BY JobKinds DEF QueueInv, TypeOK, OwnPath

(* Get's steps on the temporary file of a job. *)
LEMMA StepTmp ==
  ASSUME QueueInv, TransferOK, [Next]_vars, NEW j \in Jobs, Reliable(j), TmpOK(j)
  PROVE  TmpOK(j)'
<1> DEFINE p == DestPath[j]
<1>1. /\ TypeOK /\ OutputOpen /\ temp_file \in Jobs /\ p \in Paths
      /\ tmp \in [Paths -> File \cup {NoFile}] /\ offset \in Nat /\ body \in File
      /\ OwnPath(j) /\ Type[j] # "HTTP" /\ DestPath[temp_file] \in Paths
  BY JobKinds DEF QueueInv, TypeOK, Reliable
<1>2. CASE OthersStep
  BY <1>2, OthersLeaveTheTransfer DEF TmpOK, files, transfer
<1>3. CASE GetStarts
  <2>1. /\ tmp' = Opened(DestPath[temp_file]) /\ temp_file' = temp_file /\ pc = "get" /\ pc' = "xfer"
        /\ body' \in Answers(list[i].job)
    BY <1>3 DEF GetStarts
  <2>2. CASE temp_file = j
    <3>1. tmp'[p] \in File /\ Len(tmp'[p]) = offset /\ (tmp'[p] = <<>> \/ tmp'[p] = tmp[p])
      BY <2>1, <2>2, OpenedSize
    <3>2. IsPrefixOf(tmp'[p], j)
      <4>1. CASE tmp'[p] = <<>>
        BY <4>1, DownloadBounds DEF IsPrefixOf
      <4>2. CASE tmp'[p] = tmp[p]
        BY <3>1, <4>2, FileNames DEF TmpOK
      <4> QED
        BY <3>1, <4>1, <4>2
    <3>3. body' = Blocks(j, offset)
      <4>1. list[i].job = j
        BY <2>1, <2>2, WorkedRow
      <4> QED
        BY <1>1, <2>1, <4>1 DEF Answers
    <3>4. offset <= FileSize
      BY <3>1, <3>2 DEF IsPrefixOf
    <3>5. /\ Len(body') = FileSize - offset
          /\ \A n \in 1..Len(body') : body'[n] = <<j, offset + n>>
      BY <1>1, <3>3, <3>4, BlocksFile
    <3>6. /\ Len(tmp'[p]) + Len(body') = FileSize
          /\ \A n \in 1..Len(body') : body'[n] = <<j, Len(tmp'[p]) + n>>
      BY <1>1, <3>1, <3>5, DownloadBounds
    <3> QED
      BY <2>1, <3>2, <3>6 DEF TmpOK, IsPrefixOf
  <2>3. CASE temp_file # j
    <3>1. tmp'[p] = tmp[p]
      BY <1>1, <2>1, <2>3, OtherPaths, TmpFiles
    <3> QED
      BY <2>1, <2>3, <3>1 DEF TmpOK
  <2> QED
    BY <2>2, <2>3
<1>4. CASE ReceiveBlock
  <2>1. /\ tmp' = [tmp EXCEPT ![DestPath[temp_file]] = Append(@, Head(body))] /\ body' = Tail(body)
        /\ temp_file' = temp_file /\ pc = "xfer" /\ pc' = "xfer" /\ body # <<>>
    BY <1>4 DEF ReceiveBlock
  <2>2. CASE temp_file = j
    <3>1. /\ tmp[p] \in File /\ IsPrefixOf(tmp[p], j) /\ Len(tmp[p]) + Len(body) = FileSize
          /\ \A n \in 1..Len(body) : body[n] = <<j, Len(tmp[p]) + n>>
      BY <1>1, <2>1, <2>2 DEF TmpOK, OutputOpen
    <3>2. /\ tmp'[p] = Append(tmp[p], Head(body)) /\ Len(body) \in Nat \ {0} /\ Len(tmp[p]) \in Nat
          /\ Head(body) = body[1] /\ Head(body) \in Block
      BY <1>1, <2>1, <2>2, <3>1 DEF File
    <3>3. Head(body) = <<j, Len(tmp[p]) + 1>>
      BY <3>1, <3>2
    <3>4. /\ Len(tmp'[p]) = Len(tmp[p]) + 1 /\ tmp'[p][Len(tmp[p]) + 1] = Head(body)
          /\ \A n \in 1..Len(tmp[p]) : tmp'[p][n] = tmp[p][n]
      BY <3>1, <3>2 DEF File
    <3>5. IsPrefixOf(tmp'[p], j)
      <4>1. Len(tmp'[p]) <= FileSize
        BY <3>1, <3>2, <3>4, DownloadBounds
      <4>2. ASSUME NEW n \in 1..Len(tmp'[p]) PROVE tmp'[p][n] = <<j, n>>
        <5>1. n \in 1..Len(tmp[p]) \/ n = Len(tmp[p]) + 1
          BY <3>2, <3>4
        <5> QED
          BY <3>1, <3>3, <3>4, <5>1 DEF IsPrefixOf
      <4> QED
        BY <4>1, <4>2 DEF IsPrefixOf
    <3>6. /\ Len(body') = Len(body) - 1
          /\ \A n \in 1..Len(body') : body'[n] = body[n + 1]
      BY <1>1, <2>1, <3>2 DEF File
    <3>7. /\ Len(tmp'[p]) + Len(body') = FileSize
          /\ \A n \in 1..Len(body') : body'[n] = <<j, Len(tmp'[p]) + n>>
      <4>1. Len(tmp'[p]) + Len(body') = FileSize
        BY <3>1, <3>2, <3>4, <3>6
      <4>2. ASSUME NEW n \in 1..Len(body') PROVE body'[n] = <<j, Len(tmp'[p]) + n>>
        <5> DEFINE a == Len(tmp[p])
                   b == Len(body)
        <5>1. n + 1 \in 1..Len(body) /\ Len(tmp[p]) + (n + 1) = Len(tmp'[p]) + n
          <6>1. a \in Nat /\ b \in Nat /\ n \in 1..(b - 1) /\ Len(tmp'[p]) = a + 1
            BY <3>2, <3>4, <3>6
          <6> HIDE DEF a, b
          <6>2. n + 1 \in 1..b /\ a + (n + 1) = (a + 1) + n
            BY <6>1
          <6> QED
            BY <6>1, <6>2 DEF a, b
        <5>2. body'[n] = body[n + 1]
          BY <3>6
        <5> QED
          BY <3>1, <5>1, <5>2
      <4> QED
        BY <4>1, <4>2
    <3> QED
      BY <2>1, <3>5, <3>7 DEF TmpOK, IsPrefixOf
  <2>3. CASE temp_file # j
    <3>1. tmp'[p] = tmp[p]
      BY <1>1, <2>1, <2>3, OtherPaths
    <3> QED
      BY <2>1, <2>3, <3>1 DEF TmpOK
  <2> QED
    BY <2>2, <2>3
<1>5. CASE GetRefused \/ GetCompletes
  <2>1. pc' # "xfer"
    BY <1>5 DEF GetRefused, GetCompletes
  <2>2. tmp'[p] = tmp[p] \/ tmp'[p] = NoFile \/ tmp'[p] = <<>>
    <3>1. CASE GetCompletes
      BY <1>1, <3>1 DEF GetCompletes
    <3>2. CASE GetRefused
      BY <1>1, <3>2, TmpFiles DEF GetRefused
    <3> QED
      BY <1>5, <3>1, <3>2
  <2>3. IsPrefixOf(<<>>, j)
    BY DownloadBounds DEF IsPrefixOf
  <2> QED
    BY <2>1, <2>2, <2>3 DEF TmpOK, IsPrefixOf
<1>6. CASE pc' # "xfer" /\ UNCHANGED tmp
  BY <1>6 DEF TmpOK, IsPrefixOf
<1> QED
  BY <1>2, <1>3, <1>4, <1>5, <1>6 DEF Next, DownloadThread, OthersStep, WaitWhilePaused, EraseCleared,
     SaveAfterErase, EndOfPass, PassOver, StartDownload, SaveAfterStart, ResumeDownload, ConnectionLost,
     SaveAfterSuccess, GetFailed, SaveAfterFailure, CrashAndRestart, files

LEMMA StepFinal ==
  ASSUME QueueInv, [Next]_vars, NEW j \in Jobs, Reliable(j), TmpOK(j), FinalOK(j)
  PROVE  FinalOK(j)'
<1>1. /\ TypeOK /\ OutputOpen /\ DestPath[j] \in Paths /\ OwnPath(j)
      /\ tmp \in [Paths -> File \cup {NoFile}] /\ final \in [Paths -> File \cup {NoFile}]
  BY JobKinds DEF QueueInv, TypeOK, Reliable
<1>2. CASE GetCompletes /\ temp_file = j
  <2>1. /\ pc = "xfer" /\ DataEnded /\ list[i].job = j
        /\ final' = [final EXCEPT ![DestPath[list[i].job]] = tmp[DestPath[temp_file]]]
    BY <1>2, WorkedRow DEF GetCompletes
  <2>2. tmp[DestPath[j]] \in File /\ tmp[DestPath[j]] # NoFile
    BY <1>1, <1>2, <2>1 DEF OutputOpen
  <2>3. IsPrefixOf(tmp[DestPath[j]], j) /\ Len(tmp[DestPath[j]]) + Len(body) = FileSize
    BY <1>2, <2>1, <2>2 DEF TmpOK
  <2>4. Type[j] # "FTP" => Len(tmp[DestPath[j]]) = FileSize
    <3>1. Type[j] # "FTP" => body = <<>>
      BY <2>1 DEF DataEnded, Reliable
    <3> QED
      BY <2>2, <2>3, <3>1 DEF File
  <2>5. final'[DestPath[j]] = tmp[DestPath[j]]
    BY <1>1, <1>2, <2>1
  <2> QED
    BY <2>2, <2>3, <2>4, <2>5 DEF FinalOK, IsPrefixOf
<1>3. CASE ~(GetCompletes /\ temp_file = j)
  <2>1. SuccessesAreOld(j)
    BY <1>3, SuccessesOld
  <2>2. final'[DestPath[j]] = final[DestPath[j]]
    <3>1. CASE GetCompletes
      <4>1. list[i].job = temp_file /\ temp_file # j
        BY <1>3, <3>1, WorkedRow DEF GetCompletes
      <4> QED
        BY <1>1, <3>1, <4>1, OtherPaths DEF GetCompletes
    <3>2. CASE UNCHANGED final
      BY <3>2
    <3> QED
      BY <3>1, <3>2 DEF Next, DownloadThread, vars, WaitWhilePaused, SaveAfterErase, EndOfPass, PassOver,
         SaveAfterStart, ConnectionLost, SaveAfterSuccess, SaveAfterFailure, SaveAndAnswer, Age,
         PauseDownloadThread, ResumeDownloadThread, AddBgDownloadData, ClearDownloadHistory,
         EraseCleared, StartDownload, ResumeDownload, GetStarts, GetRefused, ReceiveBlock,
         GetFailed, CrashAndRestart, files
  <2> QED
    BY <2>1, <2>2, FinalFrame
<1> QED
  BY <1>2, <1>3

LEMMA InitContent == Init => ContentOK
<1>1. ASSUME Init, NEW j \in Jobs PROVE TmpOK(j) /\ FinalOK(j)
  <2>1. DestPath[j] \in Paths
    BY JobKinds
  <2> QED
    BY <1>1, <2>1 DEF Init, TmpOK, FinalOK, Rows, SavedRows
<1> QED
  BY <1>1 DEF ContentOK

(***************************************************************************)
(* For a job with a destination of its own and a client that resumes where *)
(* it is told to, whatever the other jobs are: the temporary file holds    *)
(* the first blocks of the source, the server is about to send the ones    *)
(* that follow, and a success has a file of the first blocks of the source *)
(* in place, all of them unless the client is FTP's, which takes a broken  *)
(* data connection for the end of the file (http_server.cpp:382-497,       *)
(* ftpclient.cpp:914-927).                                                 *)
(***************************************************************************)
THEOREM DownloadContent == Spec => []ContentOK
<1>1. QueueInv /\ TransferOK /\ ContentOK /\ [Next]_vars => ContentOK'
  <2> SUFFICES ASSUME QueueInv, TransferOK, ContentOK, [Next]_vars, NEW j \in Jobs, Reliable(j)
               PROVE  TmpOK(j)' /\ FinalOK(j)'
    BY DEF ContentOK, Reliable, OwnPath
  <2>1. TmpOK(j) /\ FinalOK(j)
    BY DEF ContentOK
  <2> QED
    BY <2>1, StepTmp, StepFinal
<1> QED
  BY <1>1, InitContent, DownloadQueue, DownloadTransfer, PTL DEF Spec

(* No download is over HTTP: there a server may answer a resumption with   *)
(* something else than the rest of the file, and both properties fail.     *)
NoHttp == \A j \in Jobs : Type[j] # "HTTP"

(***************************************************************************)
(* A download shown or remembered as a success has its file in place, cut  *)
(* from the source without a gap or a repetition, and whole unless it came *)
(* over FTP: the rename comes before the state and the state before the    *)
(* save (http_server.cpp:426-430, 490-494).                                *)
(***************************************************************************)
THEOREM DownloadSuccessHasFile == ASSUME NoHttp PROVE Spec => []SuccessHasFile
<1>1. ASSUME QueueInv, ContentOK PROVE SuccessHasFile
  <2> SUFFICES ASSUME NEW row \in Rows \cup SavedRows, row.state = "SUCCESS", OwnPath(row.job)
               PROVE  LET file == final[DestPath[row.job]] IN
                      /\ file # NoFile
                      /\ file = SubSeq(Whole(row.job), 1, Len(file))
                      /\ Type[row.job] # "FTP" => Len(file) = FileSize
    BY DEF SuccessHasFile
  <2>1. row.job \in Jobs
    BY <1>1, RowType DEF QueueInv, TypeOK, Rows, SavedRows
  <2>2. /\ final[DestPath[row.job]] \in File /\ IsPrefixOf(final[DestPath[row.job]], row.job)
        /\ Type[row.job] # "FTP" => Len(final[DestPath[row.job]]) = FileSize
    BY <1>1, <2>1, NoHttp DEF ContentOK, Reliable, FinalOK, NoHttp
  <2> QED
    BY <2>1, <2>2, PrefixCut, FileNames
<1>2. QueueInv /\ ContentOK => SuccessHasFile
  BY <1>1
<1> QED
  BY <1>2, DownloadQueue, DownloadContent, PTL

(***************************************************************************)
(* What a resumption appends to is a prefix of the source: no block is     *)
(* lost or repeated across attempts and restarts (http_server.cpp:457-470).*)
(***************************************************************************)
THEOREM DownloadPartialIsPrefix == ASSUME NoHttp PROVE Spec => []PartialIsPrefix
<1>1. ASSUME QueueInv, ContentOK PROVE PartialIsPrefix
  <2> SUFFICES ASSUME NEW j \in Jobs, OwnPath(j), tmp[DestPath[j]] # NoFile
               PROVE  tmp[DestPath[j]] = SubSeq(Whole(j), 1, TmpSize(j))
    BY DEF PartialIsPrefix
  <2> DEFINE file == tmp[DestPath[j]]
  <2>1. file \in File /\ TmpSize(j) = Len(file)
    BY <1>1, JobKinds DEF QueueInv, TypeOK, TmpSize
  <2>2. IsPrefixOf(file, j)
    BY <1>1 DEF ContentOK, Reliable, TmpOK, NoHttp
  <2> HIDE DEF file
  <2>3. file = SubSeq(Whole(j), 1, Len(file))
    BY <2>1, <2>2, PrefixCut
  <2> QED
    BY <2>1, <2>3 DEF file
<1>2. QueueInv /\ ContentOK => PartialIsPrefix
  BY <1>1
<1> QED
  BY <1>2, DownloadQueue, DownloadContent, PTL
=============================================================================
