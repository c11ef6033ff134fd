--------------------------- MODULE HttpServerProofs ---------------------------
(***************************************************************************)
(* Proofs about HttpServer, for any number of workers, connections and     *)
(* requests, any size of package and any word: no client is stranded,      *)
(* listen leaves nothing behind, the provider is asked for the range that  *)
(* was asked for, and a connection that is kept is framed.                 *)
(***************************************************************************)
EXTENDS HttpServer, WellFoundedInduction, TLAPS

(* A non-empty set of naturals has a least element.                        *)
LEMMA LeastNatural ==
  ASSUME NEW S \in SUBSET Nat, S # {}
  PROVE  \E x \in S : \A y \in S : x <= y
<1> DEFINE less == {p \in Nat \X Nat : p[1] < p[2]}
<1>1. IsWellFoundedOn(less, Nat)
  BY NatLessThanWellFounded DEF OpToRel
<1>2. PICK x \in S : \A y \in S : <<y, x>> \notin less
  <2> HIDE DEF less
  <2> QED
    BY <1>1, WFMin
<1>3. ASSUME NEW y \in S PROVE x <= y
  <2>1. ~(y < x)
    BY <1>2
  <2> QED
    BY <2>1
<1> QED
  BY <1>3

(* Induction up to a bound, for a set instead of a predicate.              *)
LEMMA InductionTo ==
  ASSUME NEW bound \in Nat, NEW S, 0 \in S,
         \A n \in 0..(bound - 1) : n \in S => n + 1 \in S
  PROVE  \A n \in 0..bound : n \in S
<1> SUFFICES ASSUME NEW n \in 0..bound, n \notin S PROVE FALSE
  OBVIOUS
<1> DEFINE R == (0..bound) \ S
<1>1. PICK x \in R : \A y \in R : x <= y
  <2>1. R \in SUBSET Nat /\ R # {}
    OBVIOUS
  <2> HIDE DEF R
  <2> QED
    BY <2>1, LeastNatural
<1>2. x - 1 \in 0..(bound - 1) /\ x - 1 \in S
  BY <1>1
<1> QED
  BY <1>1, <1>2

Labels == {"none", "wait", "keepalive", "route", "stop", "poll", "write", "provide", "respond"}
Threads == [pc : Labels, conn : Conns \cup {Nobody}, count : Int, req : Requests,
            part : Nat, offset : Int, end : Int, declared : Int, written : Int, lost : Int,
            success : BOOLEAN, ok : BOOLEAN, last : BOOLEAN]
Answers == [declared : Int, written : Int, lost : Int, req : Requests]

(* The types. *)
Types ==
  /\ main \in {"head", "bind", "accept", "join", "after", "done", "aborted"}
  /\ gen \in Nat /\ svr_sock \in Nat
  /\ conn \in [Conns -> {"new", "queued", "served", "closed"}]
  /\ script \in [Conns -> Seq(Requests)] /\ jobs \in Seq(Conns) /\ shutdown \in BOOLEAN
  /\ w \in [Workers -> Threads] /\ held \subseteq Workers /\ reply \in [Conns -> Answers]

Active(t) == w[t].pc \notin {"none", "wait"}
Listening == main \in {"accept", "join"}

(* The life of a task queue: its threads end when it is shut down and has  *)
(* no more jobs, and the socket it serves is the only one open.            *)
QueueOK ==
  /\ open \subseteq {svr_sock} \ {0}
  /\ main # "accept" => open = {}
  /\ main = "accept" => ~shutdown
  /\ ~Listening => jobs = <<>> /\ \A t \in Workers : w[t].pc = "none"
  /\ Listening => \A t \in Workers : w[t].pc = "none" => shutdown /\ jobs = <<>>

(* A connection is queued once or served by one worker. *)
ConnsOK ==
  /\ \A c \in Conns : conn[c] = "queued" => \E n \in DOMAIN jobs : jobs[n] = c
  /\ \A n \in DOMAIN jobs : conn[jobs[n]] = "queued"
  /\ \A m, n \in DOMAIN jobs : m # n => jobs[m] # jobs[n]
  /\ \A c \in Conns : conn[c] = "served" => \E t \in Workers : Active(t) /\ w[t].conn = c
  /\ \A t \in Workers : Active(t) => w[t].conn \in Conns /\ conn[w[t].conn] = "served"
  /\ \A t, u \in Workers : t # u /\ Active(t) /\ Active(u) => w[t].conn # w[u].conn

HeldOK == \A t \in held : Serving(t) /\ w[t].req.kind = "install"

(* A part is written in one piece, from its offset to its end. *)
PartFits(f) ==
  f.pc \in {"write", "provide"} =>
    LET p == Parts(f.req)[f.part] IN
    /\ f.part \in DOMAIN Parts(f.req)
    /\ f.end = (p[1] + p[2]) % Word
    /\ f.offset = p[1] \/ (f.pc = "write" /\ f.offset = f.end)
PartOK == \A t \in Workers : PartFits(w[t])

(* The recursion of SumLengths. *)
Summed(parts, sum, bound) ==
  sum = [n \in 0..bound |-> IF n = 0 THEN 0 ELSE sum[n - 1] + parts[n][2] + Overhead]
Sums(parts) == CHOOSE sum : Summed(parts, sum, Len(parts))

Asks(req) == req.method = "GET" /\ WellAsked(req)

(* What was due before the part that is being written.                     *)
Before(req, n) == IF Len(req.ranges) > 1 THEN Sums(Parts(req))[n - 1] ELSE 0

(* A response has its length, if what was lost is counted.                 *)
Complete(f) == (f.written + f.lost) % Word = (HeadSize + f.declared) % Word

(* While the server is not stopped, what was written or lost is the head   *)
(* and the sum of the parts before and of this one, and in the end what    *)
(* was declared.                                                           *)
WrittenFits(f, s) ==
  /\ f.pc \in {"write", "provide"} /\ s # 0 /\ Asks(f.req) =>
       /\ f.declared = ContentLength(f.req)
       /\ f.written + f.lost = HeadSize + Before(f.req, f.part) + (f.offset - Parts(f.req)[f.part][1])
  /\ f.pc = "respond" /\ f.ok /\ s # 0 /\ Asks(f.req) => Complete(f)
WrittenOK == \A t \in Workers : WrittenFits(w[t], svr_sock)

(* Once the server is stopped no connection is kept. *)
Framed(r) == r # NoReply /\ Asks(r.req) => Complete(r)
KeptFits(f, s, replies) ==
  f.pc = "route" \/ (f.pc = "keepalive" /\ s # 0 /\ f.count > 0) => Framed(replies[f.conn])
RepliesOK ==
  /\ \A t \in Workers : KeptFits(w[t], svr_sock, reply)
  /\ \A c \in Conns : conn[c] \in {"new", "queued"} => Framed(reply[c])

Inv == Types /\ QueueOK /\ ConnsOK /\ HeldOK /\ PartOK /\ WrittenOK /\ RepliesOK

-----------------------------------------------------------------------------
(* Remainders. *)
LEMMA Remainder ==
  ASSUME NEW x \in Int
  PROVE  x % Word \in 0..(Word - 1) /\ (x \in 0..(Word - 1) => x % Word = x)
<1>1. Word \in Nat \ {0}
  BY ServerBounds
<1> QED
  BY <1>1

LEMMA RemainderOfSum ==
  ASSUME NEW a \in Int, NEW b \in Int
  PROVE  ((a % Word) + b) % Word = (a + b) % Word
<1>0. Word \in Nat \ {0}
  BY ServerBounds
<1> DEFINE r == a % Word
           q == a \div Word
           r2 == (r + b) % Word
           q2 == (r + b) \div Word
<1>1. r \in Int /\ q \in Int /\ a = q * Word + r
  BY <1>0, Z3
<1>2. r + b \in Int
  BY <1>1
<1>3. r2 \in 0..(Word - 1) /\ q2 \in Int /\ r + b = q2 * Word + r2
  <2> DEFINE x == r + b
  <2>1. x \in Int
    BY <1>2
  <2> HIDE DEF x
  <2>2. x % Word \in 0..(Word - 1) /\ x \div Word \in Int
    BY <1>0, <2>1
  <2>3. x = (x \div Word) * Word + (x % Word)
    BY <1>0, <2>1, Z3
  <2> QED
    BY <2>2, <2>3 DEF x
<1> HIDE DEF r, q, r2, q2
<1>4. a + b = Word * (q + q2) + r2 /\ q + q2 \in Int
  BY <1>0, <1>1, <1>3
<1> DEFINE s == q + q2
           c == a + b
<1>5. s \in Int /\ c \in Int /\ c = Word * s + r2
  BY <1>4
<1> HIDE DEF s, c
<1>6. c % Word = r2
  BY <1>0, <1>3, <1>5, Z3
<1> QED
  BY <1>6 DEF r2, r, c

(* What get_range_offset_and_length makes of a range: for one that lies in *)
(* the content, its bytes.                                                 *)
LEMMA RangeIsBytes ==
  ASSUME NEW r \in Bounds
  PROVE  LET p == RangeOffsetAndLength(r) IN
         /\ p \in Int \X Int
         /\ InContent(r) => /\ p[1] \in Nat /\ p[2] \in Nat /\ p[1] + p[2] <= Size
                            /\ p[1]..(p[1] + p[2] - 1) = Bytes(r)
<1> DEFINE a == r[1]
           b == r[2]
           p == RangeOffsetAndLength(r)
           first == IF a = -1 THEN Max2(0, Size - b) ELSE a
           last == IF a = -1 \/ b = -1 THEN Size - 1 ELSE b
<1>0. a \in Nat \cup {-1} /\ b \in Nat \cup {-1} /\ (a = -1 \/ b = -1 \/ a <= b)
      /\ Size \in Nat /\ Size < Word /\ Word \in Nat \ {0}
  BY ServerBounds DEF Bounds
<1>1. first \in Int /\ last \in Int
  BY <1>0 DEF Max2
<1>2. p = IF a = -1 /\ b = -1 THEN <<0, Size>> ELSE <<first, (last - first + 1) % Word>>
  BY DEF RangeOffsetAndLength
<1>3. (last - first + 1) % Word \in Int
  BY <1>0, <1>1
<1>4. p \in Int \X Int
  BY <1>0, <1>1, <1>2, <1>3
<1>5. ASSUME InContent(r), ~(a = -1 /\ b = -1)
      PROVE  first \in Nat /\ last - first + 1 \in Nat /\ last + 1 <= Size
  BY <1>0, <1>5 DEF InContent, Max2
<1>6. ASSUME InContent(r), ~(a = -1 /\ b = -1)
      PROVE  p[1] = first /\ p[2] = last - first + 1
  <2> DEFINE n == last - first + 1
  <2>1. n \in Int /\ n >= 0 /\ n <= Size
    BY <1>0, <1>1, <1>5, <1>6
  <2>2. n \in 0..(Word - 1)
    <3> HIDE DEF n
    <3> QED
      BY <1>0, <2>1
  <2>3. n % Word = n
    <3> HIDE DEF n
    <3> QED
      BY <2>2, Remainder
  <2> QED
    BY <1>2, <1>6, <2>3
<1>7. ASSUME InContent(r), ~(a = -1 /\ b = -1) PROVE first..last = Bytes(r)
  <2>1. CASE a = -1
    <3>1. b \in Nat /\ first = Max2(0, Size - b) /\ last = Size - 1
      BY <1>0, <1>7, <2>1
    <3>2. Bytes(r) = {x \in 0..(Size - 1) : x >= Size - b}
      BY <1>7, <2>1 DEF Bytes
    <3> QED
      BY <1>0, <3>1, <3>2 DEF Max2
  <2>2. CASE a # -1 /\ b = -1
    <3>1. Bytes(r) = {x \in 0..(Size - 1) : a <= x}
      BY <2>2 DEF Bytes
    <3> QED
      BY <1>0, <2>2, <3>1
  <2>3. CASE a # -1 /\ b # -1
    <3>1. Bytes(r) = {x \in 0..(Size - 1) : a <= x /\ x <= b}
      BY <2>3 DEF Bytes
    <3>2. b < Size
      BY <1>7, <2>3 DEF InContent
    <3> QED
      BY <1>0, <2>3, <3>1, <3>2
  <2> QED
    BY <2>1, <2>2, <2>3
<1>8. ASSUME InContent(r), a = -1, b = -1
      PROVE  p = <<0, Size>> /\ Bytes(r) = 0..(Size - 1)
  BY <1>2, <1>8 DEF Bytes
<1>9. ASSUME InContent(r)
      PROVE  /\ p[1] \in Nat /\ p[2] \in Nat /\ p[1] + p[2] <= Size
             /\ p[1]..(p[1] + p[2] - 1) = Bytes(r)
  <2>1. CASE a = -1 /\ b = -1
    BY <1>0, <1>8, <1>9, <2>1
  <2>2. CASE ~(a = -1 /\ b = -1)
    <3>1. /\ p[1] = first /\ p[2] = last - first + 1 /\ first..last = Bytes(r)
          /\ first \in Nat /\ last - first + 1 \in Nat /\ last + 1 <= Size
      BY <1>5, <1>6, <1>7, <1>9, <2>2
    <3> HIDE DEF first, last, p
    <3>2. p[1] + p[2] = last + 1 /\ p[1] + p[2] - 1 = last
      BY <1>1, <3>1
    <3> QED
      BY <3>1, <3>2
  <2> QED
    BY <2>1, <2>2
<1> QED
  BY <1>4, <1>9

(* The parts of a response. *)
LEMMA PartsOf ==
  ASSUME NEW req \in Requests
  PROVE  /\ Parts(req) \in Seq(Int \X Int) /\ 1 \in DOMAIN Parts(req)
         /\ Len(Parts(req)) = IF req.ranges = <<>> THEN 1 ELSE Len(req.ranges)
         /\ Len(req.ranges) \in Nat
         /\ WellAsked(req) => \A n \in DOMAIN Parts(req) :
              LET p == Parts(req)[n] IN
              /\ p[1] \in Nat /\ p[2] \in Nat /\ p[1] + p[2] <= Size
              /\ p[1]..(p[1] + p[2] - 1) = IF req.ranges = <<>> THEN 0..(Size - 1) ELSE Bytes(req.ranges[n])
<1>1. req.ranges \in Seq(Bounds) /\ Size \in Nat
  BY ServerBounds DEF Requests
<1>2. CASE req.ranges = <<>>
  <2>1. Parts(req) = << <<0, Size>> >>
    BY <1>2 DEF Parts
  <2>2. <<0, Size>> \in Int \X Int
    BY <1>1
  <2>3. Parts(req) \in Seq(Int \X Int) /\ Len(Parts(req)) = 1 /\ DOMAIN Parts(req) = {1}
        /\ Parts(req)[1] = <<0, Size>> /\ Len(req.ranges) = 0
    BY <1>2, <2>1, <2>2
  <2> QED
    BY <1>1, <1>2, <2>3
<1>3. CASE req.ranges # <<>>
  <2> DEFINE k == Len(req.ranges)
  <2>1. k \in Nat \ {0} /\ DOMAIN req.ranges = 1..k
    BY <1>1, <1>3
  <2>2. Parts(req) = [n \in 1..k |-> RangeOffsetAndLength(req.ranges[n])]
    BY <1>3, <2>1 DEF Parts
  <2>3. \A n \in 1..k : req.ranges[n] \in Bounds
    BY <1>1, <2>1
  <2>4. \A n \in 1..k : RangeOffsetAndLength(req.ranges[n]) \in Int \X Int
    BY <2>3, RangeIsBytes
  <2>5. Parts(req) \in Seq(Int \X Int) /\ Len(Parts(req)) = k /\ DOMAIN Parts(req) = 1..k
    <3> HIDE DEF k
    <3> QED
      BY <2>1, <2>2, <2>4
  <2>6. 1 \in 1..k
    <3> HIDE DEF k
    <3> QED
      BY <2>1
  <2>7. ASSUME WellAsked(req), NEW n \in 1..k
        PROVE  LET p == Parts(req)[n] IN
               /\ p[1] \in Nat /\ p[2] \in Nat /\ p[1] + p[2] <= Size
               /\ p[1]..(p[1] + p[2] - 1) = Bytes(req.ranges[n])
    <3>1. InContent(req.ranges[n]) /\ req.ranges[n] \in Bounds
      BY <2>1, <2>3, <2>7 DEF WellAsked
    <3>2. Parts(req)[n] = RangeOffsetAndLength(req.ranges[n])
      BY <2>2
    <3> QED
      BY <3>1, <3>2, RangeIsBytes
  <2> QED
    BY <1>3, <2>1, <2>5, <2>6, <2>7
<1> QED
  BY <1>2, <1>3

(* The recursion of SumLengths has a solution.                             *)
LEMMA SummedSolved ==
  ASSUME NEW parts \in Seq(Int \X Int)
  PROVE  \E sum : Summed(parts, sum, Len(parts))
<1> DEFINE Good == {n \in 0..Len(parts) : \E sum : Summed(parts, sum, n)}
<1>1. 0 \in Good
  <2> DEFINE one == [n \in 0..0 |-> 0]
  <2>1. Summed(parts, one, 0)
    BY DEF Summed
  <2> QED
    BY <2>1
<1>2. ASSUME NEW n \in 0..(Len(parts) - 1), n \in Good PROVE n + 1 \in Good
  <2>1. PICK sum : Summed(parts, sum, n)
    BY <1>2
  <2> DEFINE more == [m \in 0..(n + 1) |->
                        IF m <= n THEN sum[m] ELSE sum[n] + parts[m][2] + Overhead]
  <2>2. \A m \in 0..n : more[m] = sum[m]
    OBVIOUS
  <2>3. \A m \in 1..(n + 1) : m - 1 \in 0..n /\ more[m - 1] = sum[m - 1]
    BY <2>2
  <2>4. ASSUME NEW m \in 0..(n + 1)
        PROVE  more[m] = IF m = 0 THEN 0 ELSE more[m - 1] + parts[m][2] + Overhead
    <3>1. CASE m \in 0..n
      <4>1. sum[m] = IF m = 0 THEN 0 ELSE sum[m - 1] + parts[m][2] + Overhead
        BY <2>1, <3>1 DEF Summed
      <4>2. more[m] = sum[m]
        BY <2>2, <3>1
      <4>3. m # 0 => m \in 1..(n + 1)
        OBVIOUS
      <4>4. m # 0 => more[m - 1] = sum[m - 1]
        BY <2>3, <4>3
      <4> HIDE DEF more
      <4>5. CASE m = 0
        BY <4>1, <4>2, <4>5
      <4>6. CASE m # 0
        BY <4>1, <4>2, <4>4, <4>6
      <4> QED
        BY <4>5, <4>6
    <3>2. CASE m = n + 1
      BY <2>3, <3>2
    <3> QED
      BY <3>1, <3>2
  <2>5. Summed(parts, more, n + 1)
    BY <2>4 DEF Summed
  <2> QED
    BY <2>5
<1> HIDE DEF Good
<1>3. \A n \in 0..Len(parts) : n \in Good
  <2>1. Len(parts) \in Nat
    OBVIOUS
  <2>2. \A n \in 0..(Len(parts) - 1) : n \in Good => n + 1 \in Good
    BY <1>2
  <2> QED
    BY <1>1, <2>1, <2>2, InductionTo
<1> QED
  BY <1>3 DEF Good

(* The sums of the parts' lengths, up to the one apply_ranges declares.    *)
LEMMA SumsOf ==
  ASSUME NEW parts \in Seq(Int \X Int)
  PROVE  /\ Sums(parts)[0] = 0
         /\ \A n \in 0..Len(parts) : Sums(parts)[n] \in Int
         /\ \A n \in 1..Len(parts) : Sums(parts)[n] = Sums(parts)[n - 1] + parts[n][2] + Overhead
         /\ SumLengths(parts) = Sums(parts)[Len(parts)] % Word
<1> DEFINE sum == Sums(parts)
<1>1. Summed(parts, sum, Len(parts))
  BY SummedSolved DEF Sums
<1>2. SumLengths(parts) = sum[Len(parts)] % Word
  BY DEF SumLengths, Sums, Summed
<1> HIDE DEF sum
<1>3. \A n \in 0..Len(parts) : sum[n] = IF n = 0 THEN 0 ELSE sum[n - 1] + parts[n][2] + Overhead
  BY <1>1 DEF Summed
<1>4. 0 \in 0..Len(parts) /\ sum[0] = 0
  <2>1. 0 \in 0..Len(parts)
    OBVIOUS
  <2> QED
    BY <1>3, <2>1
<1> DEFINE Good == {n \in 0..Len(parts) : sum[n] \in Int}
<1>5. ASSUME NEW n \in 0..(Len(parts) - 1), n \in Good PROVE n + 1 \in Good
  <2>1. n + 1 \in 0..Len(parts) /\ n + 1 # 0 /\ (n + 1) - 1 = n /\ n + 1 \in 1..Len(parts)
    BY <1>5
  <2>2. parts[n + 1] \in Int \X Int
    BY <2>1
  <2>3. sum[n + 1] = sum[n] + parts[n + 1][2] + Overhead
    BY <1>3, <2>1
  <2>4. sum[n + 1] \in Int
    BY <1>5, <2>2, <2>3, ServerBounds
  <2> QED
    BY <2>1, <2>4
<1>6. 0 \in Good
  BY <1>4
<1> HIDE DEF Good
<1>7. \A n \in 0..Len(parts) : n \in Good
  <2>1. Len(parts) \in Nat
    OBVIOUS
  <2>2. \A n \in 0..(Len(parts) - 1) : n \in Good => n + 1 \in Good
    BY <1>5
  <2> QED
    BY <1>6, <2>1, <2>2, InductionTo
<1>8. \A n \in 1..Len(parts) : sum[n] = sum[n - 1] + parts[n][2] + Overhead
  <2>1. \A n \in 1..Len(parts) : n \in 0..Len(parts) /\ n # 0
    OBVIOUS
  <2> QED
    BY <1>3, <2>1
<1> QED
  BY <1>2, <1>4, <1>7, <1>8 DEF Good, sum

(* What Content-Length says is a number, and so is what was written.       *)
LEMMA Lengths ==
  ASSUME NEW req \in Requests, NEW n \in DOMAIN Parts(req)
  PROVE  /\ ContentLength(req) \in Int /\ Before(req, n) \in Int
         /\ Parts(req)[n][1] \in Int /\ Parts(req)[n][2] \in Int
<1>1. /\ Parts(req) \in Seq(Int \X Int) /\ 1 \in DOMAIN Parts(req) /\ Word \in Nat \ {0}
      /\ DOMAIN Parts(req) = 1..Len(Parts(req)) /\ Len(Parts(req)) \in Nat
  BY PartsOf, ServerBounds
<1>2. Parts(req)[n] \in Int \X Int /\ Parts(req)[1] \in Int \X Int
  BY <1>1
<1>3. n - 1 \in 0..Len(Parts(req)) /\ Len(Parts(req)) \in 0..Len(Parts(req))
  BY <1>1
<1>4. /\ Sums(Parts(req))[n - 1] \in Int /\ Sums(Parts(req))[Len(Parts(req))] \in Int
      /\ SumLengths(Parts(req)) = Sums(Parts(req))[Len(Parts(req))] % Word
  BY <1>1, <1>3, SumsOf
<1>5. SumLengths(Parts(req)) \in Int
  BY <1>4, Remainder
<1> QED
  BY <1>2, <1>4, <1>5 DEF ContentLength, Before

(* When a part is written, the sum up to it was due, and after the last    *)
(* one what was declared.                                                  *)
LEMMA PartWritten ==
  ASSUME NEW req \in Requests, WellAsked(req), NEW n \in DOMAIN Parts(req)
  PROVE  LET p == Parts(req)[n]
             due == Before(req, n) + p[2] + PartOverhead(req) IN
         /\ (p[1] + p[2]) % Word = p[1] + p[2]
         /\ n < Len(req.ranges) => n + 1 \in DOMAIN Parts(req) /\ due = Before(req, n + 1)
         /\ n >= Len(req.ranges) => (HeadSize + due) % Word = (HeadSize + ContentLength(req)) % Word
<1> DEFINE p == Parts(req)[n]
           sum == Sums(Parts(req))
           k == Len(Parts(req))
           d == Len(req.ranges)
<1>1. /\ Parts(req) \in Seq(Int \X Int) /\ k \in Nat /\ DOMAIN Parts(req) = 1..k /\ d \in Nat
      /\ k = IF req.ranges = <<>> THEN 1 ELSE d
      /\ p[1] \in Nat /\ p[2] \in Nat /\ p[1] + p[2] <= Size
      /\ Size \in Nat /\ Size < Word /\ Word \in Nat \ {0} /\ Overhead \in Nat
      /\ HeadSize \in Nat
  <2>1. /\ Parts(req) \in Seq(Int \X Int) /\ d \in Nat /\ k = IF req.ranges = <<>> THEN 1 ELSE d
    BY PartsOf
  <2>2. k \in Nat /\ DOMAIN Parts(req) = 1..k
    <3> DEFINE parts == Parts(req)
    <3>1. parts \in Seq(Int \X Int)
      BY <2>1
    <3> HIDE DEF parts
    <3>2. Len(parts) \in Nat /\ DOMAIN parts = 1..Len(parts)
      BY <3>1
    <3> QED
      BY <3>2 DEF parts
  <2>3. p[1] \in Nat /\ p[2] \in Nat /\ p[1] + p[2] <= Size
    BY PartsOf
  <2> HIDE DEF p, k, d
  <2> QED
    BY <2>1, <2>2, <2>3, ServerBounds
<1>2. /\ sum[n - 1] \in Int /\ sum[n] \in Int /\ sum[n] = sum[n - 1] + p[2] + Overhead
      /\ SumLengths(Parts(req)) = sum[k] % Word
  <2>1. n \in 1..k
    BY <1>1
  <2>2. n - 1 \in 0..k /\ n \in 0..k
    <3> HIDE DEF k
    <3> QED
      BY <1>1, <2>1
  <2> QED
    BY <1>1, <2>1, <2>2, SumsOf
<1>3. req.ranges = <<>> => d = 0
  OBVIOUS
<1>4. n \in 1..k
  BY <1>1
<1>5. p[2] % Word = p[2] /\ (p[1] + p[2]) % Word = p[1] + p[2]
  <2> DEFINE x == p[1]
             y == p[2]
             z == x + y
  <2>1. x \in Nat /\ y \in Nat /\ x + y <= Size /\ Size \in Nat /\ Size < Word /\ Word \in Nat
    BY <1>1
  <2> HIDE DEF x, y
  <2>2. y \in 0..(Word - 1) /\ z \in 0..(Word - 1)
    BY <2>1
  <2> HIDE DEF z
  <2>3. y % Word = y /\ z % Word = z
    BY <2>2, Remainder
  <2> QED
    BY <2>3 DEF x, y, z
<1>6. CASE d > 1
  <2>1. k = d
    BY <1>1, <1>3, <1>6
  <2>2. Before(req, n) = sum[n - 1] /\ Before(req, n + 1) = sum[n] /\ PartOverhead(req) = Overhead
    <3>1. (n + 1) - 1 = n
      BY <1>4
    <3> QED
      BY <1>6, <3>1 DEF Before, PartOverhead
  <2>3. ContentLength(req) = sum[k] % Word
    BY <1>2, <1>6 DEF ContentLength
  <2>4. Before(req, n) + p[2] + PartOverhead(req) = sum[n]
    BY <1>2, <2>2
  <2>5. (HeadSize + sum[n]) % Word = (HeadSize + (sum[n] % Word)) % Word
    <3> DEFINE a == sum[n]
               m == a % Word
    <3>1. a \in Int
      BY <1>2
    <3> HIDE DEF a
    <3>2. (m + HeadSize) % Word = (a + HeadSize) % Word
      <4>1. HeadSize \in Int
        BY <1>1
      <4> HIDE DEF p, sum, k, d
      <4>2. ((a % Word) + HeadSize) % Word = (a + HeadSize) % Word
        BY <3>1, <4>1, RemainderOfSum, Zenon
      <4> QED
        BY <4>2
    <3>3. m \in Int
      BY <3>1, Remainder
    <3> HIDE DEF m
    <3>4. m + HeadSize = HeadSize + m /\ a + HeadSize = HeadSize + a
      BY <1>1, <3>1, <3>3
    <3>5. (HeadSize + a) % Word = (HeadSize + m) % Word
      BY <3>2, <3>4
    <3> QED
      BY <3>5 DEF a, m
  <2>8. n < d => n + 1 \in 1..k
    <3> HIDE DEF k, d
    <3> QED
      BY <1>1, <1>4, <2>1
  <2>9. n >= d => n = k
    <3> HIDE DEF k, d
    <3> QED
      BY <1>1, <1>4, <2>1
  <2> QED
    BY <1>1, <1>5, <2>2, <2>3, <2>4, <2>5, <2>8, <2>9
<1>7. CASE ~(d > 1)
  <2>1. n = 1 /\ ~(n < d) /\ k = 1
    <3>1. d = 0 \/ d = 1
      <4> HIDE DEF d
      <4> QED
        BY <1>1, <1>7
    <3> QED
      BY <1>1, <1>3, <1>4, <3>1
  <2>2. Before(req, n) = 0 /\ ContentLength(req) = p[2] /\ PartOverhead(req) = 0
    BY <1>7, <2>1 DEF Before, ContentLength, PartOverhead
  <2>3. Before(req, n) + p[2] + PartOverhead(req) = ContentLength(req)
    <3> DEFINE b == p[2]
    <3>1. b \in Nat
      BY <1>1
    <3> HIDE DEF b
    <3>2. 0 + b + 0 = b
      BY <3>1
    <3> QED
      BY <2>2, <3>2 DEF b
  <2> QED
    BY <1>5, <2>1, <2>3
<1> QED
  BY <1>6, <1>7

-----------------------------------------------------------------------------
(* The values of the beginning. *)
LEMMA Beginnings ==
  /\ NoRequest \in Requests /\ NoWorker \in Threads /\ NoReply \in Answers
  /\ [NoWorker EXCEPT !.pc = "wait"] \in Threads
  /\ Framed(NoReply)
<1>1. NoRequest \in Requests
  <2>1. <<>> \in Seq(Bounds)
    OBVIOUS
  <2> QED
    BY <2>1 DEF NoRequest, Requests, Kinds, Methods
<1>2. NoWorker \in Threads
  <2>1. /\ 0 \in Int /\ 0 \in Nat /\ "none" \in Labels /\ Nobody \in Conns \cup {Nobody}
        /\ TRUE \in BOOLEAN /\ FALSE \in BOOLEAN
    BY DEF Labels
  <2> QED
    BY <1>1, <2>1 DEF NoWorker, Threads
<1>3. [NoWorker EXCEPT !.pc = "wait"] \in Threads
  BY <1>2 DEF Threads, Labels
<1>4. NoReply \in Answers
  BY <1>1 DEF NoReply, Answers
<1>5. Framed(NoReply)
  BY DEF Framed, NoReply
<1> QED
  BY <1>1, <1>2, <1>3, <1>4, <1>5

LEMMA InitInv == Init => Inv
<1> SUFFICES ASSUME Init PROVE Inv
  OBVIOUS
<1>1. Types
  <2>1. script \in [Conns -> Seq(Requests)] /\ jobs \in Seq(Conns)
    BY ServerBounds DEF Init
  <2>2. w \in [Workers -> Threads] /\ reply \in [Conns -> Answers]
    BY Beginnings DEF Init
  <2> QED
    BY <2>1, <2>2 DEF Init, Types
<1>2. \A t \in Workers : w[t] = NoWorker /\ w[t].pc = "none" /\ ~Active(t)
  BY DEF Init, NoWorker, Active
<1>3. QueueOK
  BY <1>2 DEF Init, QueueOK, Listening
<1>4. ConnsOK
  BY <1>2 DEF Init, ConnsOK
<1>5. HeldOK
  BY DEF Init, HeldOK
<1>6. PartOK
  BY <1>2 DEF PartOK, PartFits
<1>7. WrittenOK
  BY <1>2 DEF WrittenOK, WrittenFits
<1>8. RepliesOK
  <2>1. \A c \in Conns : Framed(reply[c])
    BY Beginnings DEF Init
  <2>2. \A t \in Workers : KeptFits(w[t], svr_sock, reply)
    BY <1>2 DEF KeptFits
  <2> QED
    BY <2>1, <2>2 DEF RepliesOK
<1> QED
  BY <1>1, <1>3, <1>4, <1>5, <1>6, <1>7, <1>8 DEF Inv

-----------------------------------------------------------------------------
(* A worker's step on its connection: what has to be shown of it is about  *)
(* its own thread and the last response on its connection.                 *)
LEMMA MovesInv ==
  ASSUME Inv, NEW t \in Workers, Active(t),
         NEW f \in Threads, f.pc \notin {"none", "wait"}, f.conn = w[t].conn,
         w' = [w EXCEPT ![t] = f],
         UNCHANGED <<main, gen, conn, jobs, shutdown>>,
         (open' = open /\ svr_sock' = svr_sock) \/ (open' = open \ {svr_sock} /\ svr_sock' = 0),
         script' \in [Conns -> Seq(Requests)], reply' \in [Conns -> Answers],
         \A c \in Conns : c # f.conn => reply'[c] = reply[c],
         held' \subseteq Workers, held' \ {t} = held \ {t},
         t \in held' => f.pc \in {"write", "provide", "respond"} /\ f.req.kind = "install",
         PartFits(f), WrittenFits(f, svr_sock'), KeptFits(f, svr_sock', reply')
  PROVE  Inv'
<1>1. /\ w \in [Workers -> Threads] /\ w'[t] = f
      /\ \A u \in Workers : u # t => w'[u] = w[u]
      /\ w' \in [Workers -> Threads]
  BY DEF Inv, Types
<1>2. \A u \in Workers : (Active(u)' <=> Active(u)) /\ w'[u].conn = w[u].conn
  BY <1>1 DEF Active
<1>3. Types'
  BY <1>1 DEF Inv, Types
<1>4. QueueOK'
  <2>1. open' \subseteq {svr_sock'} \ {0} /\ open' \subseteq open
    BY DEF Inv, QueueOK
  <2>2. Listening' <=> Listening
    BY DEF Listening
  <2>3. \A u \in Workers : w'[u].pc = "none" <=> w[u].pc = "none"
    BY <1>1 DEF Active
  <2> QED
    BY <2>1, <2>2, <2>3 DEF Inv, QueueOK
<1>5. ConnsOK'
  BY <1>2 DEF Inv, ConnsOK
<1>6. HeldOK'
  <2> SUFFICES ASSUME NEW u \in held' PROVE (Serving(u) /\ w[u].req.kind = "install")'
    BY DEF HeldOK
  <2>1. CASE u = t
    BY <1>1, <2>1 DEF Serving
  <2>2. CASE u # t
    <3>1. u \in held /\ u \in Workers
      BY <2>2
    <3> QED
      BY <1>1, <2>2, <3>1 DEF Inv, HeldOK, Serving
  <2> QED
    BY <2>1, <2>2
<1>7. PartOK'
  BY <1>1 DEF Inv, PartOK
<1>8. WrittenOK'
  <2> SUFFICES ASSUME NEW u \in Workers PROVE WrittenFits(w'[u], svr_sock')
    BY DEF WrittenOK
  <2>1. CASE u = t
    BY <1>1, <2>1
  <2>2. CASE u # t
    <3>1. WrittenFits(w[u], svr_sock) /\ w'[u] = w[u] /\ svr_sock' \in {svr_sock, 0}
      BY <1>1, <2>2 DEF Inv, WrittenOK
    <3> QED
      BY <3>1 DEF WrittenFits
  <2> QED
    BY <2>1, <2>2
<1>9. RepliesOK'
  <2>1. ASSUME NEW u \in Workers PROVE KeptFits(w'[u], svr_sock', reply')
    <3>1. CASE u = t
      BY <1>1, <3>1
    <3>2. CASE u # t
      <4>1. KeptFits(w[u], svr_sock, reply) /\ w'[u] = w[u] /\ svr_sock' \in {svr_sock, 0}
        BY <1>1, <3>2 DEF Inv, RepliesOK
      <4>2. Active(u) => w[u].conn \in Conns /\ w[u].conn # w[t].conn
        BY <3>2 DEF Inv, ConnsOK
      <4>3. Active(u) => reply'[w[u].conn] = reply[w[u].conn]
        BY <4>2
      <4> QED
        BY <4>1, <4>3 DEF KeptFits, Active
    <3> QED
      BY <3>1, <3>2
  <2>2. ASSUME NEW c \in Conns, conn'[c] \in {"new", "queued"} PROVE Framed(reply'[c])
    <3>1. conn[c] # "served" /\ conn[f.conn] = "served" /\ Framed(reply[c])
      BY <2>2 DEF Inv, ConnsOK, RepliesOK
    <3> QED
      BY <3>1
  <2> QED
    BY <2>1, <2>2 DEF RepliesOK
<1> QED
  BY <1>3, <1>4, <1>5, <1>6, <1>7, <1>8, <1>9 DEF Inv

LEMMA Labelled == {"respond", "write", "provide", "keepalive", "poll"} \subseteq Labels
  BY DEF Labels

(* A thread with one field changed. *)
LEMMA Updates ==
  ASSUME NEW v \in Threads
  PROVE  /\ \A x \in Labels : [v EXCEPT !.pc = x] \in Threads
         /\ \A x \in Nat : [v EXCEPT !.part = x] \in Threads
         /\ \A x \in Int : [v EXCEPT !.offset = x] \in Threads
         /\ \A x \in Int : [v EXCEPT !.end = x] \in Threads
         /\ \A x \in Int : [v EXCEPT !.declared = x] \in Threads
         /\ \A x \in Int : [v EXCEPT !.written = x] \in Threads
         /\ \A x \in Int : [v EXCEPT !.lost = x] \in Threads
         /\ \A x \in BOOLEAN : [v EXCEPT !.success = x] \in Threads
         /\ \A x \in BOOLEAN : [v EXCEPT !.ok = x] \in Threads
<1>1. \A x \in Labels : [v EXCEPT !.pc = x] \in Threads
  BY DEF Threads
<1>2. \A x \in Nat : [v EXCEPT !.part = x] \in Threads
  BY DEF Threads
<1>3. \A x \in Int : [v EXCEPT !.offset = x] \in Threads
  BY DEF Threads
<1>4. \A x \in Int : [v EXCEPT !.end = x] \in Threads
  BY DEF Threads
<1>5. \A x \in Int : [v EXCEPT !.declared = x] \in Threads
  BY DEF Threads
<1>6. \A x \in Int : [v EXCEPT !.written = x] \in Threads
  BY DEF Threads
<1>7. \A x \in BOOLEAN : [v EXCEPT !.success = x] \in Threads
  BY DEF Threads
<1>8. \A x \in BOOLEAN : [v EXCEPT !.ok = x] \in Threads
  BY DEF Threads
<1>9. \A x \in Int : [v EXCEPT !.lost = x] \in Threads
  BY DEF Threads
<1> QED
  BY <1>1, <1>2, <1>3, <1>4, <1>5, <1>6, <1>7, <1>8, <1>9

(* What is known of a worker that serves a connection. *)
LEMMA Acting ==
  ASSUME Inv, NEW t \in Workers, w[t].pc \notin {"none", "wait"}
  PROVE  /\ Active(t) /\ w[t] \in Threads /\ w \in [Workers -> Threads]
         /\ w[t].conn \in Conns /\ conn[w[t].conn] = "served"
         /\ w[t].req \in Requests /\ w[t].part \in Nat /\ w[t].written \in Int /\ w[t].count \in Int
         /\ w[t].lost \in Int
         /\ w[t].offset \in Int /\ w[t].end \in Int /\ w[t].declared \in Int
         /\ PartFits(w[t]) /\ WrittenFits(w[t], svr_sock) /\ KeptFits(w[t], svr_sock, reply)
         /\ script \in [Conns -> Seq(Requests)] /\ reply \in [Conns -> Answers]
         /\ held \subseteq Workers /\ svr_sock \in Nat
         /\ t \in held => Serving(t) /\ w[t].req.kind = "install"
<1>1. Active(t)
  BY DEF Active
<1>2. w \in [Workers -> Threads] /\ w[t] \in Threads
  BY DEF Inv, Types
<1>3. w[t].conn \in Conns /\ conn[w[t].conn] = "served"
  BY <1>1 DEF Inv, ConnsOK
<1>4. /\ w[t].req \in Requests /\ w[t].part \in Nat /\ w[t].written \in Int /\ w[t].count \in Int
      /\ w[t].lost \in Int
      /\ w[t].offset \in Int /\ w[t].end \in Int /\ w[t].declared \in Int
  BY <1>2 DEF Threads
<1>5. PartFits(w[t]) /\ WrittenFits(w[t], svr_sock) /\ KeptFits(w[t], svr_sock, reply)
  BY DEF Inv, PartOK, WrittenOK, RepliesOK
<1>6. t \in held => Serving(t) /\ w[t].req.kind = "install"
  BY DEF Inv, HeldOK
<1> QED
  BY <1>1, <1>2, <1>3, <1>4, <1>5, <1>6 DEF Inv, Types

(* A request is read from the connection. *)
LEMMA NextRequestInv ==
  ASSUME Inv, NEW t \in Workers, NextRequest(t)
  PROVE  Inv'
<1> DEFINE c == w[t].conn
           r == Head(script[c])
           f == [w[t] EXCEPT !.pc = "route", !.req = r, !.last = r.close]
<1>1. w[t].pc = "keepalive" /\ Keep(t) /\ script[c] # <<>>
  BY DEF NextRequest
<1>2. script[c] \in Seq(Requests) /\ c \in Conns /\ w[t] \in Threads
  BY <1>1, Acting
<1>3. r \in Requests /\ Tail(script[c]) \in Seq(Requests)
  BY <1>1, <1>2
<1>4. r.close \in BOOLEAN
  BY <1>3 DEF Requests
<1>5. /\ f \in Threads /\ f.pc = "route" /\ f.conn = c
  <2> HIDE DEF r
  <2> QED
    BY <1>2, <1>3, <1>4 DEF Threads, Labels
<1>6. w' = [w EXCEPT ![t] = f]
  BY DEF NextRequest
<1>7. script' \in [Conns -> Seq(Requests)]
  <2>1. script' = [script EXCEPT ![c] = Tail(script[c])]
    BY DEF NextRequest
  <2> QED
    BY <1>1, <1>2, <1>3, <2>1, Acting
<1>8. KeptFits(f, svr_sock', reply')
  BY <1>1, <1>5, Acting DEF KeptFits, Keep, NextRequest, lifecycle
<1> HIDE DEF f
<1>9. PartFits(f) /\ WrittenFits(f, svr_sock')
  BY <1>5 DEF PartFits, WrittenFits
<1>10. t \notin held
  BY <1>1, Acting DEF Serving
<1> QED
  BY <1>1, <1>5, <1>6, <1>7, <1>8, <1>9, <1>10, Acting, MovesInv DEF NextRequest, lifecycle, queue

(* A request is answered with a body of its own, or half of it. *)
LEMMA AnsweredInv ==
  ASSUME Inv, NEW t \in Workers, w[t].pc \in {"route", "stop", "poll"}, NEW ok \in BOOLEAN, Answered(t, ok),
         UNCHANGED <<main, gen, conn, jobs, shutdown, held, reply>>,
         (open' = open /\ svr_sock' = svr_sock) \/ (open' = open \ {svr_sock} /\ svr_sock' = 0),
         script' \in [Conns -> Seq(Requests)]
  PROVE  Inv'
<1>1. w[t] \in Threads
  BY Acting
<1>2. PICK head \in 0..HeadSize :
        w' = [w EXCEPT ![t].pc = "respond", ![t].ok = ok, ![t].declared = 1,
                       ![t].written = head + (IF ok THEN 1 ELSE 0), ![t].lost = HeadSize - head]
  BY DEF Answered
<1> DEFINE n == head + (IF ok THEN 1 ELSE 0)
           l == HeadSize - head
           f == [w[t] EXCEPT !.pc = "respond", !.ok = ok, !.declared = 1, !.written = n, !.lost = l]
<1>3. n \in Int /\ l \in Int /\ (ok => n + l = HeadSize + 1)
  BY ServerBounds
<1>4. w' = [w EXCEPT ![t] = f]
  BY <1>2
<1> HIDE DEF n, l
<1>5. f \in Threads /\ f.pc = "respond" /\ f.conn = w[t].conn
  <2>1. f \in Threads
    <3> DEFINE v1 == [w[t] EXCEPT !.pc = "respond"]
               v2 == [v1 EXCEPT !.ok = ok]
               v3 == [v2 EXCEPT !.declared = 1]
               v4 == [v3 EXCEPT !.written = n]
    <3>1. v1 \in Threads
      BY <1>1, Labelled, Updates
    <3>2. v2 \in Threads
      <4> HIDE DEF v1
      <4> QED
        BY <3>1, Updates
    <3>3. v3 \in Threads
      <4> HIDE DEF v2
      <4>1. 1 \in Int
        OBVIOUS
      <4> QED
        BY <3>2, <4>1, Updates
    <3>4. v4 \in Threads
      <4> HIDE DEF v3
      <4> QED
        BY <1>3, <3>3, Updates
    <3>5. [v4 EXCEPT !.lost = l] \in Threads
      <4> HIDE DEF v4
      <4> QED
        BY <1>3, <3>4, Updates
    <3> QED
      BY <3>5
  <2>2. f.pc = "respond" /\ f.conn = w[t].conn
    BY <1>1 DEF Threads
  <2> QED
    BY <2>1, <2>2
<1>6. f.ok => Complete(f)
  <2>1. f.ok = ok /\ f.declared = 1 /\ f.written = n /\ f.lost = l
    BY <1>1 DEF Threads
  <2> HIDE DEF f
  <2> QED
    BY <1>3, <2>1 DEF Complete
<1> HIDE DEF f
<1>7. PartFits(f) /\ WrittenFits(f, svr_sock') /\ KeptFits(f, svr_sock', reply')
  BY <1>5, <1>6 DEF PartFits, WrittenFits, KeptFits
<1>8. t \notin held
  BY Acting DEF Serving
<1> QED
  BY <1>4, <1>5, <1>7, <1>8, Acting, MovesInv

LEMMA RefuseInv ==
  ASSUME Inv, NEW t \in Workers, Refuse(t)
  PROVE  Inv'
<1>1. PICK ok \in BOOLEAN : Answered(t, ok)
  BY DEF Refuse
<1>2. w[t].pc = "route"
  BY DEF Refuse
<1>3. script' \in [Conns -> Seq(Requests)]
  <2> DEFINE line == [NoRequest EXCEPT !.kind = "line"]
             c == w[t].conn
  <2>1. line \in Requests
    BY Beginnings DEF Requests, Kinds
  <2>2. script \in [Conns -> Seq(Requests)] /\ script[c] \in Seq(Requests) /\ c \in Conns
    BY <1>2, Acting
  <2>3. <<line>> \o script[c] \in Seq(Requests)
    <3> HIDE DEF line
    <3> QED
      BY <2>1, <2>2
  <2>4. script' = script \/ script' = [script EXCEPT ![c] = <<line>> \o script[c]]
    BY DEF Refuse
  <2> QED
    BY <2>2, <2>3, <2>4
<1> QED
  BY <1>1, <1>2, <1>3, AnsweredInv DEF Refuse, lifecycle, queue

LEMMA DispatchRequestInv ==
  ASSUME Inv, NEW t \in Workers, DispatchRequest(t)
  PROVE  Inv'
<1>1. PICK ok \in BOOLEAN : Answered(t, ok)
  BY DEF DispatchRequest
<1>2. script \in [Conns -> Seq(Requests)]
  BY DEF Inv, Types
<1> QED
  BY <1>1, <1>2, AnsweredInv DEF DispatchRequest, lifecycle, queue

(* The process dies: nothing is left to speak of. *)
LEMMA DiesInv == Inv /\ Dies => Inv'
<1> SUFFICES ASSUME Inv, Dies PROVE Inv'
  OBVIOUS
<1>1. \A t \in Workers : w'[t] = NoWorker /\ w'[t].pc = "none"
  BY DEF Dies, NoWorker
<1>2. Types'
  <2>1. w' \in [Workers -> Threads] /\ reply' \in [Conns -> Answers]
    BY Beginnings DEF Dies
  <2>2. jobs' \in Seq(Conns) /\ conn' \in [Conns -> {"new", "queued", "served", "closed"}]
    BY DEF Dies
  <2> QED
    BY <2>1, <2>2 DEF Inv, Types, Dies
<1>3. QueueOK'
  BY <1>1 DEF Dies, QueueOK, Listening
<1>4. \A t \in Workers : ~Active(t)'
  BY <1>1 DEF Active
<1>5. ConnsOK'
  <2>1. (\A c \in Conns : conn'[c] = "closed") /\ DOMAIN jobs' = {}
    BY DEF Dies
  <2> QED
    BY <1>4, <2>1 DEF ConnsOK
<1>6. HeldOK'
  BY DEF Dies, HeldOK
<1>7. PartOK' /\ WrittenOK'
  BY <1>1 DEF PartOK, PartFits, WrittenOK, WrittenFits
<1>8. RepliesOK'
  BY <1>1 DEF Dies, RepliesOK, KeptFits
<1> QED
  BY <1>2, <1>3, <1>5, <1>6, <1>7, <1>8 DEF Inv

(* The handler of /stop passes its assertion, or the process aborts. *)
LEMMA StopHandlerInv ==
  ASSUME Inv, NEW t \in Workers, StopHandler(t)
  PROVE  Inv'
<1> DEFINE kept == UNCHANGED <<main, gen, svr_sock, open, is_running, in_rest_mode, naps,
                               conn, script, queue, held, reply>>
<1>1. w[t].pc = "route"
  BY DEF StopHandler
<1>2. CASE Dies
  BY <1>2, DiesInv
<1>3. ASSUME NEW ok \in BOOLEAN, Answered(t, ok), kept PROVE Inv'
  <2>1. script' \in [Conns -> Seq(Requests)]
    BY <1>3 DEF Inv, Types
  <2> QED
    BY <1>1, <1>3, <2>1, AnsweredInv DEF queue
<1>4. ASSUME w' = [w EXCEPT ![t].pc = "stop"], kept PROVE Inv'
  <2> DEFINE f == [w[t] EXCEPT !.pc = "stop"]
  <2>1. f \in Threads /\ f.pc = "stop" /\ f.conn = w[t].conn
    <3>1. w[t] \in Threads
      BY <1>1, Acting
    <3> QED
      BY <3>1 DEF Threads, Labels
  <2>2. w' = [w EXCEPT ![t] = f]
    BY <1>4
  <2> HIDE DEF f
  <2>3. PartFits(f) /\ WrittenFits(f, svr_sock') /\ KeptFits(f, svr_sock', reply')
    BY <2>1 DEF PartFits, WrittenFits, KeptFits
  <2>4. t \notin held
    BY <1>1, Acting DEF Serving
  <2> QED
    BY <1>1, <1>4, <2>1, <2>2, <2>3, <2>4, Acting, MovesInv DEF queue
<1> QED
  BY <1>2, <1>3, <1>4 DEF StopHandler

(* It closes the socket the server listens on. *)
LEMMA CloseListenerInv ==
  ASSUME Inv, NEW t \in Workers, CloseListener(t)
  PROVE  Inv'
<1>1. PICK ok \in BOOLEAN : Answered(t, ok)
  BY DEF CloseListener
<1>2. script \in [Conns -> Seq(Requests)]
  BY DEF Inv, Types
<1>3. w[t].pc = "stop" /\ open' = open \ {svr_sock} /\ svr_sock' = 0
  BY DEF CloseListener, Close
<1> QED
  BY <1>1, <1>2, <1>3, AnsweredInv DEF CloseListener, queue

(* The handler of /start_client answers, or looks for the client again. *)
LEMMA PollInv ==
  ASSUME Inv, NEW t \in Workers, w[t].pc \in {"route", "poll"}, NEW n \in Nat,
         w' = [w EXCEPT ![t].pc = "poll", ![t].part = n],
         UNCHANGED <<lifecycle, conn, script, queue, held, reply>>
  PROVE  Inv'
<1> DEFINE f == [w[t] EXCEPT !.pc = "poll", !.part = n]
<1>1. f \in Threads /\ f.pc = "poll" /\ f.conn = w[t].conn
  <2> DEFINE g == [w[t] EXCEPT !.pc = "poll"]
  <2>1. w[t] \in Threads
    BY Acting
  <2>2. g \in Threads
    BY <2>1, Labelled, Updates
  <2>3. [g EXCEPT !.part = n] \in Threads
    <3> HIDE DEF g
    <3> QED
      BY <2>2, Updates
  <2>4. f.pc = "poll" /\ f.conn = w[t].conn
    BY <2>1 DEF Threads
  <2> QED
    BY <2>3, <2>4
<1>2. w' = [w EXCEPT ![t] = f]
  OBVIOUS
<1> HIDE DEF f
<1>3. PartFits(f) /\ WrittenFits(f, svr_sock') /\ KeptFits(f, svr_sock', reply')
  BY <1>1 DEF PartFits, WrittenFits, KeptFits
<1>4. t \notin held
  BY Acting DEF Serving
<1> QED
  BY <1>1, <1>2, <1>3, <1>4, Acting, MovesInv DEF lifecycle, queue

LEMMA StartClientInv ==
  ASSUME Inv, NEW t \in Workers, StartClient(t)
  PROVE  Inv'
<1>1. w[t].pc = "route" /\ UNCHANGED <<lifecycle, conn, script, queue, held, reply>>
  BY DEF StartClient
<1>2. script' \in [Conns -> Seq(Requests)]
  BY <1>1 DEF Inv, Types
<1>3. ASSUME NEW ok \in BOOLEAN, Answered(t, ok) PROVE Inv'
  BY <1>1, <1>2, <1>3, AnsweredInv DEF lifecycle, queue
<1>4. ASSUME w' = [w EXCEPT ![t].pc = "poll", ![t].part = 0] PROVE Inv'
  BY <1>1, <1>4, PollInv
<1> QED
  BY <1>3, <1>4 DEF StartClient

LEMMA PollClientInv ==
  ASSUME Inv, NEW t \in Workers, PollClient(t)
  PROVE  Inv'
<1>1. w[t].pc = "poll" /\ UNCHANGED <<lifecycle, conn, script, queue, held, reply>>
  BY DEF PollClient
<1>2. script' \in [Conns -> Seq(Requests)]
  BY <1>1 DEF Inv, Types
<1>3. ASSUME NEW ok \in BOOLEAN, Answered(t, ok) PROVE Inv'
  BY <1>1, <1>2, <1>3, AnsweredInv DEF lifecycle, queue
<1>4. ASSUME w' = [w EXCEPT ![t].part = @ + 1] PROVE Inv'
  <2> DEFINE n == w[t].part + 1
  <2>1. n \in Nat /\ w[t] \in Threads /\ w \in [Workers -> Threads]
    BY <1>1, Acting
  <2>2. w' = [w EXCEPT ![t] = [w[t] EXCEPT !.part = n]]
    BY <1>4
  <2>3. [w[t] EXCEPT !.part = n] = [w[t] EXCEPT !.pc = "poll", !.part = n]
    BY <1>1, <2>1 DEF Threads
  <2>4. w' = [w EXCEPT ![t].pc = "poll", ![t].part = n]
    BY <2>2, <2>3
  <2> QED
    BY <1>1, <2>1, <2>4, PollInv
<1> QED
  BY <1>3, <1>4 DEF PollClient

(* The content is written from its first part, unless there is none. *)
LEMMA ProvideInv ==
  ASSUME Inv, NEW t \in Workers, w[t].pc = "route", Provide(t),
         UNCHANGED <<lifecycle, conn, script, queue, reply>>,
         held' = held \/ (held' = held \cup {t} /\ w[t].req.kind = "install")
  PROVE  Inv'
<1>0. PICK head \in 0..HeadSize :
        w' = [w EXCEPT ![t] =
          IF Size = 0 \/ @.req.method = "HEAD"
          THEN [@ EXCEPT !.pc = "respond", !.declared = 0, !.written = head, !.lost = HeadSize - head]
          ELSE [Part(t, 1) EXCEPT !.declared = ContentLength(w[t].req),
                                  !.written = head, !.lost = HeadSize - head]]
  BY DEF Provide
<1> DEFINE req == w[t].req
           p == Parts(req)[1]
           e == (p[1] + p[2]) % Word
           l == ContentLength(req)
           u == HeadSize - head
           empty == [w[t] EXCEPT !.pc = "respond", !.declared = 0, !.written = head, !.lost = u]
           g == [w[t] EXCEPT !.pc = "write", !.part = 1, !.offset = p[1], !.end = e,
                             !.declared = l, !.written = head, !.lost = u]
<1>1. req \in Requests /\ w[t] \in Threads /\ t \notin held /\ held' \subseteq Workers
  BY Acting DEF Serving
<1>2. 1 \in DOMAIN Parts(req) /\ p[1] \in Int /\ p[2] \in Int /\ l \in Int /\ Before(req, 1) \in Int
  BY <1>1, PartsOf, Lengths
<1>3. e \in Int
  BY <1>2, Remainder
<1>4. Before(req, 1) = 0
  <2>1. Parts(req) \in Seq(Int \X Int) /\ 1 - 1 = 0
    BY <1>1, PartsOf
  <2>2. Sums(Parts(req))[0] = 0
    BY <2>1, SumsOf
  <2> QED
    BY <2>1, <2>2 DEF Before
<1>5. w' = [w EXCEPT ![t] = IF Size = 0 \/ req.method = "HEAD" THEN empty ELSE g]
  BY <1>0 DEF Part
<1>8. head \in Int /\ u \in Int /\ head + u = HeadSize /\ HeadSize \in Int
  BY ServerBounds
<1> HIDE DEF u
<1>6. ASSUME w' = [w EXCEPT ![t] = empty] PROVE Inv'
  <2>1. empty \in Threads /\ empty.pc = "respond" /\ empty.conn = w[t].conn /\ empty.req = req
        /\ empty.declared = 0 /\ empty.written = head /\ empty.lost = u
    <3>1. empty \in Threads
      <4> DEFINE v1 == [w[t] EXCEPT !.pc = "respond"]
                 v2 == [v1 EXCEPT !.declared = 0]
                 v3 == [v2 EXCEPT !.written = head]
      <4>1. v1 \in Threads
        BY <1>1, Labelled, Updates
      <4>2. v2 \in Threads
        <5> HIDE DEF v1
        <5> QED
          BY <4>1, Updates
      <4>3. v3 \in Threads
        <5> HIDE DEF v2
        <5> QED
          BY <1>8, <4>2, Updates
      <4>4. [v3 EXCEPT !.lost = u] \in Threads
        <5> HIDE DEF v3
        <5> QED
          BY <1>8, <4>3, Updates
      <4> QED
        BY <4>4
    <3>2. /\ empty.pc = "respond" /\ empty.conn = w[t].conn /\ empty.req = req
          /\ empty.declared = 0 /\ empty.written = head /\ empty.lost = u
      BY <1>1 DEF Threads
    <3> QED
      BY <3>1, <3>2
  <2> HIDE DEF empty
  <2>2. Complete(empty)
    <3>1. HeadSize + 0 = HeadSize
      BY <1>8
    <3> QED
      BY <1>8, <2>1, <3>1 DEF Complete
  <2>3. PartFits(empty) /\ WrittenFits(empty, svr_sock') /\ KeptFits(empty, svr_sock', reply')
    BY <2>1, <2>2 DEF PartFits, WrittenFits, KeptFits
  <2> QED
    BY <1>1, <1>6, <2>1, <2>3, Acting, MovesInv DEF lifecycle, queue
<1>7. ASSUME w' = [w EXCEPT ![t] = g] PROVE Inv'
  <2>1. /\ g \in Threads /\ g.pc = "write" /\ g.conn = w[t].conn /\ g.req = req /\ g.part = 1
        /\ g.offset = p[1] /\ g.end = e /\ g.declared = l /\ g.written = head /\ g.lost = u
    <3> HIDE DEF p, e, l
    <3>1. g \in Threads
      <4> DEFINE v1 == [w[t] EXCEPT !.pc = "write"]
                 v2 == [v1 EXCEPT !.part = 1]
                 v3 == [v2 EXCEPT !.offset = p[1]]
                 v4 == [v3 EXCEPT !.end = e]
                 v5 == [v4 EXCEPT !.declared = l]
                 v6 == [v5 EXCEPT !.written = head]
      <4>1. v1 \in Threads
        BY <1>1, <1>2, <1>3, Labelled, Updates
      <4>2. v2 \in Threads
        <5> HIDE DEF v1
        <5> QED
          BY <4>1, <1>2, <1>3, Updates
      <4>3. v3 \in Threads
        <5> HIDE DEF v2
        <5> QED
          BY <4>2, <1>2, <1>3, Updates
      <4>4. v4 \in Threads
        <5> HIDE DEF v3
        <5> QED
          BY <4>3, <1>2, <1>3, Updates
      <4>5. v5 \in Threads
        <5> HIDE DEF v4
        <5> QED
          BY <4>4, <1>2, <1>3, Updates
      <4>6. v6 \in Threads
        <5> HIDE DEF v5
        <5> QED
          BY <1>8, <4>5, Updates
      <4>7. [v6 EXCEPT !.lost = u] \in Threads
        <5> HIDE DEF v6
        <5> QED
          BY <1>8, <4>6, Updates
      <4> QED
        BY <4>7
    <3>2. /\ g.pc = "write" /\ g.conn = w[t].conn /\ g.req = req /\ g.part = 1
          /\ g.offset = p[1] /\ g.end = e /\ g.declared = l /\ g.written = head /\ g.lost = u
      BY <1>1 DEF Threads
    <3> QED
      BY <3>1, <3>2
  <2> HIDE DEF g
  <2>2. PartFits(g)
    BY <1>2, <2>1 DEF PartFits
  <2>3. head + u = HeadSize + 0 + (p[1] - p[1])
    <3> HIDE DEF p
    <3> QED
      BY <1>2, <1>8
  <2>4. WrittenFits(g, svr_sock') /\ KeptFits(g, svr_sock', reply')
    BY <1>4, <2>1, <2>3 DEF WrittenFits, KeptFits
  <2> QED
    BY <1>1, <1>7, <2>1, <2>2, <2>4, Acting, MovesInv DEF lifecycle, queue
<1> QED
  BY <1>5, <1>6, <1>7

LEMMA ServesInv ==
  ASSUME Inv, NEW t \in Workers, HandleFileRequest(t) \/ Install(t)
  PROVE  Inv'
<1>1. CASE HandleFileRequest(t)
  BY <1>1, ProvideInv DEF HandleFileRequest, queue, lifecycle
<1>2. CASE Install(t)
  BY <1>2, ProvideInv DEF Install, queue, lifecycle
<1> QED
  BY <1>1, <1>2

-----------------------------------------------------------------------------
(* A worker calls the provider for the rest of its part. *)
LEMMA CallProviderInv ==
  ASSUME Inv, NEW t \in Workers, CallProvider(t)
  PROVE  Inv'
<1> DEFINE v == w[t]
           f == [w[t] EXCEPT !.pc = "provide"]
<1>1. /\ v.pc = "write" /\ v.offset < v.end /\ svr_sock # 0 /\ w' = [w EXCEPT ![t] = f]
      /\ UNCHANGED <<lifecycle, conn, script, queue, held, reply>>
  BY DEF CallProvider
<1>2. /\ v \in Threads /\ v.offset \in Int /\ v.end \in Int /\ PartFits(v) /\ WrittenFits(v, svr_sock)
      /\ (t \in held => v.req.kind = "install")
  BY <1>1, Acting
<1>3. f \in Threads
  BY <1>2, Labelled, Updates
<1>4. /\ f.pc = "provide" /\ f.conn = v.conn /\ f.req = v.req /\ f.part = v.part /\ f.offset = v.offset
      /\ f.end = v.end /\ f.declared = v.declared /\ f.written = v.written /\ f.lost = v.lost
  BY <1>2 DEF Threads
<1>5. v.offset # v.end
  <2> HIDE DEF v
  <2> QED
    BY <1>1, <1>2
<1> HIDE DEF f, v
<1>6. PartFits(f)
  BY <1>1, <1>2, <1>4, <1>5 DEF PartFits
<1>7. WrittenFits(f, svr_sock') /\ KeptFits(f, svr_sock', reply')
  BY <1>1, <1>2, <1>4 DEF WrittenFits, KeptFits, lifecycle
<1> QED
  BY <1>1, <1>2, <1>3, <1>4, <1>6, <1>7, Acting, MovesInv DEF lifecycle, queue, v

(* The provider returns: the part is written, or the response cut short. *)
LEMMA ProviderReturnsInv ==
  ASSUME Inv, NEW t \in Workers, ProviderReturns(t)
  PROVE  Inv'
<1> DEFINE v == w[t]
           p == Parts(v.req)[v.part]
           length == v.end - v.offset
<1>1. v.pc = "provide" /\ UNCHANGED <<lifecycle, conn, script, queue, held, reply>>
  BY DEF ProviderReturns
<1>2. /\ v \in Threads /\ v.offset \in Int /\ v.end \in Int /\ v.written \in Int /\ v.req \in Requests
      /\ v.lost \in Int /\ HeadSize \in Int
      /\ PartFits(v) /\ WrittenFits(v, svr_sock)
      /\ (t \in held => v.req.kind = "install")
  BY <1>1, Acting, ServerBounds
<1>3. v.part \in DOMAIN Parts(v.req) /\ v.offset = p[1] /\ p[1] \in Int /\ p[2] \in Int
      /\ Before(v.req, v.part) \in Int
  <2>1. v.part \in DOMAIN Parts(v.req) /\ v.offset = p[1]
    BY <1>1, <1>2 DEF PartFits
  <2> QED
    BY <1>2, <2>1, Lengths
<1>4. length \in Int
  BY <1>2
<1>5. ASSUME w' = [w EXCEPT ![t].pc = "write", ![t].offset = @ + length, ![t].written = @ + length]
      PROVE  Inv'
  <2> DEFINE a == v.offset + length
             b == v.written + length
             v1 == [v EXCEPT !.pc = "write"]
             v2 == [v1 EXCEPT !.offset = a]
             f == [v EXCEPT !.pc = "write", !.offset = a, !.written = b]
  <2>1. a \in Int /\ b \in Int /\ a = v.end
    <3> HIDE DEF v
    <3> QED
      BY <1>2
  <2>2. w' = [w EXCEPT ![t] = f]
    BY <1>5
  <2> HIDE DEF a, b, v
  <2>3. v1 \in Threads
    BY <1>2, Labelled, Updates
  <2>4. v2 \in Threads
    <3> HIDE DEF v1
    <3> QED
      BY <2>1, <2>3, Updates
  <2>5. f \in Threads
    <3>1. [v2 EXCEPT !.written = b] \in Threads
      <4> HIDE DEF v2
      <4> QED
        BY <2>1, <2>4, Updates
    <3> QED
      BY <3>1
  <2>6. /\ f.pc = "write" /\ f.conn = v.conn /\ f.req = v.req /\ f.part = v.part /\ f.offset = a
        /\ f.end = v.end /\ f.declared = v.declared /\ f.written = b /\ f.lost = v.lost
    BY <1>2 DEF Threads
  <2> HIDE DEF f
  <2>7. PartFits(f)
    BY <1>1, <1>2, <2>1, <2>6 DEF PartFits
  <2>8. v.written + v.lost = HeadSize + Before(v.req, v.part) + (v.offset - p[1]) =>
          b + v.lost = HeadSize + Before(v.req, v.part) + (a - p[1])
    <3> DEFINE m == Before(v.req, v.part)
               x == p[1]
               u == v.lost
    <3>1. m \in Int /\ x \in Int /\ u \in Int
      BY <1>2, <1>3
    <3> HIDE DEF m, x, p, u
    <3> SUFFICES v.written + u = HeadSize + m + (v.offset - x) => b + u = HeadSize + m + (a - x)
      BY DEF m, x, u
    <3> QED
      BY <1>2, <3>1 DEF a, b
  <2>9. WrittenFits(f, svr_sock') /\ KeptFits(f, svr_sock', reply')
    BY <1>1, <1>2, <2>6, <2>8 DEF WrittenFits, KeptFits, lifecycle
  <2> QED
    BY <1>1, <1>2, <2>2, <2>5, <2>6, <2>7, <2>9, Acting, MovesInv DEF lifecycle, queue, v
<1>6. ASSUME NEW n \in {0, length - 1},
             w' = [w EXCEPT ![t].pc = "respond", ![t].ok = FALSE, ![t].written = @ + n]
      PROVE  Inv'
  <2> DEFINE b == v.written + n
             v1 == [v EXCEPT !.pc = "respond"]
             v2 == [v1 EXCEPT !.ok = FALSE]
             f == [v EXCEPT !.pc = "respond", !.ok = FALSE, !.written = b]
  <2>1. b \in Int
    <3>1. n \in Int
      <4> HIDE DEF length
      <4> QED
        BY <1>4
    <3> HIDE DEF v
    <3> QED
      BY <1>2, <3>1
  <2>2. w' = [w EXCEPT ![t] = f]
    BY <1>6
  <2> HIDE DEF b, v
  <2>3. v1 \in Threads
    BY <1>2, Labelled, Updates
  <2>4. v2 \in Threads
    <3> HIDE DEF v1
    <3> QED
      BY <2>3, Updates
  <2>5. f \in Threads
    <3>1. [v2 EXCEPT !.written = b] \in Threads
      <4> HIDE DEF v2
      <4> QED
        BY <2>1, <2>4, Updates
    <3> QED
      BY <3>1
  <2>6. f.pc = "respond" /\ f.conn = v.conn /\ f.req = v.req /\ ~f.ok
    BY <1>2 DEF Threads
  <2> HIDE DEF f
  <2>7. PartFits(f) /\ WrittenFits(f, svr_sock') /\ KeptFits(f, svr_sock', reply')
    BY <2>6 DEF PartFits, WrittenFits, KeptFits
  <2> QED
    BY <1>1, <1>2, <2>2, <2>5, <2>6, <2>7, Acting, MovesInv DEF lifecycle, queue, v
<1> QED
  BY <1>5, <1>6 DEF ProviderReturns

(* A part is done: the next one begins, or the response ends. *)
LEMMA PartDoneInv ==
  ASSUME Inv, NEW t \in Workers, PartDone(t)
  PROVE  Inv'
<1> DEFINE v == w[t]
           req == v.req
           k == v.part
           p == Parts(req)[k]
           over == PartOverhead(req)
           q == Parts(req)[k + 1]
           e == (q[1] + q[2]) % Word
<1>1. /\ v.pc = "write" /\ (v.offset >= v.end \/ svr_sock = 0)
      /\ UNCHANGED <<lifecycle, conn, script, queue, held, reply>>
  BY DEF PartDone
<1>2. PICK n \in 0..over :
        LET sent == v.written + n
            unsent == v.lost + (over - n)
        IN w' = [w EXCEPT ![t] =
             IF k < Len(req.ranges)
             THEN [Part(t, k + 1) EXCEPT !.written = sent, !.lost = unsent]
             ELSE [w[t] EXCEPT !.written = sent, !.lost = unsent, !.pc = "respond", !.success = TRUE]]
  BY DEF PartDone
<1> DEFINE x == v.written + n
           u == v.lost + (over - n)
           g == [v EXCEPT !.pc = "write", !.part = k + 1, !.offset = q[1], !.end = e,
                          !.written = x, !.lost = u]
           h == [v EXCEPT !.written = x, !.lost = u, !.pc = "respond", !.success = TRUE]
<1>9. w' = [w EXCEPT ![t] = IF k < Len(req.ranges) THEN g ELSE h]
  BY <1>2 DEF Part
<1>3. /\ v \in Threads /\ v.offset \in Int /\ v.end \in Int /\ v.written \in Int /\ req \in Requests
      /\ v.lost \in Int
      /\ PartFits(v) /\ WrittenFits(v, svr_sock) /\ k \in Nat
      /\ (t \in held => req.kind = "install")
  BY <1>1, Acting
<1>4. /\ k \in DOMAIN Parts(req) /\ p[1] \in Int /\ p[2] \in Int /\ Before(req, k) \in Int
      /\ v.end = (p[1] + p[2]) % Word /\ (v.offset = p[1] \/ v.offset = v.end)
  <2>1. /\ k \in DOMAIN Parts(req)
        /\ v.end = (p[1] + p[2]) % Word /\ (v.offset = p[1] \/ v.offset = v.end)
    BY <1>1, <1>3 DEF PartFits
  <2> QED
    BY <1>3, <2>1, Lengths
<1>5. over \in Nat /\ x \in Int /\ u \in Int /\ x + u = v.written + v.lost + over /\ HeadSize \in Int
  <2>1. over \in Nat /\ HeadSize \in Int
    BY ServerBounds DEF PartOverhead
  <2> DEFINE a == v.written
             b == v.lost
  <2>2. a \in Int /\ b \in Int
    BY <1>3
  <2> HIDE DEF over, a, b
  <2>3. n \in Int /\ a + n \in Int /\ b + (over - n) \in Int /\ (a + n) + (b + (over - n)) = a + b + over
    BY <2>1, <2>2
  <2> QED
    BY <2>1, <2>3 DEF a, b
(* What was written or lost is the head and the sum up to this part. *)
<1>6. ASSUME svr_sock # 0, Asks(req)
      PROVE  /\ k < Len(req.ranges) => x + u = HeadSize + Before(req, k + 1)
             /\ ~(k < Len(req.ranges)) => (x + u) % Word = (HeadSize + ContentLength(req)) % Word
             /\ v.declared = ContentLength(req)
  <2>1. WellAsked(req)
    BY <1>6 DEF Asks
  <2>2. /\ (p[1] + p[2]) % Word = p[1] + p[2]
        /\ k < Len(req.ranges) => Before(req, k) + p[2] + over = Before(req, k + 1)
        /\ k >= Len(req.ranges) =>
             (HeadSize + (Before(req, k) + p[2] + over)) % Word = (HeadSize + ContentLength(req)) % Word
    BY <1>3, <1>4, <2>1, PartWritten
  <2>3. p[2] \in Nat
    BY <1>3, <1>4, <2>1, PartsOf
  <2>4. /\ v.written + v.lost = HeadSize + Before(req, k) + (v.offset - p[1])
        /\ v.declared = ContentLength(req)
    BY <1>1, <1>3, <1>6 DEF WrittenFits
  <2>5. x + u = HeadSize + (Before(req, k) + p[2] + over)
    <3> DEFINE a == p[1]
               b == p[2]
               m == Before(req, k)
               o == v.offset
               z == v.end
               y == v.written
               i == v.lost
    <3>1. /\ a \in Int /\ b \in Nat /\ m \in Int /\ o \in Int /\ z = a + b /\ (o = a \/ o = z)
          /\ o >= z /\ y + i = HeadSize + m + (o - a) /\ y \in Int /\ i \in Int
      BY <1>1, <1>3, <1>4, <1>6, <2>2, <2>3, <2>4
    <3>2. x + u = y + i + over /\ x \in Int /\ u \in Int /\ over \in Nat /\ HeadSize \in Int
      BY <1>5
    <3> HIDE DEF a, b, m, o, z, v, y, i, x, u, over
    <3>3. y + i = HeadSize + m + b
      BY <3>1, <3>2
    <3>4. x + u = HeadSize + (m + b + over)
      BY <3>1, <3>2, <3>3
    <3> QED
      BY <3>4 DEF m, b
  <2>7. k >= Len(req.ranges) \/ k < Len(req.ranges)
    <3> DEFINE d == Len(req.ranges)
    <3>1. d \in Nat
      BY <1>3, PartsOf
    <3> HIDE DEF d, k
    <3>2. k >= d \/ k < d
      BY <1>3, <3>1
    <3> QED
      BY <3>2 DEF d
  <2>8. k < Len(req.ranges) => x + u = HeadSize + Before(req, k + 1)
    <3> HIDE DEF x, u, over, v
    <3> QED
      BY <2>2, <2>5
  <2>9. ~(k < Len(req.ranges)) => (x + u) % Word = (HeadSize + ContentLength(req)) % Word
    <3> HIDE DEF x, u, over, v
    <3> QED
      BY <2>2, <2>5, <2>7
  <2> QED
    BY <2>4, <2>8, <2>9
<1>7. CASE k < Len(req.ranges)
  <2>1. w' = [w EXCEPT ![t] = g]
    BY <1>7, <1>9
  <2>2. k + 1 \in DOMAIN Parts(req) /\ k + 1 \in Nat
    <3> DEFINE d == Len(req.ranges)
               l == Len(Parts(req))
    <3>1. d \in Nat /\ l = (IF req.ranges = <<>> THEN 1 ELSE d) /\ DOMAIN Parts(req) = 1..l
      <4>1. d \in Nat /\ l = IF req.ranges = <<>> THEN 1 ELSE d
        BY <1>3, PartsOf
      <4>2. Parts(req) \in Seq(Int \X Int)
        BY <1>3, PartsOf
      <4>3. DOMAIN Parts(req) = 1..l
        BY <4>2
      <4> QED
        BY <4>1, <4>3
    <3>2. req.ranges = <<>> => d = 0
      OBVIOUS
    <3>3. k < d
      BY <1>7
    <3> HIDE DEF d, l, k
    <3> QED
      BY <1>3, <3>1, <3>2, <3>3
  <2>3. q[1] \in Int /\ q[2] \in Int
    BY <1>3, <2>2, Lengths
  <2>4. e \in Int
    <3>1. q[1] + q[2] \in Int
      <4> HIDE DEF q
      <4> QED
        BY <2>3
    <3> QED
      BY <3>1, Remainder
  <2> DEFINE j == k + 1
             a == q[1]
             v1 == [v EXCEPT !.pc = "write"]
             v2 == [v1 EXCEPT !.part = j]
             v3 == [v2 EXCEPT !.offset = a]
             v4 == [v3 EXCEPT !.end = e]
             v5 == [v4 EXCEPT !.written = x]
  <2>5. v1 \in Threads /\ j \in Nat /\ a \in Int
    BY <1>3, <2>2, <2>3, Labelled, Updates
  <2> HIDE DEF x, u, e, v, a
  <2>6. v2 \in Threads
    <3> HIDE DEF v1, j
    <3> QED
      BY <2>5, Updates
  <2>7. v3 \in Threads
    <3> HIDE DEF v2
    <3> QED
      BY <2>5, <2>6, Updates
  <2>8. v4 \in Threads
    <3> HIDE DEF v3
    <3> QED
      BY <2>4, <2>7, Updates
  <2>9. g \in Threads
    <3>1. v5 \in Threads
      <4> HIDE DEF v4
      <4> QED
        BY <1>5, <2>8, Updates
    <3>2. [v5 EXCEPT !.lost = u] \in Threads
      <4> HIDE DEF v5
      <4> QED
        BY <1>5, <3>1, Updates
    <3> QED
      BY <3>2 DEF a
  <2>10. /\ g.pc = "write" /\ g.conn = v.conn /\ g.req = req /\ g.part = k + 1 /\ g.offset = q[1]
         /\ g.end = e /\ g.declared = v.declared /\ g.written = x /\ g.lost = u
    BY <1>3 DEF Threads
  <2> HIDE DEF g
  <2>11. PartFits(g)
    BY <2>2, <2>10 DEF PartFits, e
  <2>12. svr_sock # 0 /\ Asks(req) => x + u = HeadSize + Before(req, k + 1) + (q[1] - q[1])
    <3>1. svr_sock # 0 /\ Asks(req) => x + u = HeadSize + Before(req, k + 1)
      BY <1>6, <1>7
    <3>2. q[1] - q[1] = 0
      <4> HIDE DEF q
      <4> QED
        BY <2>3
    <3>3. Before(req, k + 1) \in Int
      BY <1>3, <2>2, Lengths
    <3>4. HeadSize + Before(req, k + 1) + 0 = HeadSize + Before(req, k + 1)
      BY <1>5, <3>3
    <3> QED
      BY <3>1, <3>2, <3>4
  <2>13. WrittenFits(g, svr_sock') /\ KeptFits(g, svr_sock', reply')
    BY <1>1, <1>6, <2>10, <2>12 DEF WrittenFits, KeptFits, lifecycle
  <2> QED
    BY <1>1, <1>3, <2>1, <2>9, <2>10, <2>11, <2>13, Acting, MovesInv DEF lifecycle, queue, v
<1>8. CASE ~(k < Len(req.ranges))
  <2>1. w' = [w EXCEPT ![t] = h]
    BY <1>8, <1>9
  <2> DEFINE v0 == [v EXCEPT !.written = x]
             v1 == [v0 EXCEPT !.lost = u]
             v2 == [v1 EXCEPT !.pc = "respond"]
  <2> HIDE DEF x, u, v
  <2>7. v0 \in Threads
    BY <1>3, <1>5, Updates
  <2>2. v1 \in Threads
    <3> HIDE DEF v0
    <3> QED
      BY <1>5, <2>7, Updates
  <2>3. v2 \in Threads
    <3> HIDE DEF v1
    <3> QED
      BY <2>2, Labelled, Updates
  <2>4. h \in Threads
    <3>1. [v2 EXCEPT !.success = TRUE] \in Threads
      <4> HIDE DEF v2
      <4> QED
        BY <2>3, Updates
    <3> QED
      BY <3>1
  <2>5. /\ h.pc = "respond" /\ h.conn = v.conn /\ h.req = req /\ h.declared = v.declared /\ h.written = x
        /\ h.lost = u
    BY <1>3 DEF Threads
  <2> HIDE DEF h
  <2>6. PartFits(h) /\ WrittenFits(h, svr_sock') /\ KeptFits(h, svr_sock', reply')
    BY <1>1, <1>6, <1>8, <2>5 DEF PartFits, WrittenFits, KeptFits, Complete, lifecycle
  <2> QED
    BY <1>1, <1>3, <2>1, <2>4, <2>5, <2>6, Acting, MovesInv DEF lifecycle, queue, v
<1> QED
  BY <1>7, <1>8

(* The response is given up and the connection kept, or not. *)
LEMMA RespondInv ==
  ASSUME Inv, NEW t \in Workers, Respond(t)
  PROVE  Inv'
<1> DEFINE v == w[t]
           c == v.conn
           done == ~v.ok \/ v.last
           n == IF done THEN 0 ELSE v.count - 1
           r == [declared |-> v.declared, written |-> v.written, lost |-> v.lost, req |-> v.req]
           f == [NoWorker EXCEPT !.pc = "keepalive", !.conn = c, !.count = n]
<1>1. /\ v.pc = "respond" /\ w' = [w EXCEPT ![t] = f] /\ reply' = [reply EXCEPT ![c] = r]
      /\ held' = IF Releases(t) THEN held \ {t} ELSE held
      /\ UNCHANGED <<lifecycle, conn, script, queue>>
  BY DEF Respond
<1>2. /\ v \in Threads /\ c \in Conns /\ v.count \in Int /\ v.declared \in Int /\ v.written \in Int
      /\ v.lost \in Int /\ v.req \in Requests /\ WrittenFits(v, svr_sock) /\ reply \in [Conns -> Answers]
  BY <1>1, Acting
<1>3. r \in Answers /\ r.req = v.req /\ r.written = v.written /\ r.declared = v.declared /\ r.lost = v.lost
  BY <1>2 DEF Answers
<1>4. n \in Int /\ (n > 0 => v.ok)
  <2> HIDE DEF v
  <2> QED
    BY <1>2
<1>5. f \in Threads /\ f.pc = "keepalive" /\ f.conn = c /\ f.count = n
  <2> HIDE DEF n, v
  <2>1. f \in Threads
    BY <1>2, <1>4, Beginnings, Labelled DEF Threads
  <2>2. f.pc = "keepalive" /\ f.conn = c /\ f.count = n
    BY DEF NoWorker
  <2> QED
    BY <2>1, <2>2
<1>6. reply' \in [Conns -> Answers] /\ reply'[c] = r /\ \A d \in Conns : d # c => reply'[d] = reply[d]
  <2> HIDE DEF r
  <2> QED
    BY <1>1, <1>2, <1>3
<1>7. t \notin held' /\ held' \subseteq Workers /\ held' \ {t} = held \ {t}
  BY <1>1, Acting DEF Releases
<1> HIDE DEF f, n, r, v
<1>8. KeptFits(f, svr_sock', reply')
  <2>1. v.ok /\ svr_sock # 0 => Framed(r)
    BY <1>1, <1>2, <1>3 DEF WrittenFits, Framed, Complete
  <2> QED
    BY <1>1, <1>4, <1>5, <1>6, <2>1 DEF KeptFits, lifecycle
<1>9. PartFits(f) /\ WrittenFits(f, svr_sock')
  BY <1>5 DEF PartFits, WrittenFits
<1> QED
  BY <1>1, <1>2, <1>5, <1>6, <1>7, <1>8, <1>9, Acting, MovesInv DEF lifecycle, queue, v

-----------------------------------------------------------------------------
(* What is said of the threads, when the threads and the socket stay.      *)
LEMMA SameThreads ==
  ASSUME Inv, UNCHANGED <<svr_sock, conn, jobs, w, held, reply>>
  PROVE  ConnsOK' /\ HeldOK' /\ PartOK' /\ WrittenOK' /\ RepliesOK'
<1>1. ConnsOK'
  BY DEF Inv, ConnsOK, Active
<1>2. HeldOK'
  BY DEF Inv, HeldOK, Serving
<1>3. PartOK' /\ WrittenOK'
  BY DEF Inv, PartOK, WrittenOK
<1>4. RepliesOK'
  BY DEF Inv, RepliesOK
<1> QED
  BY <1>1, <1>2, <1>3, <1>4

(* And when there are no threads. *)
LEMMA NoThreads ==
  ASSUME Inv, ~Listening, UNCHANGED <<conn, jobs, held, reply>>,
         \A t \in Workers : w'[t].pc \in {"none", "wait"}
  PROVE  ConnsOK' /\ HeldOK' /\ PartOK' /\ WrittenOK' /\ RepliesOK'
<1>1. jobs = <<>> /\ \A t \in Workers : w[t].pc = "none" /\ ~Active(t) /\ ~Active(t)'
  BY DEF Inv, QueueOK, Active
<1>2. ConnsOK'
  <2>1. \A c \in Conns : conn[c] # "queued" /\ conn[c] # "served"
    BY <1>1 DEF Inv, ConnsOK
  <2>2. DOMAIN jobs' = {}
    BY <1>1
  <2> QED
    BY <1>1, <2>1, <2>2 DEF ConnsOK
<1>3. HeldOK'
  <2>1. held = {}
    BY <1>1 DEF Inv, Types, HeldOK, Serving
  <2> QED
    BY <2>1 DEF HeldOK
<1>4. PartOK' /\ WrittenOK'
  BY DEF PartOK, WrittenOK, PartFits, WrittenFits
<1>5. RepliesOK'
  BY DEF Inv, RepliesOK, KeptFits
<1> QED
  BY <1>2, <1>3, <1>4, <1>5

LEMMA StartLoopInv == Inv /\ StartLoop => Inv'
<1> SUFFICES ASSUME Inv, StartLoop PROVE Inv'
  OBVIOUS
<1>1. Types'
  BY DEF Inv, Types, StartLoop, queue
<1>2. QueueOK'
  BY DEF Inv, QueueOK, StartLoop, Listening, queue
<1> QED
  BY <1>1, <1>2, SameThreads DEF Inv, StartLoop, queue

LEMMA ListenInv == Inv /\ Listen => Inv'
<1> SUFFICES ASSUME Inv, Listen PROVE Inv'
  OBVIOUS
<1>1. main = "bind" /\ ~Listening /\ open = {} /\ jobs = <<>> /\ jobs' = jobs
  BY DEF Inv, QueueOK, Listen, Listening
<1>2. CASE main' = "accept"
  <2>1. /\ gen' = gen + 1 /\ svr_sock' = gen + 1 /\ open' = {gen + 1} /\ ~shutdown'
        /\ w' = [t \in Workers |-> [NoWorker EXCEPT !.pc = "wait"]]
    BY <1>1, <1>2 DEF Listen, CreateSocket
  <2>2. w' \in [Workers -> Threads] /\ \A t \in Workers : w'[t].pc = "wait"
    BY <2>1, Beginnings DEF NoWorker
  <2>3. Types'
    <3>1. gen' \in Nat /\ svr_sock' \in Nat /\ shutdown' \in BOOLEAN
      <4>1. gen \in Nat
        BY DEF Inv, Types
      <4>2. shutdown' = FALSE
        BY <1>2 DEF Listen
      <4>3. gen' \in Nat /\ svr_sock' \in Nat
        BY <2>1, <4>1
      <4>4. shutdown' \in BOOLEAN
        BY <4>2
      <4> QED
        BY <4>3, <4>4
    <3> QED
      BY <1>2, <2>2, <3>1 DEF Inv, Types, Listen
  <2>4. QueueOK'
    <3>1. gen + 1 # 0
      BY DEF Inv, Types
    <3> QED
      BY <1>2, <2>1, <2>2, <3>1 DEF QueueOK, Listening
  <2> QED
    BY <1>1, <2>2, <2>3, <2>4, NoThreads DEF Inv, Listen
<1>3. CASE main' = "after"
  <2>1. svr_sock' = 0 /\ UNCHANGED <<gen, open, shutdown, w>>
    BY <1>3 DEF Listen
  <2>2. Types'
    BY <1>3, <2>1 DEF Inv, Types, Listen
  <2>3. QueueOK'
    BY <1>1, <1>3, <2>1 DEF Inv, QueueOK, Listening
  <2>4. \A t \in Workers : w'[t].pc \in {"none", "wait"}
    BY <1>1, <2>1 DEF Inv, QueueOK
  <2> QED
    BY <1>1, <2>2, <2>3, <2>4, NoThreads DEF Inv, Listen
<1> QED
  BY <1>2, <1>3 DEF Listen

(* A connection is accepted and queued. *)
LEMMA AcceptInv ==
  ASSUME Inv, NEW c \in Conns, Accept(c)
  PROVE  Inv'
<1>1. /\ main = "accept" /\ conn[c] = "new" /\ conn' = [conn EXCEPT ![c] = "queued"]
      /\ jobs' = Append(jobs, c) /\ UNCHANGED <<lifecycle, script, shutdown, w, held, reply>>
  BY DEF Accept, Enqueue
<1>2. jobs \in Seq(Conns) /\ conn \in [Conns -> {"new", "queued", "served", "closed"}]
  BY DEF Inv, Types
<1>3. Types'
  BY <1>1, <1>2 DEF Inv, Types, lifecycle
<1>4. QueueOK'
  <2>1. ~shutdown /\ \A t \in Workers : w[t].pc # "none"
    BY <1>1 DEF Inv, QueueOK, Listening
  <2> QED
    BY <1>1, <2>1 DEF Inv, QueueOK, Listening, lifecycle
<1>5. ConnsOK'
  <2> DEFINE k == Len(jobs)
  <2>1. /\ k \in Nat /\ DOMAIN jobs = 1..k /\ DOMAIN jobs' = 1..(k + 1) /\ jobs'[k + 1] = c
        /\ \A n \in 1..k : jobs'[n] = jobs[n] /\ jobs[n] \in Conns
    BY <1>1, <1>2
  <2>2. \A n \in 1..(k + 1) : n = k + 1 \/ n \in 1..k
    BY <2>1
  <2>3. \A n \in 1..k : n \in 1..(k + 1) /\ jobs[n] # c /\ conn[jobs[n]] = "queued"
    <3>1. \A n \in 1..k : conn[jobs[n]] = "queued"
      BY <2>1 DEF Inv, ConnsOK
    <3>2. \A n \in 1..k : n \in 1..(k + 1)
      BY <2>1
    <3> QED
      BY <1>1, <3>1, <3>2
  <2>4. k + 1 \in 1..(k + 1)
    BY <2>1
  <2> HIDE DEF k
  <2>5. ASSUME NEW d \in Conns, conn'[d] = "queued" PROVE \E n \in DOMAIN jobs' : jobs'[n] = d
    <3>1. CASE d = c
      BY <2>1, <2>4, <3>1
    <3>2. CASE d # c
      <4>1. conn[d] = "queued"
        BY <1>1, <1>2, <2>5, <3>2
      <4>2. PICK n \in 1..k : jobs[n] = d
        BY <2>1, <4>1 DEF Inv, ConnsOK
      <4> QED
        BY <2>1, <2>3, <4>2
    <3> QED
      BY <3>1, <3>2
  <2>6. \A n \in DOMAIN jobs' : conn'[jobs'[n]] = "queued"
    BY <1>1, <1>2, <2>1, <2>2, <2>3
  <2>7. \A m, n \in DOMAIN jobs' : m # n => jobs'[m] # jobs'[n]
    <3>1. \A m, n \in 1..k : m # n => jobs[m] # jobs[n]
      BY <2>1 DEF Inv, ConnsOK
    <3> QED
      BY <2>1, <2>2, <2>3, <3>1
  <2>8. \A d \in Conns : conn'[d] = "served" => conn[d] = "served"
    BY <1>1, <1>2
  <2>9. \A d \in Conns : conn[d] = "served" => conn'[d] = "served"
    BY <1>1, <1>2
  <2>10. \A t \in Workers : Active(t)' <=> Active(t)
    BY <1>1 DEF Active
  <2>11. \A d \in Conns : conn'[d] = "served" => \E t \in Workers : Active(t)' /\ w'[t].conn = d
    BY <1>1, <2>8, <2>10 DEF Inv, ConnsOK
  <2>12. \A t \in Workers : Active(t)' => w'[t].conn \in Conns /\ conn'[w'[t].conn] = "served"
    BY <1>1, <2>9, <2>10 DEF Inv, ConnsOK
  <2>13. \A t, u \in Workers : t # u /\ Active(t)' /\ Active(u)' => w'[t].conn # w'[u].conn
    BY <1>1, <2>10 DEF Inv, ConnsOK
  <2> QED
    BY <2>5, <2>6, <2>7, <2>11, <2>12, <2>13 DEF ConnsOK
<1>6. HeldOK' /\ PartOK' /\ WrittenOK'
  BY <1>1 DEF Inv, HeldOK, PartOK, WrittenOK, Serving, lifecycle
<1>7. RepliesOK'
  <2>1. \A d \in Conns : conn'[d] \in {"new", "queued"} => conn[d] \in {"new", "queued"}
    BY <1>1, <1>2
  <2> QED
    BY <1>1, <2>1 DEF Inv, RepliesOK, lifecycle
<1> QED
  BY <1>3, <1>4, <1>5, <1>6, <1>7 DEF Inv

LEMMA AcceptFailsInv == Inv /\ AcceptFails => Inv'
<1> SUFFICES ASSUME Inv, AcceptFails PROVE Inv'
  OBVIOUS
<1>1. Types'
  BY DEF Inv, Types, AcceptFails
<1>2. QueueOK'
  <2>1. open' = {}
    BY DEF Inv, QueueOK, AcceptFails, Close
  <2>2. \A t \in Workers : w[t].pc # "none"
    BY DEF Inv, QueueOK, AcceptFails, Listening
  <2> QED
    BY <2>1, <2>2 DEF QueueOK, AcceptFails, Listening
<1> QED
  BY <1>1, <1>2, SameThreads DEF Inv, AcceptFails

(* The threads have ended: the queue is empty, as there is one at least.   *)
LEMMA JoinInv == Inv /\ Join => Inv'
<1> SUFFICES ASSUME Inv, Join PROVE Inv'
  OBVIOUS
<1>1. Types'
  BY DEF Inv, Types, Join, queue
<1>2. QueueOK'
  <2>1. jobs = <<>>
    BY ServerBounds DEF Inv, QueueOK, Join, Listening
  <2> QED
    BY <2>1 DEF Inv, QueueOK, Join, Listening, queue
<1> QED
  BY <1>1, <1>2, SameThreads DEF Inv, Join, queue

LEMMA AfterListenInv == Inv /\ AfterListen => Inv'
<1> SUFFICES ASSUME Inv, AfterListen PROVE Inv'
  OBVIOUS
<1>1. main = "after" /\ main' = "head" /\ ~Listening /\ open = {}
      /\ UNCHANGED <<gen, open, conn, script, jobs, shutdown, w, held, reply>>
  BY DEF Inv, QueueOK, AfterListen, Listening, queue
<1>2. Types'
  <2>1. svr_sock' \in Nat
    BY DEF Inv, Types, AfterListen
  <2> QED
    BY <1>1, <2>1 DEF Inv, Types
<1>3. QueueOK'
  BY <1>1 DEF Inv, QueueOK, Listening
<1>4. \A t \in Workers : w'[t].pc \in {"none", "wait"}
  BY <1>1 DEF Inv, QueueOK
<1> QED
  BY <1>1, <1>2, <1>3, <1>4, NoThreads DEF Inv

(* Steps that change nothing of what the invariant speaks of. *)
LEMMA UnchangedInv ==
  ASSUME Inv, UNCHANGED <<main, gen, svr_sock, open, conn, script, queue, w, held, reply>>
  PROVE  Inv'
<1>1. Types'
  BY DEF Inv, Types, queue
<1>2. QueueOK'
  BY DEF Inv, QueueOK, Listening, queue
<1> QED
  BY <1>1, <1>2, SameThreads DEF Inv, queue

(* A worker takes the first job. *)
LEMMA TakesInv ==
  ASSUME Inv, NEW t \in Workers, w[t].pc = "wait", jobs # <<>>,
         w' = [w EXCEPT ![t] = [NoWorker EXCEPT !.pc = "keepalive", !.conn = Head(jobs),
                                                !.count = KeepAliveMax]],
         conn' = [conn EXCEPT ![Head(jobs)] = "served"], jobs' = Tail(jobs),
         UNCHANGED <<lifecycle, script, shutdown, held, reply>>
  PROVE  Inv'
<1> DEFINE c == Head(jobs)
           f == [NoWorker EXCEPT !.pc = "keepalive", !.conn = c, !.count = KeepAliveMax]
           k == Len(jobs)
<1>1. /\ jobs \in Seq(Conns) /\ conn \in [Conns -> {"new", "queued", "served", "closed"}]
      /\ w \in [Workers -> Threads] /\ held \subseteq Workers
  BY DEF Inv, Types
<1>2. /\ k \in Nat \ {0} /\ DOMAIN jobs = 1..k /\ c = jobs[1] /\ c \in Conns
      /\ jobs' \in Seq(Conns) /\ DOMAIN jobs' = 1..(k - 1)
      /\ \A n \in 1..(k - 1) : jobs'[n] = jobs[n + 1]
  <2>1. k \in Nat \ {0} /\ DOMAIN jobs = 1..k /\ c = jobs[1] /\ c \in Conns
    BY <1>1
  <2>2. jobs' \in Seq(Conns) /\ Len(jobs') = k - 1 /\ \A n \in 1..(k - 1) : jobs'[n] = jobs[n + 1]
    BY <1>1
  <2> QED
    BY <2>1, <2>2
<1>3. f \in Threads /\ f.pc = "keepalive" /\ f.conn = c
  <2>1. KeepAliveMax \in Int /\ c \in Conns \cup {Nobody}
    BY <1>2, ServerBounds
  <2> HIDE DEF c
  <2>2. f \in Threads
    BY <2>1, Beginnings, Labelled DEF Threads
  <2>3. f.pc = "keepalive" /\ f.conn = c
    BY DEF NoWorker
  <2> QED
    BY <2>2, <2>3
<1> HIDE DEF f, c, k
<1>4. w' = [w EXCEPT ![t] = f] /\ conn' = [conn EXCEPT ![c] = "served"]
  BY DEF f, c
<1>5. /\ w' \in [Workers -> Threads] /\ w'[t] = f /\ \A u \in Workers : u # t => w'[u] = w[u]
      /\ conn' \in [Conns -> {"new", "queued", "served", "closed"}] /\ conn'[c] = "served"
      /\ \A d \in Conns : d # c => conn'[d] = conn[d]
  BY <1>1, <1>2, <1>3, <1>4
<1>6. \A u \in Workers : Active(u)' <=> (Active(u) \/ u = t)
  BY <1>3, <1>5 DEF Active
<1>7. ~Active(t) /\ t \notin held
  BY DEF Active, Inv, HeldOK, Serving
<1>8. 1 \in 1..k /\ \A n \in 1..(k - 1) : n + 1 \in 1..k /\ n + 1 # 1
  BY <1>2
<1>9. conn[c] = "queued"
  BY <1>2, <1>8 DEF Inv, ConnsOK
<1>10. Types'
  BY <1>2, <1>5 DEF Inv, Types, lifecycle
<1>11. QueueOK'
  <2>1. Listening
    BY DEF Inv, QueueOK
  <2>2. \A u \in Workers : w'[u].pc = "none" => w[u].pc = "none"
    BY <1>3, <1>5
  <2>3. \A u \in Workers : w[u].pc # "none"
    BY <2>1 DEF Inv, QueueOK
  <2> QED
    BY <2>1, <2>2, <2>3 DEF Inv, QueueOK, Listening, lifecycle
<1>12. ConnsOK'
  <2>1. ASSUME NEW d \in Conns, conn'[d] = "queued" PROVE \E n \in DOMAIN jobs' : jobs'[n] = d
    <3>1. d # c /\ conn[d] = "queued"
      BY <1>5, <2>1
    <3>2. PICK n \in 1..k : jobs[n] = d
      BY <1>2, <3>1 DEF Inv, ConnsOK
    <3>3. n - 1 \in 1..(k - 1) /\ (n - 1) + 1 = n
      BY <1>2, <3>1, <3>2
    <3> QED
      BY <1>2, <3>2, <3>3
  <2>2. ASSUME NEW n \in 1..(k - 1) PROVE jobs'[n] \in Conns /\ jobs'[n] # c /\ conn[jobs'[n]] = "queued"
    <3>1. jobs'[n] = jobs[n + 1] /\ n + 1 \in DOMAIN jobs /\ 1 \in DOMAIN jobs /\ n + 1 # 1
      BY <1>2, <1>8
    <3>2. jobs[n + 1] \in Conns
      BY <1>1, <3>1
    <3> QED
      BY <1>2, <3>1, <3>2 DEF Inv, ConnsOK
  <2>3. \A n \in DOMAIN jobs' : conn'[jobs'[n]] = "queued"
    BY <1>2, <1>5, <2>2
  <2>4. ASSUME NEW m \in DOMAIN jobs', NEW n \in DOMAIN jobs', m # n PROVE jobs'[m] # jobs'[n]
    <3>1. /\ jobs'[m] = jobs[m + 1] /\ jobs'[n] = jobs[n + 1]
          /\ m + 1 \in DOMAIN jobs /\ n + 1 \in DOMAIN jobs
      BY <1>2, <1>8
    <3>2. m + 1 # n + 1
      BY <1>2, <2>4
    <3> QED
      BY <3>1, <3>2 DEF Inv, ConnsOK
  <2>5. ASSUME NEW d \in Conns, conn'[d] = "served" PROVE \E u \in Workers : Active(u)' /\ w'[u].conn = d
    <3>1. CASE d = c
      BY <1>3, <1>5, <1>6, <3>1
    <3>2. CASE d # c
      <4>1. PICK u \in Workers : Active(u) /\ w[u].conn = d
        BY <1>5, <2>5, <3>2 DEF Inv, ConnsOK
      <4> QED
        BY <1>5, <1>6, <1>7, <4>1
    <3> QED
      BY <3>1, <3>2
  <2>6. ASSUME NEW u \in Workers, Active(u), u # t
        PROVE  w'[u].conn \in Conns /\ w'[u].conn # c /\ conn'[w'[u].conn] = "served"
    <3>1. w[u].conn \in Conns /\ conn[w[u].conn] = "served"
      BY <2>6 DEF Inv, ConnsOK
    <3> QED
      BY <1>5, <1>9, <2>6, <3>1
  <2>7. \A u \in Workers : Active(u)' => w'[u].conn \in Conns /\ conn'[w'[u].conn] = "served"
    BY <1>2, <1>3, <1>5, <1>6, <1>7, <2>6
  <2>8. ASSUME NEW u \in Workers, NEW x \in Workers, u # x, Active(u)', Active(x)'
        PROVE  w'[u].conn # w'[x].conn
    <3>1. CASE u = t
      <4>1. w'[u].conn = c /\ Active(x) /\ x # t
        BY <1>3, <1>5, <1>6, <2>8, <3>1
      <4> QED
        BY <2>6, <4>1
    <3>2. CASE x = t
      <4>1. w'[x].conn = c /\ Active(u) /\ u # t
        BY <1>3, <1>5, <1>6, <2>8, <3>2
      <4> QED
        BY <2>6, <4>1
    <3>3. CASE u # t /\ x # t
      BY <1>5, <1>6, <2>8, <3>3 DEF Inv, ConnsOK
    <3> QED
      BY <3>1, <3>2, <3>3
  <2> QED
    BY <2>1, <2>3, <2>4, <2>5, <2>7, <2>8 DEF ConnsOK
<1>13. HeldOK'
  BY <1>1, <1>5, <1>7 DEF Inv, HeldOK, Serving
<1>14. PartOK' /\ WrittenOK'
  <2>1. PartFits(f) /\ WrittenFits(f, svr_sock)
    BY <1>3 DEF PartFits, WrittenFits
  <2> QED
    BY <1>5, <2>1 DEF Inv, PartOK, WrittenOK, lifecycle
<1>15. RepliesOK'
  <2>1. Framed(reply[c])
    BY <1>2, <1>9 DEF Inv, RepliesOK
  <2>2. KeptFits(f, svr_sock, reply)
    BY <1>3, <2>1 DEF KeptFits
  <2>3. \A u \in Workers : KeptFits(w'[u], svr_sock, reply)
    BY <1>5, <2>2 DEF Inv, RepliesOK
  <2>4. \A d \in Conns : conn'[d] \in {"new", "queued"} => Framed(reply[d])
    BY <1>5 DEF Inv, RepliesOK
  <2> QED
    BY <2>3, <2>4 DEF RepliesOK, lifecycle
<1> QED
  BY <1>10, <1>11, <1>12, <1>13, <1>14, <1>15 DEF Inv

(* A worker becomes idle: it ends, or has closed its connection.           *)
LEMMA IdleInv ==
  ASSUME Inv, NEW t \in Workers, NEW f \in Threads, f.pc \in {"none", "wait"},
         w' = [w EXCEPT ![t] = f], t \notin held,
         f.pc = "none" => Listening /\ shutdown /\ jobs = <<>>,
         f.pc = "wait" => Listening,
         UNCHANGED <<lifecycle, script, queue, held>>,
         \/ ~Active(t) /\ UNCHANGED <<conn, reply>>
         \/ /\ Active(t) /\ conn' = [conn EXCEPT ![w[t].conn] = "closed"]
            /\ reply' = [reply EXCEPT ![w[t].conn] = NoReply]
  PROVE  Inv'
<1> DEFINE c == w[t].conn
<1>1. /\ conn \in [Conns -> {"new", "queued", "served", "closed"}] /\ reply \in [Conns -> Answers]
      /\ w \in [Workers -> Threads] /\ held \subseteq Workers
  BY DEF Inv, Types
<1>2. w' \in [Workers -> Threads] /\ w'[t] = f /\ \A u \in Workers : u # t => w'[u] = w[u]
  BY <1>1
<1>3. \A u \in Workers : Active(u)' <=> (Active(u) /\ u # t)
  BY <1>2 DEF Active
<1>4. Active(t) => c \in Conns /\ conn[c] = "served"
  BY DEF Inv, ConnsOK
<1>5. conn' \in [Conns -> {"new", "queued", "served", "closed"}] /\ reply' \in [Conns -> Answers]
  BY <1>1, Beginnings
<1>6. ASSUME NEW d \in Conns
      PROVE  /\ ~(Active(t) /\ d = c) => conn'[d] = conn[d] /\ reply'[d] = reply[d]
             /\ Active(t) /\ d = c => conn'[d] = "closed"
  BY <1>1
<1>7. Types'
  BY <1>2, <1>5 DEF Inv, Types, lifecycle, queue
<1>8. QueueOK'
  <2>1. Listening' /\ Listening
    BY DEF Listening, lifecycle
  <2>2. \A u \in Workers : w'[u].pc = "none" => shutdown /\ jobs = <<>>
    BY <1>2, <2>1 DEF Inv, QueueOK
  <2> QED
    BY <2>1, <2>2 DEF Inv, QueueOK, Listening, lifecycle, queue
<1>9. ConnsOK'
  <2>1. \A d \in Conns : conn[d] = "queued" <=> conn'[d] = "queued"
    BY <1>4, <1>6
  <2>2. \A n \in DOMAIN jobs : jobs[n] \in Conns
    BY DEF Inv, Types
  <2>3. ASSUME NEW d \in Conns, conn'[d] = "served" PROVE \E u \in Workers : Active(u)' /\ w'[u].conn = d
    <3>1. conn[d] = "served" /\ ~(Active(t) /\ d = c)
      BY <1>6, <2>3
    <3>2. PICK u \in Workers : Active(u) /\ w[u].conn = d
      BY <3>1 DEF Inv, ConnsOK
    <3> QED
      BY <1>2, <1>3, <3>1, <3>2
  <2>4. ASSUME NEW u \in Workers, Active(u)' PROVE w'[u].conn \in Conns /\ conn'[w'[u].conn] = "served"
    <3>1. Active(u) /\ u # t /\ w'[u] = w[u] /\ w[u].conn \in Conns /\ conn[w[u].conn] = "served"
      BY <1>2, <1>3, <2>4 DEF Inv, ConnsOK
    <3>2. Active(t) => w[u].conn # c
      BY <3>1 DEF Inv, ConnsOK
    <3> QED
      BY <1>6, <3>1, <3>2
  <2>5. \A u, x \in Workers : u # x /\ Active(u)' /\ Active(x)' => w'[u].conn # w'[x].conn
    BY <1>2, <1>3 DEF Inv, ConnsOK
  <2> QED
    BY <2>1, <2>2, <2>3, <2>4, <2>5 DEF Inv, ConnsOK, queue
<1>10. HeldOK'
  BY <1>1, <1>2 DEF Inv, HeldOK, Serving
<1>11. PartOK' /\ WrittenOK'
  <2>1. PartFits(f) /\ WrittenFits(f, svr_sock)
    BY DEF PartFits, WrittenFits
  <2> QED
    BY <1>2, <2>1 DEF Inv, PartOK, WrittenOK, lifecycle
<1>12. RepliesOK'
  <2>1. ASSUME NEW u \in Workers PROVE KeptFits(w'[u], svr_sock', reply')
    <3>1. CASE u = t
      BY <1>2, <3>1 DEF KeptFits
    <3>2. CASE u # t
      <4>1. KeptFits(w[u], svr_sock, reply) /\ w'[u] = w[u] /\ svr_sock' = svr_sock
        BY <1>2, <3>2 DEF Inv, RepliesOK, lifecycle
      <4>2. Active(u) => w[u].conn \in Conns /\ ~(Active(t) /\ w[u].conn = c)
        BY <3>2 DEF Inv, ConnsOK
      <4>3. Active(u) => reply'[w[u].conn] = reply[w[u].conn]
        BY <1>6, <4>2
      <4> QED
        BY <4>1, <4>3 DEF KeptFits, Active
    <3> QED
      BY <3>1, <3>2
  <2>2. \A d \in Conns : conn'[d] \in {"new", "queued"} => Framed(reply'[d])
    BY <1>6 DEF Inv, RepliesOK
  <2> QED
    BY <2>1, <2>2 DEF RepliesOK
<1> QED
  BY <1>7, <1>8, <1>9, <1>10, <1>11, <1>12 DEF Inv

LEMMA TakeJobInv ==
  ASSUME Inv, NEW t \in Workers, TakeJob(t)
  PROVE  Inv'
<1>1. w[t].pc = "wait" /\ UNCHANGED <<lifecycle, script, shutdown, held, reply>>
  BY DEF TakeJob
<1>2. ASSUME jobs # <<>>,
             w' = [w EXCEPT ![t] = [NoWorker EXCEPT !.pc = "keepalive", !.conn = Head(jobs),
                                                    !.count = KeepAliveMax]],
             conn' = [conn EXCEPT ![Head(jobs)] = "served"], jobs' = Tail(jobs)
      PROVE  Inv'
  BY <1>1, <1>2, TakesInv
<1>3. ASSUME shutdown, jobs = <<>>, w' = [w EXCEPT ![t] = NoWorker], UNCHANGED <<conn, jobs>>
      PROVE  Inv'
  <2>1. ~Active(t) /\ t \notin held /\ NoWorker.pc = "none" /\ NoWorker \in Threads
    BY <1>1, Beginnings DEF Inv, HeldOK, Serving, Active, NoWorker
  <2>2. Listening
    BY <1>1 DEF Inv, QueueOK
  <2>3. UNCHANGED <<lifecycle, script, queue, held, conn, reply>>
    BY <1>1, <1>3 DEF queue
  <2> QED
    BY <1>3, <2>1, <2>2, <2>3, IdleInv
<1> QED
  BY <1>2, <1>3 DEF TakeJob

LEMMA CloseConnectionInv ==
  ASSUME Inv, NEW t \in Workers, CloseConnection(t)
  PROVE  Inv'
<1> DEFINE f == [NoWorker EXCEPT !.pc = "wait"]
<1>1. w[t].pc = "keepalive" /\ Active(t) /\ f \in Threads /\ f.pc = "wait"
  BY Beginnings DEF CloseConnection, Active, NoWorker
<1>2. t \notin held /\ Listening
  BY <1>1 DEF Inv, HeldOK, Serving, QueueOK
<1>3. w' = [w EXCEPT ![t] = f]
  BY DEF CloseConnection
<1> HIDE DEF f
<1> QED
  BY <1>1, <1>2, <1>3, IdleInv DEF CloseConnection

(* Every step keeps the invariant. *)
LEMMA StepInv == Inv /\ [Next]_vars => Inv'
<1> SUFFICES ASSUME Inv, [Next]_vars PROVE Inv'
  OBVIOUS
<1>1. CASE Main
  BY <1>1, StartLoopInv, ListenInv, AcceptFailsInv, JoinInv, AfterListenInv DEF Main
<1>2. CASE SetRestMode
  BY <1>2, UnchangedInv DEF SetRestMode
<1>3. ASSUME NEW c \in Conns, Accept(c) PROVE Inv'
  BY <1>3, AcceptInv
<1>4. ASSUME NEW t \in Workers, Worker(t) PROVE Inv'
  <2>1. CASE TakeJob(t)
    BY <2>1, TakeJobInv
  <2>2. CASE NextRequest(t)
    BY <2>2, NextRequestInv
  <2>3. CASE CloseConnection(t)
    BY <2>3, CloseConnectionInv
  <2>4. CASE Refuse(t)
    BY <2>4, RefuseInv
  <2>5. CASE Routing(t)
    BY <2>5, ServesInv, DispatchRequestInv, StopHandlerInv, StartClientInv DEF Routing
  <2>6. CASE PollClient(t)
    BY <2>6, PollClientInv
  <2>7. CASE PartDone(t)
    BY <2>7, PartDoneInv
  <2>8. CASE CallProvider(t)
    BY <2>8, CallProviderInv
  <2>9. CASE Respond(t)
    BY <2>9, RespondInv
  <2>10. CASE CloseListener(t)
    BY <2>10, CloseListenerInv
  <2> QED
    BY <1>4, <2>1, <2>2, <2>3, <2>4, <2>5, <2>6, <2>7, <2>8, <2>9, <2>10 DEF Worker
<1>5. ASSUME NEW t \in Workers, ProviderReturns(t) PROVE Inv'
  BY <1>5, ProviderReturnsInv
<1>6. CASE UNCHANGED vars
  BY <1>6, UnchangedInv DEF vars, queue
<1>7. ASSUME NEW t \in Workers, MapFault(t) PROVE Inv'
  BY <1>7, DiesInv DEF MapFault
<1> QED
  BY <1>1, <1>2, <1>3, <1>4, <1>5, <1>6, <1>7 DEF Next

-----------------------------------------------------------------------------
(***************************************************************************)
(* The inductive invariant of the server: the queue, its threads and their *)
(* connections belong together, each part is written from its offset to    *)
(* its end, and what was written, with what was lost unnoticed, adds up to *)
(* what was declared.                                                      *)
(***************************************************************************)
THEOREM HttpServerInv == Spec => []Inv
<1>1. Init => Inv
  BY InitInv
<1>2. Inv /\ [Next]_vars => Inv'
  BY StepInv
<1> QED
  BY <1>1, <1>2, PTL DEF Spec

(***************************************************************************)
(* The client of /bg_install is held only while its response is written:   *)
(* however the request ends, destroying the Response gives it back         *)
(* (httplib.h:619-623, http_server.cpp:564-579).                           *)
(***************************************************************************)
THEOREM HttpClientNotStranded == Spec => []ClientNotStranded
<1>1. Inv => ClientNotStranded
  BY DEF Inv, HeldOK, ClientNotStranded
<1> QED
  BY <1>1, HttpServerInv, PTL

(***************************************************************************)
(* When listen has returned, its threads have ended, its connections are   *)
(* closed, no client is held and no listening socket open, so that Start   *)
(* may delete the server object (httplib.h:689-726, http_server.cpp:998).  *)
(***************************************************************************)
THEOREM HttpListenLeavesNothing == Spec => []ListenLeavesNothing
<1>1. Inv => ListenLeavesNothing
  <2> SUFFICES ASSUME Inv, main \in {"head", "bind", "after", "done"}
               PROVE  /\ \A t \in Workers : w[t].pc = "none"
                      /\ \A c \in Conns : conn[c] \in {"new", "closed"}
                      /\ held = {} /\ open = {}
    BY DEF ListenLeavesNothing
  <2>1. jobs = <<>> /\ open = {} /\ \A t \in Workers : w[t].pc = "none" /\ ~Active(t)
    BY DEF Inv, QueueOK, Listening, Active
  <2>2. \A c \in Conns : conn[c] # "queued" /\ conn[c] # "served"
    BY <2>1 DEF Inv, ConnsOK
  <2>3. \A c \in Conns : conn[c] \in {"new", "closed"}
    BY <2>2 DEF Inv, Types
  <2>4. held = {}
    BY <2>1 DEF Inv, Types, HeldOK, Serving
  <2> QED
    BY <2>1, <2>3, <2>4
<1> QED
  BY <1>1, HttpServerInv, PTL

(***************************************************************************)
(* The content provider is asked for the bytes of the range, whatever the  *)
(* size of the package and the range, with unsigned arithmetic             *)
(* (get_range_offset_and_length, write_content).                           *)
(***************************************************************************)
THEOREM HttpAsksForTheRange == Spec => []AsksForTheRange
<1>1. Inv => AsksForTheRange
  <2> SUFFICES ASSUME Inv, NEW t \in Workers, w[t].pc = "provide", WellAsked(w[t].req)
               PROVE  w[t].offset..(w[t].end - 1) =
                        IF w[t].req.ranges = <<>> THEN 0..(Size - 1)
                        ELSE Bytes(w[t].req.ranges[w[t].part])
    BY DEF AsksForTheRange
  <2> DEFINE req == w[t].req
             n == w[t].part
             p == Parts(req)[n]
  <2>1. req \in Requests /\ PartFits(w[t])
    BY Acting
  <2>2. n \in DOMAIN Parts(req) /\ w[t].end = (p[1] + p[2]) % Word /\ w[t].offset = p[1]
    BY <2>1 DEF PartFits
  <2>3. (p[1] + p[2]) % Word = p[1] + p[2]
    BY <2>1, <2>2, PartWritten
  <2>4. p[1]..(p[1] + p[2] - 1) = IF req.ranges = <<>> THEN 0..(Size - 1) ELSE Bytes(req.ranges[n])
    BY <2>1, <2>2, PartsOf
  <2>5. w[t].offset = p[1] /\ w[t].end = p[1] + p[2] /\ p[1] \in Int /\ p[2] \in Int
    BY <2>1, <2>2, <2>3, Lengths
  <2> DEFINE a == p[1]
             b == p[2]
             o == w[t].offset
             e == w[t].end
  <2>6. o = a /\ e = a + b /\ a \in Int /\ b \in Int
    BY <2>5
  <2> HIDE DEF a, b, o, e
  <2>7. o..(e - 1) = a..(a + b - 1)
    <3>1. e - 1 = a + b - 1
      BY <2>6
    <3> QED
      BY <2>6, <3>1
  <2> QED
    BY <2>4, <2>7 DEF a, b, o, e
<1> QED
  BY <1>1, HttpServerInv, PTL

(***************************************************************************)
(* A response after which the connection is kept has the length it         *)
(* declared, for any number of ranges, also when a stop comes in between:  *)
(* only what the unchecked writes of its head and of the boundaries lost   *)
(* may be missing (apply_ranges, write_content_with_provider,              *)
(* write_multipart_ranges_data, process_server_socket).                    *)
(***************************************************************************)
THEOREM HttpKeptAliveIsFramed == Spec => []KeptAliveIsFramed
<1>1. Inv => KeptAliveIsFramed
  BY DEF Inv, RepliesOK, KeptFits, KeptAliveIsFramed, Framed, Asks, Complete
<1> QED
  BY <1>1, HttpServerInv, PTL
=============================================================================
