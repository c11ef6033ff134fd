---------------------------- MODULE FormatsProofs ----------------------------
(***************************************************************************)
(* Proofs about Formats: the reader of chunked bodies, for any number of   *)
(* chunks with any bytes in them, delivered in any pieces and cut off      *)
(* anywhere, and the parser of multipart bodies, for any number of parts   *)
(* with any contents, delivered in any pieces.                             *)
(***************************************************************************)
EXTENDS Formats, WellFoundedInduction, TLAPS

(* A non-empty set of naturals has a least element.                        *)
LEMMA LeastNatural ==
  ASSUME NEW S \in SUBSET Nat, S # {}
  PROVE  \E x \in S : \A y \in S : x <= y
<1> DEFINE less == {p \in Nat \X Nat : p[1] < p[2]}
<1>1. IsWellFoundedOn(less, Nat)
  BY NatLessThanWellFounded DEF OpToRel
<1>2. PICK x \in S : \A y \in S : <<y, x>> \notin less
  <2> HIDE DEF less
  <2> QED
    BY <1>1, WFMin
<1>3. ASSUME NEW y \in S PROVE x <= y
  <2>1. ~(y < x)
    BY <1>2
  <2> QED
    BY <2>1
<1> QED
  BY <1>3

(* Induction up to a bound, for a set instead of a predicate.              *)
LEMMA InductionTo ==
  ASSUME NEW bound \in Nat, NEW S, 0 \in S,
         \A n \in 0..(bound - 1) : n \in S => n + 1 \in S
  PROVE  \A n \in 0..bound : n \in S
<1> SUFFICES ASSUME NEW n \in 0..bound, n \notin S PROVE FALSE
  OBVIOUS
<1> DEFINE R == (0..bound) \ S
<1>1. PICK x \in R : \A y \in R : x <= y
  <2>1. R \in SUBSET Nat /\ R # {}
    OBVIOUS
  <2> HIDE DEF R
  <2> QED
    BY <2>1, LeastNatural
<1>2. x - 1 \in 0..(bound - 1) /\ x - 1 \in S
  BY <1>1
<1> QED
  BY <1>1, <1>2

(***************************************************************************)
(* Sequences put behind each other, one after the other: f[k] is what the  *)
(* first k of them make.                                                   *)
(***************************************************************************)
Joins(c, a, b, T) == a \in Seq(T) /\ b \in Seq(T) /\ c = a \o b
Accumulates(f, s, T) ==
  /\ f[0] = <<>>
  /\ \A k \in 0..(Len(s) - 1) : Joins(f[k + 1], f[k], s[k + 1], T)
Texts(s, T) == Len(s) \in Nat /\ \A n \in 1..Len(s) : s[n] \in Seq(T)

LEMMA Joined ==
  ASSUME NEW T, NEW a, NEW b, NEW c, Joins(c, a, b, T)
  PROVE  /\ a \in Seq(T) /\ b \in Seq(T) /\ c \in Seq(T)
         /\ Len(a) \in Nat /\ Len(b) \in Nat /\ Len(c) = Len(a) + Len(b)
         /\ \A n \in 1..Len(a) : c[n] = a[n]
         /\ \A n \in 1..Len(b) : c[Len(a) + n] = b[n]
BY DEF Joins

(* The recursion has a solution. *)
LEMMA AccumulationExists ==
  ASSUME NEW T, NEW s, Texts(s, T)
  PROVE  \E f : Accumulates(f, s, T)
<1> DEFINE Up(f, n) == /\ f[0] = <<>> /\ f[n] \in Seq(T)
                       /\ \A k \in 0..(n - 1) : Joins(f[k + 1], f[k], s[k + 1], T)
           Good == {n \in 0..Len(s) : \E f : Up(f, n)}
<1>0. Len(s) \in Nat /\ \A n \in 1..Len(s) : s[n] \in Seq(T)
  BY DEF Texts
<1>1. 0 \in Good
  <2> DEFINE one == [n \in 0..0 |-> <<>>]
  <2>1. Up(one, 0)
    OBVIOUS
  <2>2. \E f : Up(f, 0)
    <3> HIDE DEF one
    <3> QED
      BY <2>1
  <2>3. 0 \in 0..Len(s)
    BY <1>0
  <2> HIDE DEF Up
  <2> QED
    BY <2>2, <2>3
<1>2. ASSUME NEW n \in 0..(Len(s) - 1), n \in Good PROVE n + 1 \in Good
  <2>1. PICK f : Up(f, n)
    BY <1>2
  <2>2. PICK b \in Seq(T) : b = s[n + 1]
    BY <1>0
  <2>3. PICK a \in Seq(T) : a = f[n]
    BY <2>1
  <2>4. PICK c : c = a \o b
    OBVIOUS
  <2>5. Joins(c, a, b, T) /\ c \in Seq(T)
    BY <2>4 DEF Joins
  <2> DEFINE g == [m \in 0..(n + 1) |-> IF m = n + 1 THEN c ELSE f[m]]
  <2>6. g[n + 1] = c /\ \A m \in 0..n : g[m] = f[m]
    OBVIOUS
  <2> HIDE DEF g
  <2>7. ASSUME NEW k \in 0..n PROVE Joins(g[k + 1], g[k], s[k + 1], T)
    <3>1. CASE k = n
      <4>1. g[k + 1] = c /\ g[k] = a /\ s[k + 1] = b
        BY <2>2, <2>3, <2>6, <3>1
      <4> QED
        BY <2>5, <4>1
    <3>2. CASE k # n
      <4>1. k \in 0..(n - 1) /\ k + 1 \in 0..n
        BY <3>2
      <4>2. g[k + 1] = f[k + 1] /\ g[k] = f[k]
        BY <2>6, <4>1
      <4>3. Joins(f[k + 1], f[k], s[k + 1], T)
        BY <2>1, <4>1
      <4> QED
        BY <4>2, <4>3
    <3> QED
      BY <3>1, <3>2
  <2>8. n + 1 \in 0..Len(s) /\ (n + 1) - 1 = n /\ 0 \in 0..n
    BY <1>0
  <2>9. g[0] = <<>> /\ g[n + 1] \in Seq(T)
    BY <2>1, <2>5, <2>6, <2>8
  <2>10. Up(g, n + 1)
    BY <2>7, <2>8, <2>9
  <2> HIDE DEF Up
  <2> QED
    BY <2>8, <2>10
<1> HIDE DEF Good
<1>3. \A n \in 0..Len(s) : n \in Good
  BY <1>0, <1>1, <1>2, InductionTo
<1>4. Len(s) \in Good
  BY <1>0, <1>3
<1> QED
  BY <1>4 DEF Good, Accumulates

(* What FlattenSeq computes. *)
LEMMA Flattened ==
  ASSUME NEW T, NEW s, Texts(s, T), NEW f, Accumulates(f, s, T), Len(s) = 0 => s = <<>>
  PROVE  FlattenSeq(s) = f[Len(s)]
<1>1. Len(s) \in Nat
  BY DEF Texts
<1>2. CASE Len(s) = 0
  BY <1>2 DEF FlattenSeq, Accumulates
<1>3. CASE Len(s) # 0
  <2> DEFINE Solves(h) == h = [i \in 1..Len(s) |-> IF i = 1 THEN s[i] ELSE h[i - 1] \o s[i]]
             flatten == CHOOSE h : Solves(h)
             g == [i \in 1..Len(s) |-> f[i]]
  <2>1. FlattenSeq(s) = flatten[Len(s)]
    BY <1>3 DEF FlattenSeq
  <2>2. ASSUME NEW i \in 1..Len(s) PROVE f[i] = IF i = 1 THEN s[i] ELSE f[i - 1] \o s[i]
    <3>1. i - 1 \in 0..(Len(s) - 1) /\ (i - 1) + 1 = i
      BY <1>1
    <3>2. Joins(f[i], f[i - 1], s[i], T)
      BY <3>1 DEF Accumulates
    <3>3. CASE i = 1
      <4>1. i - 1 = 0
        BY <3>3
      <4>2. Joins(f[i], <<>>, s[i], T)
        BY <3>2, <4>1 DEF Accumulates
      <4>3. \A b \in Seq(T) : <<>> \o b = b
        OBVIOUS
      <4>4. f[i] = s[i]
        BY <4>2, <4>3, Zenon DEF Joins
      <4> QED
        BY <3>3, <4>4
    <3>4. CASE i # 1
      BY <3>2, <3>4, Zenon DEF Joins
    <3> QED
      BY <3>3, <3>4
  <2>3. Solves(g)
    <3>1. \A i \in 1..Len(s) : i # 1 => i - 1 \in 1..Len(s)
      BY <1>1
    <3>2. ASSUME NEW i \in 1..Len(s) PROVE g[i] = IF i = 1 THEN s[i] ELSE g[i - 1] \o s[i]
      <4>1. i # 1 => g[i - 1] = f[i - 1]
        BY <3>1
      <4>2. g[i] = f[i]
        OBVIOUS
      <4> HIDE DEF g
      <4> QED
        BY <2>2, <4>1, <4>2
    <3> QED
      BY <3>2
  <2>4. Solves(flatten)
    BY <2>3
  <2> HIDE DEF flatten, g
  <2> DEFINE Good == {n \in 0..Len(s) : n = 0 \/ flatten[n] = f[n]}
  <2>5. \A i \in 1..Len(s) : flatten[i] = IF i = 1 THEN s[i] ELSE flatten[i - 1] \o s[i]
    BY <2>4
  <2>6. 0 \in Good
    BY <1>1
  <2>7. ASSUME NEW n \in 0..(Len(s) - 1), n \in Good PROVE n + 1 \in Good
    <3>1. PICK r : r = n + 1
      OBVIOUS
    <3>2. r \in 1..Len(s) /\ r \in 0..Len(s) /\ r - 1 = n /\ (r = 1 <=> n = 0)
      BY <1>1, <3>1
    <3>3. n = 0 \/ flatten[n] = f[n]
      BY <2>7
    <3>4. /\ flatten[r] = IF r = 1 THEN s[r] ELSE flatten[n] \o s[r]
          /\ f[r] = IF r = 1 THEN s[r] ELSE f[n] \o s[r]
      BY <2>2, <2>5, <3>2
    <3>5. flatten[r] = f[r]
      BY <3>2, <3>3, <3>4
    <3> QED
      BY <3>1, <3>2, <3>5
  <2> HIDE DEF Good
  <2>8. \A n \in 0..Len(s) : n \in Good
    BY <1>1, <2>6, <2>7, InductionTo
  <2>9. flatten[Len(s)] = f[Len(s)]
    BY <1>1, <1>3, <2>8 DEF Good
  <2> QED
    BY <2>1, <2>9
<1> QED
  BY <1>2, <1>3

(* What was put together first stays in front. *)
Begins(a, c, T) == a \in Seq(T) /\ c \in Seq(T) /\ Len(a) <= Len(c) /\ \A m \in 1..Len(a) : c[m] = a[m]
LEMMA BeginsOn ==
  ASSUME NEW T, NEW a, NEW b, NEW c, NEW d, Begins(a, b, T), Joins(d, b, c, T)
  PROVE  Begins(a, d, T)
<1>1. /\ b \in Seq(T) /\ c \in Seq(T) /\ d \in Seq(T) /\ Len(b) \in Nat /\ Len(c) \in Nat
      /\ Len(d) = Len(b) + Len(c) /\ \A n \in 1..Len(b) : d[n] = b[n]
  BY Joined
<1>2. a \in Seq(T) /\ Len(a) \in Nat /\ Len(a) <= Len(b) /\ \A m \in 1..Len(a) : b[m] = a[m]
  BY DEF Begins
<1> QED
  BY <1>1, <1>2 DEF Begins

LEMMA InFront ==
  ASSUME NEW T, NEW s, Texts(s, T), NEW f, Accumulates(f, s, T), NEW k \in 0..Len(s)
  PROVE  Begins(f[k], f[Len(s)], T)
<1> DEFINE more == Len(s) - k
           Good == {n \in 0..more : Begins(f[k], f[k + n], T)}
<1>1. Len(s) \in Nat /\ more \in Nat
  BY DEF Texts
<1>2. f[k] \in Seq(T)
  <2>1. CASE k = 0
    <3>1. <<>> \in Seq(T)
      OBVIOUS
    <3> QED
      BY <2>1, <3>1 DEF Accumulates
  <2>2. CASE k # 0
    <3>1. k - 1 \in 0..(Len(s) - 1) /\ (k - 1) + 1 = k
      BY <1>1, <2>2
    <3>2. Joins(f[k], f[k - 1], s[k], T)
      BY <3>1 DEF Accumulates
    <3> QED
      BY <3>2, Joined
  <2> QED
    BY <2>1, <2>2
<1>3. 0 \in Good
  <2>1. PICK a \in Seq(T) : a = f[k]
    BY <1>2
  <2>2. Begins(a, a, T)
    BY DEF Begins
  <2>3. f[k + 0] = a /\ 0 \in 0..more
    BY <1>1, <2>1
  <2> QED
    BY <2>1, <2>2, <2>3
<1>4. ASSUME NEW n \in 0..(more - 1), n \in Good PROVE n + 1 \in Good
  <2>1. k + n \in 0..(Len(s) - 1) /\ (k + n) + 1 = k + (n + 1) /\ n + 1 \in 0..more
    BY <1>1
  <2>2. Joins(f[k + (n + 1)], f[k + n], s[k + (n + 1)], T)
    BY <2>1 DEF Accumulates
  <2>3. Begins(f[k], f[k + n], T)
    BY <1>4
  <2>4. Begins(f[k], f[k + (n + 1)], T)
    BY <2>2, <2>3, BeginsOn
  <2> QED
    BY <2>1, <2>4
<1> HIDE DEF Good
<1>5. \A n \in 0..more : n \in Good
  <2> HIDE DEF more
  <2> QED
    BY <1>1, <1>3, <1>4, InductionTo
<1>6. more \in Good /\ k + more = Len(s)
  BY <1>1, <1>5
<1> QED
  BY <1>6 DEF Good

-----------------------------------------------------------------------------
(***************************************************************************)
(* What a chunked body looks like on the wire, by positions.               *)
(***************************************************************************)
Bytes == Symbols \cup {Sizes[n] : n \in DOMAIN Sizes} \cup {CR, LF, "0", "bad", "trailer", "next"}

Valid(v) ==
  /\ v.chunks \in Seq({c \in Seq(Symbols) : Len(c) \in DOMAIN Sizes})
  /\ v.bad \in BOOLEAN /\ v.trailer \in BOOLEAN
  /\ v.cut \in -1..(Len(Chunks(v)) - 1)

Whole(v) == Chunks(v) \o NextResponse
End(v) == IF v.cut < 0 THEN Len(Whole(v)) ELSE v.cut

(* The bytes of the first k chunks, on the wire and handed over.           *)
Sent(v) == CHOOSE f : Accumulates(f, Coded(v), Bytes)
Handed(v) == CHOOSE f : Accumulates(f, v.chunks, Bytes)
Start(v, k) == Len(Sent(v)[k])

(* A chunk c whose size stands behind position p of w, and the end of the  *)
(* body.                                                                   *)
ChunkBehind(w, p, c) ==
  /\ c \in Seq(Bytes) /\ Len(c) \in DOMAIN Sizes
  /\ w[p + 1] = Sizes[Len(c)] /\ w[p + 2] = CR /\ w[p + 3] = LF
  /\ \A j \in 1..Len(c) : w[p + 3 + j] = c[j]
  /\ w[p + Len(c) + 4] = CR /\ w[p + Len(c) + 5] = LF

EndBehind(w, p, v) ==
  /\ w[p + 1] = (IF v.bad THEN "bad" ELSE "0") /\ w[p + 2] = CR /\ w[p + 3] = LF
  /\ IF v.trailer
     THEN /\ w[p + 4] = "trailer" /\ w[p + 5] = CR /\ w[p + 6] = LF
          /\ w[p + 7] = CR /\ w[p + 8] = LF /\ w[p + 9] = "next" /\ Len(w) = p + 9
     ELSE w[p + 4] = CR /\ w[p + 5] = LF /\ w[p + 6] = "next" /\ Len(w) = p + 6

(* A line end, a line of one symbol, and text c between such a line and a  *)
(* line end.                                                               *)
IsCrlf(d) == Len(d) = 2 /\ d[1] = CR /\ d[2] = LF
IsLine(a, x) == Len(a) = 3 /\ a[1] = x /\ a[2] = CR /\ a[3] = LF
Framed(e, x, c) ==
  /\ Len(c) \in Nat /\ Len(e) = Len(c) + 5
  /\ e[1] = x /\ e[2] = CR /\ e[3] = LF
  /\ \A j \in 1..Len(c) : e[3 + j] = c[j]
  /\ e[Len(c) + 4] = CR /\ e[Len(c) + 5] = LF

LEMMA FramedText ==
  ASSUME NEW T, NEW x, NEW a, NEW b, NEW c, NEW d, NEW e,
         IsLine(a, x), IsCrlf(d), Joins(b, a, c, T), Joins(e, b, d, T)
  PROVE  e \in Seq(T) /\ Framed(e, x, c)
<1>1. /\ b \in Seq(T) /\ Len(c) \in Nat /\ Len(b) = Len(a) + Len(c)
      /\ \A n \in 1..Len(a) : b[n] = a[n]
      /\ \A n \in 1..Len(c) : b[Len(a) + n] = c[n]
  BY Joined
<1>2. /\ e \in Seq(T) /\ Len(e) = Len(b) + Len(d)
      /\ \A n \in 1..Len(b) : e[n] = b[n]
      /\ \A n \in 1..Len(d) : e[Len(b) + n] = d[n]
  BY Joined
<1>3. /\ Len(b) = 3 + Len(c) /\ b[1] = x /\ b[2] = CR /\ b[3] = LF
      /\ \A n \in 1..Len(c) : b[3 + n] = c[n]
  BY <1>1 DEF IsLine
<1>4. Len(e) = Len(c) + 5 /\ Len(b) + 1 = Len(c) + 4 /\ Len(b) + 2 = Len(c) + 5
  BY <1>1, <1>2, <1>3 DEF IsCrlf
<1>5. e[Len(b) + 1] = CR /\ e[Len(b) + 2] = LF
  BY <1>2 DEF IsCrlf
<1>6. ASSUME NEW j \in 1..Len(c) PROVE e[3 + j] = c[j]
  BY <1>1, <1>2, <1>3
<1>7. e[1] = x /\ e[2] = CR /\ e[3] = LF
  BY <1>1, <1>2, <1>3
<1> QED
  BY <1>1, <1>2, <1>4, <1>5, <1>6, <1>7 DEF Framed

LEMMA BetweenLineEnds ==
  ASSUME NEW T, NEW x \in T, NEW c \in Seq(T), CR \in T, LF \in T
  PROVE  \E e \in Seq(T) : e = <<x>> \o Crlf \o c \o Crlf /\ Framed(e, x, c)
<1>1. PICK d : d = Crlf
  OBVIOUS
<1>2. d \in Seq(T) /\ IsCrlf(d)
  BY <1>1 DEF IsCrlf, Crlf
<1>3. PICK a : a = <<x>> \o d
  OBVIOUS
<1>4. a \in Seq(T) /\ IsLine(a, x)
  BY <1>1, <1>3 DEF Crlf, IsLine
<1>5. PICK b : b = a \o c
  OBVIOUS
<1>6. Joins(b, a, c, T)
  BY <1>4, <1>5 DEF Joins
<1>7. PICK e : e = b \o d
  OBVIOUS
<1>8. Joins(e, b, d, T)
  <2>1. b \in Seq(T)
    BY <1>6, Joined, Zenon
  <2> QED
    BY <1>2, <1>7, <2>1 DEF Joins
<1>9. e \in Seq(T) /\ Framed(e, x, c)
  BY <1>2, <1>4, <1>6, <1>8, FramedText, Zenon
<1>10. e = <<x>> \o Crlf \o c \o Crlf
  BY <1>1, <1>3, <1>5, <1>7, Zenon
<1> QED
  BY <1>9, <1>10, Zenon

IsEnd(z, v) ==
  /\ z[1] = (IF v.bad THEN "bad" ELSE "0") /\ z[2] = CR /\ z[3] = LF
  /\ IF v.trailer
     THEN z[4] = "trailer" /\ z[5] = CR /\ z[6] = LF /\ z[7] = CR /\ z[8] = LF /\ Len(z) = 8
     ELSE z[4] = CR /\ z[5] = LF /\ Len(z) = 5

LEMMA LastChunkIs ==
  ASSUME NEW v, Valid(v)
  PROVE  \E z \in Seq(Bytes) : z = LastChunk(v) /\ IsEnd(z, v)
<1>1. PICK x \in Bytes : x = (IF v.bad THEN "bad" ELSE "0")
  BY DEF Bytes
<1>2. CR \in Bytes /\ LF \in Bytes /\ "trailer" \in Bytes
  BY DEF Bytes
<1>3. PICK c \in Seq(Bytes) :
        /\ c = IF v.trailer THEN <<"trailer">> \o Crlf ELSE <<>>
        /\ IF v.trailer THEN Len(c) = 3 /\ c[1] = "trailer" /\ c[2] = CR /\ c[3] = LF ELSE Len(c) = 0
  <2>1. CASE v.trailer
    <3>1. PICK t : t = <<"trailer">> \o Crlf
      OBVIOUS
    <3>2. t \in Seq(Bytes) /\ Len(t) = 3 /\ t[1] = "trailer" /\ t[2] = CR /\ t[3] = LF
      BY <1>2, <3>1 DEF Crlf
    <3> QED
      BY <2>1, <3>1, <3>2, Zenon
  <2>2. CASE ~v.trailer
    <3>1. <<>> \in Seq(Bytes) /\ Len(<<>>) = 0
      OBVIOUS
    <3> QED
      BY <2>2, <3>1
  <2> QED
    BY <2>1, <2>2
<1>4. PICK z \in Seq(Bytes) : z = <<x>> \o Crlf \o c \o Crlf /\ Framed(z, x, c)
  BY <1>2, BetweenLineEnds, Zenon
<1>5. z = LastChunk(v)
  BY <1>1, <1>3, <1>4, Zenon DEF LastChunk
<1>6. CASE v.trailer
  <2>1. Len(c) = 3 /\ c[1] = "trailer" /\ c[2] = CR /\ c[3] = LF
    BY <1>3, <1>6, Zenon
  <2>2. z[3 + 1] = c[1] /\ z[3 + 2] = c[2] /\ z[3 + 3] = c[3] /\ z[3 + 4] = CR /\ z[3 + 5] = LF /\ Len(z) = 3 + 5
    <3>1. /\ \A j \in 1..3 : z[3 + j] = c[j]
          /\ z[3 + 4] = CR /\ z[3 + 5] = LF /\ Len(z) = 3 + 5
      BY <1>4, <2>1, Zenon DEF Framed
    <3> QED
      BY <3>1
  <2>3. z[4] = "trailer" /\ z[5] = CR /\ z[6] = LF /\ z[7] = CR /\ z[8] = LF /\ Len(z) = 8
    BY <2>1, <2>2
  <2> QED
    BY <1>1, <1>4, <1>5, <1>6, <2>3, Zenon DEF Framed, IsEnd
<1>7. CASE ~v.trailer
  <2>1. Len(c) = 0
    BY <1>3, <1>7, Zenon
  <2>2. z[4] = CR /\ z[5] = LF /\ Len(z) = 5
    BY <1>4, <2>1 DEF Framed
  <2> QED
    BY <1>1, <1>4, <1>5, <1>7, <2>2, Zenon DEF Framed, IsEnd
<1> QED
  BY <1>6, <1>7

LEMMA ChunksAre ==
  ASSUME NEW v, Valid(v)
  PROVE  /\ Len(v.chunks) \in Nat
         /\ \A i \in 1..Len(v.chunks) : v.chunks[i] \in Seq(Bytes) /\ Len(v.chunks[i]) \in DOMAIN Sizes
         /\ Texts(v.chunks, Bytes) /\ (Len(v.chunks) = 0 => v.chunks = <<>>)
<1> DEFINE C == {c \in Seq(Symbols) : Len(c) \in DOMAIN Sizes}
<1>1. \A c \in C : c \in Seq(Bytes) /\ Len(c) \in DOMAIN Sizes
  <2>1. Symbols \subseteq Bytes
    BY DEF Bytes
  <2> HIDE DEF Bytes
  <2>2. \A c \in Seq(Symbols) : c \in Seq(Bytes)
    BY <2>1
  <2> QED
    BY <2>2
<1>2. PICK s \in Seq(C) : s = v.chunks
  BY DEF Valid
<1> HIDE DEF C
<1>3. Len(s) \in Nat /\ (\A i \in 1..Len(s) : s[i] \in C) /\ (Len(s) = 0 => s = <<>>)
  OBVIOUS
<1>4. \A i \in 1..Len(s) : s[i] \in Seq(Bytes) /\ Len(s[i]) \in DOMAIN Sizes
  BY <1>1, <1>3, Zenon
<1>5. Texts(s, Bytes)
  BY <1>3, <1>4, Zenon DEF Texts
<1> QED
  BY <1>2, <1>3, <1>4, <1>5, Zenon

LEMMA CodedAre ==
  ASSUME NEW v, Valid(v)
  PROVE  /\ Len(Coded(v)) = Len(v.chunks) /\ Texts(Coded(v), Bytes)
         /\ Len(Coded(v)) = 0 => Coded(v) = <<>>
         /\ \A i \in 1..Len(v.chunks) : Framed(Coded(v)[i], Sizes[Len(v.chunks[i])], v.chunks[i])
<1>1. /\ Len(v.chunks) \in Nat /\ DOMAIN v.chunks = 1..Len(v.chunks)
      /\ \A i \in 1..Len(v.chunks) : v.chunks[i] \in Seq(Bytes) /\ Len(v.chunks[i]) \in DOMAIN Sizes
  <2>1. DOMAIN v.chunks = 1..Len(v.chunks)
    BY DEF Valid
  <2> QED
    BY <2>1, ChunksAre, Zenon
<1>2. PICK n \in Nat : n = Len(v.chunks)
  BY <1>1
<1>3. CR \in Bytes /\ LF \in Bytes
  BY DEF Bytes
<1>4. ASSUME NEW i \in 1..n
      PROVE  Coded(v)[i] \in Seq(Bytes) /\ Framed(Coded(v)[i], Sizes[Len(v.chunks[i])], v.chunks[i])
  <2>1. PICK c \in Seq(Bytes) : c = v.chunks[i] /\ Len(c) \in DOMAIN Sizes
    BY <1>1, <1>2, Zenon
  <2>2. PICK x \in Bytes : x = Sizes[Len(c)]
    BY <2>1, Zenon DEF Bytes
  <2>3. PICK e \in Seq(Bytes) : e = <<x>> \o Crlf \o c \o Crlf /\ Framed(e, x, c)
    BY <1>3, BetweenLineEnds, Zenon
  <2>4. Coded(v)[i] = e
    <3>1. i \in DOMAIN v.chunks
      BY <1>1, <1>2
    <3>2. Coded(v)[i] = <<Sizes[Len(v.chunks[i])]>> \o Crlf \o v.chunks[i] \o Crlf
      BY <3>1, Zenon DEF Coded
    <3> QED
      BY <2>1, <2>2, <2>3, <3>2, Zenon
  <2> QED
    BY <2>1, <2>2, <2>3, <2>4, Zenon
<1>5. PICK F : Coded(v) = [i \in 1..n |-> F[i]]
  <2> DEFINE H == [i \in 1..n |-> <<Sizes[Len(v.chunks[i])]>> \o Crlf \o v.chunks[i] \o Crlf]
  <2>1. Coded(v) = H
    BY <1>1, <1>2 DEF Coded
  <2>2. H = [i \in 1..n |-> H[i]]
    BY Zenon
  <2> QED
    BY <2>1, <2>2, Zenon
<1>6. Len(Coded(v)) = n /\ (n = 0 => Coded(v) = <<>>)
  BY <1>5
<1>7. Texts(Coded(v), Bytes)
  BY <1>4, <1>6, Zenon DEF Texts
<1> QED
  BY <1>2, <1>4, <1>6, <1>7

(* What was sent and handed over, step by step. *)
LEMMA SentIs ==
  ASSUME NEW v, Valid(v)
  PROVE  /\ Accumulates(Sent(v), Coded(v), Bytes) /\ Accumulates(Handed(v), v.chunks, Bytes)
         /\ FlattenSeq(Coded(v)) = Sent(v)[Len(v.chunks)]
         /\ FlattenSeq(v.chunks) = Handed(v)[Len(v.chunks)]
<1>1. Accumulates(Sent(v), Coded(v), Bytes)
  BY CodedAre, AccumulationExists, Zenon DEF Sent
<1>2. Accumulates(Handed(v), v.chunks, Bytes)
  BY ChunksAre, AccumulationExists, Zenon DEF Handed
<1>3. FlattenSeq(Coded(v)) = Sent(v)[Len(Coded(v))]
  BY <1>1, CodedAre, Flattened, Zenon
<1>4. FlattenSeq(v.chunks) = Handed(v)[Len(v.chunks)]
  BY <1>2, ChunksAre, Flattened, Zenon
<1> QED
  BY <1>1, <1>2, <1>3, <1>4, CodedAre, Zenon

(* The body behind the chunks. *)
LEMMA WholeIs ==
  ASSUME NEW v, Valid(v)
  PROVE  /\ Whole(v) \in Seq(Bytes) /\ Begins(Sent(v)[Len(v.chunks)], Whole(v), Bytes)
         /\ EndBehind(Whole(v), Start(v, Len(v.chunks)), v)
         /\ Len(Chunks(v)) = Len(Whole(v)) - 1
         /\ Chunks(v) \in Seq(Bytes) /\ Joins(Whole(v), Chunks(v), NextResponse, Bytes)
<1>1. PICK a : a = Sent(v)[Len(v.chunks)]
  OBVIOUS
<1>2. a \in Seq(Bytes) /\ Begins(a, a, Bytes)
  <2>1. Begins(Sent(v)[Len(Coded(v))], Sent(v)[Len(Coded(v))], Bytes)
    <3>1. Len(Coded(v)) \in 0..Len(Coded(v))
      BY CodedAre DEF Texts
    <3> QED
      BY <3>1, SentIs, CodedAre, InFront, Zenon
  <2>2. Begins(a, a, Bytes)
    BY <1>1, <2>1, CodedAre, Zenon
  <2> QED
    BY <2>2, Zenon DEF Begins
<1>3. PICK z \in Seq(Bytes) : z = LastChunk(v) /\ IsEnd(z, v)
  BY LastChunkIs, Zenon
<1>4. PICK c : c = a \o z
  OBVIOUS
<1>5. Joins(c, a, z, Bytes)
  BY <1>2, <1>4, Zenon DEF Joins
<1>6. c = Chunks(v)
  BY <1>1, <1>3, <1>4, SentIs, Zenon DEF Chunks
<1>7. PICK x : x = NextResponse
  OBVIOUS
<1>8. x \in Seq(Bytes) /\ Len(x) = 1 /\ x[1] = "next"
  <2>1. "next" \in Bytes
    BY DEF Bytes
  <2> QED
    BY <1>7, <2>1 DEF NextResponse
<1>9. PICK w : w = c \o x
  OBVIOUS
<1>10. c \in Seq(Bytes)
  BY <1>5, Joined, Zenon
<1>11. Joins(w, c, x, Bytes)
  BY <1>8, <1>9, <1>10, Zenon DEF Joins
<1>12. w = Whole(v)
  BY <1>6, <1>7, <1>9, Zenon DEF Whole
<1>13. /\ c \in Seq(Bytes) /\ Len(a) \in Nat /\ Len(c) = Len(a) + Len(z)
       /\ \A n \in 1..Len(z) : c[Len(a) + n] = z[n]
  BY <1>5, Joined
<1>14. /\ w \in Seq(Bytes) /\ Len(w) = Len(c) + 1
       /\ \A n \in 1..Len(c) : w[n] = c[n]
       /\ w[Len(c) + 1] = "next"
  <2>1. /\ w \in Seq(Bytes) /\ Len(w) = Len(c) + Len(x)
        /\ \A n \in 1..Len(c) : w[n] = c[n]
        /\ \A n \in 1..Len(x) : w[Len(c) + n] = x[n]
    BY <1>11, Joined
  <2> QED
    BY <1>8, <2>1
<1>15. Begins(a, w, Bytes)
  BY <1>2, <1>5, <1>11, BeginsOn, Zenon
<1>16. Len(z) \in Nat
  OBVIOUS
<1>17. \A n \in 1..Len(z) : w[Len(a) + n] = z[n]
  BY <1>13, <1>14, <1>16
<1>18. EndBehind(w, Len(a), v)
  <2>1. CASE v.trailer
    <3>0. Len(z) = 8
      BY <1>3, <2>1, Zenon DEF IsEnd
    <3>1. Len(z) = 8 /\ Len(w) = Len(a) + 9
      BY <1>13, <1>14, <3>0
    <3>2. /\ w[Len(a) + 1] = z[1] /\ w[Len(a) + 2] = z[2] /\ w[Len(a) + 3] = z[3] /\ w[Len(a) + 4] = z[4]
          /\ w[Len(a) + 5] = z[5] /\ w[Len(a) + 6] = z[6] /\ w[Len(a) + 7] = z[7] /\ w[Len(a) + 8] = z[8]
      BY <1>17, <3>1
    <3>3. w[Len(a) + 9] = "next"
      BY <1>13, <1>14, <3>1
    <3> QED
      BY <1>3, <2>1, <3>1, <3>2, <3>3, Zenon DEF EndBehind, IsEnd
  <2>2. CASE ~v.trailer
    <3>0. Len(z) = 5
      BY <1>3, <2>2, Zenon DEF IsEnd
    <3>1. Len(z) = 5 /\ Len(w) = Len(a) + 6
      BY <1>13, <1>14, <3>0
    <3>2. /\ w[Len(a) + 1] = z[1] /\ w[Len(a) + 2] = z[2] /\ w[Len(a) + 3] = z[3] /\ w[Len(a) + 4] = z[4]
          /\ w[Len(a) + 5] = z[5]
      BY <1>17, <3>1
    <3>3. w[Len(a) + 6] = "next"
      BY <1>13, <1>14, <3>1
    <3> QED
      BY <1>3, <2>2, <3>1, <3>2, <3>3, Zenon DEF EndBehind, IsEnd
  <2> QED
    BY <2>1, <2>2
<1>19. Len(c) = Len(w) - 1
  BY <1>10, <1>14
<1> QED
  BY <1>1, <1>6, <1>7, <1>11, <1>12, <1>13, <1>14, <1>15, <1>18, <1>19, Zenon DEF Start

LEMMA BeginsAll ==
  ASSUME NEW T, NEW a, NEW b, NEW c, Begins(a, b, T), Begins(b, c, T)
  PROVE  Begins(a, c, T)
<1>1. /\ a \in Seq(T) /\ Len(a) \in Nat /\ b \in Seq(T) /\ Len(b) \in Nat /\ Len(a) <= Len(b)
      /\ \A m \in 1..Len(a) : b[m] = a[m]
  BY DEF Begins
<1>2. /\ c \in Seq(T) /\ Len(c) \in Nat /\ Len(b) <= Len(c)
      /\ \A m \in 1..Len(b) : c[m] = b[m]
  BY DEF Begins
<1> QED
  BY <1>1, <1>2 DEF Begins

(* Where a chunk stands in all that is sent. *)
LEMMA ChunkPlaced ==
  ASSUME NEW a, NEW b, NEW c \in Seq(Bytes), NEW e, NEW w, Len(c) \in DOMAIN Sizes,
         Framed(e, Sizes[Len(c)], c), Joins(b, a, e, Bytes), Begins(b, w, Bytes)
  PROVE  ChunkBehind(w, Len(a), c) /\ Len(b) = Len(a) + Len(c) + 5
<1>1. /\ Len(a) \in Nat /\ Len(b) = Len(a) + Len(e)
      /\ \A n \in 1..Len(e) : b[Len(a) + n] = e[n]
  BY Joined
<1>2. \A n \in 1..Len(b) : w[n] = b[n]
  BY DEF Begins
<1>3. /\ Len(c) \in Nat /\ Len(e) = Len(c) + 5
      /\ e[1] = Sizes[Len(c)] /\ e[2] = CR /\ e[3] = LF
      /\ \A j \in 1..Len(c) : e[3 + j] = c[j]
      /\ e[Len(c) + 4] = CR /\ e[Len(c) + 5] = LF
  BY DEF Framed
<1>4. \A n \in 1..Len(e) : w[Len(a) + n] = e[n]
  BY <1>1, <1>2, <1>3
<1>5. w[Len(a) + 1] = Sizes[Len(c)] /\ w[Len(a) + 2] = CR /\ w[Len(a) + 3] = LF
  BY <1>3, <1>4
<1>6. ASSUME NEW j \in 1..Len(c) PROVE w[Len(a) + 3 + j] = c[j]
  <2>1. 3 + j \in 1..Len(e) /\ Len(a) + (3 + j) = Len(a) + 3 + j
    BY <1>1, <1>3, SMTT(40)
  <2> QED
    BY <1>3, <1>4, <2>1
<1>7. w[Len(a) + Len(c) + 4] = CR /\ w[Len(a) + Len(c) + 5] = LF
  <2>1. /\ Len(c) + 4 \in 1..Len(e) /\ Len(a) + (Len(c) + 4) = Len(a) + Len(c) + 4
        /\ Len(c) + 5 \in 1..Len(e) /\ Len(a) + (Len(c) + 5) = Len(a) + Len(c) + 5
    BY <1>1, <1>3
  <2> QED
    BY <1>3, <1>4, <2>1
<1>8. Len(b) = Len(a) + Len(c) + 5
  BY <1>1, <1>3
<1> QED
  BY <1>5, <1>6, <1>7, <1>8 DEF ChunkBehind

(* All of it: where every chunk and the end stand, and what the chunks are *)
(* together.                                                               *)
LEMMA ChunkLayout ==
  ASSUME NEW v, Valid(v), NEW k \in 0..(Len(v.chunks) - 1)
  PROVE  /\ ChunkBehind(Whole(v), Start(v, k), v.chunks[k + 1])
         /\ Start(v, k + 1) = Start(v, k) + Len(v.chunks[k + 1]) + 5
         /\ Start(v, k) \in Nat /\ Len(v.chunks[k + 1]) \in Nat
         /\ Start(v, k + 1) <= Start(v, Len(v.chunks))
         /\ Joins(Handed(v)[k + 1], Handed(v)[k], v.chunks[k + 1], Bytes)
<1>1. Len(v.chunks) \in Nat /\ Len(v.chunks) = Len(Coded(v))
  BY ChunksAre, CodedAre
<1>2. k + 1 \in 1..Len(v.chunks) /\ k + 1 \in 0..Len(Coded(v)) /\ k \in 0..(Len(Coded(v)) - 1)
  BY <1>1
<1>3. PICK c \in Seq(Bytes) : c = v.chunks[k + 1] /\ Len(c) \in DOMAIN Sizes
  BY <1>2, ChunksAre, Zenon
<1>4. Framed(Coded(v)[k + 1], Sizes[Len(c)], c)
  BY <1>2, <1>3, CodedAre, Zenon
<1>5. Joins(Sent(v)[k + 1], Sent(v)[k], Coded(v)[k + 1], Bytes)
  BY <1>2, SentIs, Zenon DEF Accumulates
<1>6. Begins(Sent(v)[k + 1], Sent(v)[Len(v.chunks)], Bytes)
  <2>1. Begins(Sent(v)[k + 1], Sent(v)[Len(Coded(v))], Bytes)
    BY <1>2, SentIs, CodedAre, InFront, Zenon
  <2> QED
    BY <1>1, <2>1, Zenon
<1>7. Begins(Sent(v)[k + 1], Whole(v), Bytes)
  BY <1>6, WholeIs, BeginsAll, Zenon
<1>8. ChunkBehind(Whole(v), Len(Sent(v)[k]), c) /\ Len(Sent(v)[k + 1]) = Len(Sent(v)[k]) + Len(c) + 5
  BY <1>3, <1>4, <1>5, <1>7, ChunkPlaced, Zenon
<1>9. Len(Sent(v)[k]) \in Nat
  BY <1>5, Joined, Zenon
<1>10. Len(Sent(v)[k + 1]) <= Len(Sent(v)[Len(v.chunks)])
  BY <1>6, Zenon DEF Begins
<1>11. Joins(Handed(v)[k + 1], Handed(v)[k], v.chunks[k + 1], Bytes)
  BY SentIs, Zenon DEF Accumulates
<1>12. Len(c) \in Nat
  OBVIOUS
<1> QED
  BY <1>3, <1>8, <1>9, <1>10, <1>11, <1>12, Zenon DEF Start

LEMMA EndLayout ==
  ASSUME NEW v, Valid(v)
  PROVE  /\ Len(v.chunks) \in Nat
         /\ Start(v, 0) = 0 /\ Handed(v)[0] = <<>> /\ Handed(v)[Len(v.chunks)] = FlattenSeq(v.chunks)
         /\ Start(v, Len(v.chunks)) \in Nat
         /\ EndBehind(Whole(v), Start(v, Len(v.chunks)), v)
         /\ Whole(v) \in Seq(Bytes) /\ End(v) \in Nat
         /\ v.cut < 0 => End(v) = Len(Whole(v))
         /\ ~(v.cut < 0) => End(v) <= Len(Whole(v)) - 2
         /\ Stream(v) = SubSeq(Whole(v), 1, End(v))
<1>1. Len(v.chunks) \in Nat
  BY ChunksAre
<1>2. Sent(v)[0] = <<>> /\ Handed(v)[0] = <<>>
  BY SentIs, Zenon DEF Accumulates
<1>3. Start(v, 0) = 0
  BY <1>2 DEF Start
<1>4. Start(v, Len(v.chunks)) \in Nat
  <2>1. Begins(Sent(v)[Len(v.chunks)], Whole(v), Bytes)
    BY WholeIs
  <2>2. PICK a : a = Sent(v)[Len(v.chunks)]
    OBVIOUS
  <2>3. a \in Seq(Bytes)
    BY <2>1, <2>2, Zenon DEF Begins
  <2>4. Len(a) \in Nat
    BY <2>3
  <2> QED
    BY <2>2, <2>4, Zenon DEF Start
<1>5. PICK w \in Seq(Bytes) : w = Whole(v)
  BY WholeIs
<1>6. PICK c \in Seq(Bytes) : c = Chunks(v) /\ Joins(w, c, NextResponse, Bytes) /\ Len(c) = Len(w) - 1
  BY <1>5, WholeIs, Zenon
<1>7. v.cut \in -1..(Len(c) - 1)
  BY <1>6, Zenon DEF Valid
<1>8. PICK cut : cut = v.cut
  OBVIOUS
<1>9. /\ Len(w) \in Nat /\ Len(c) \in Nat /\ cut \in -1..(Len(c) - 1)
      /\ \A n \in 1..Len(c) : w[n] = c[n]
  <2>0. PICK x : x = NextResponse
    OBVIOUS
  <2>1. Joins(w, c, x, Bytes)
    BY <1>6, <2>0, Zenon
  <2>2. \A n \in 1..Len(c) : w[n] = c[n]
    BY <2>1, Joined
  <2> QED
    BY <1>7, <1>8, <2>2
<1>10. End(v) = IF cut < 0 THEN Len(w) ELSE cut
  BY <1>5, <1>8, Zenon DEF End
<1>11. /\ End(v) \in Nat /\ (cut < 0 => End(v) = Len(w)) /\ (~(cut < 0) => End(v) <= Len(w) - 2)
  BY <1>6, <1>9, <1>10
<1>12. Stream(v) = SubSeq(w, 1, End(v))
  <2>1. CASE cut < 0
    <3>1. Stream(v) = w
      BY <1>5, <1>8, <2>1, Zenon DEF Stream, Whole
    <3>2. SubSeq(w, 1, Len(w)) = w
      OBVIOUS
    <3> QED
      BY <1>10, <2>1, <3>1, <3>2, Zenon
  <2>2. CASE ~(cut < 0)
    <3>1. Stream(v) = SubSeq(c, 1, cut)
      BY <1>6, <1>8, <2>2, Zenon DEF Stream
    <3>2. SubSeq(c, 1, cut) = SubSeq(w, 1, cut)
      BY <1>6, <1>9, <2>2
    <3> QED
      BY <1>10, <2>2, <3>1, <3>2, Zenon
  <2> QED
    BY <2>1, <2>2
<1> QED
  BY <1>1, <1>2, <1>3, <1>4, <1>5, <1>8, <1>11, <1>12, SentIs, WholeIs, Zenon

-----------------------------------------------------------------------------
(***************************************************************************)
(* Reading: what getline takes of w between positions p and e, when the    *)
(* next line feed stands at q.                                             *)
(***************************************************************************)
Remaining(w, p, e) == SubSeq(w, p + 1, e)
LineFeedAt(w, p, q) == p < q /\ w[q] = LF /\ \A j \in (p + 1)..(q - 1) : w[j] # LF

LEMMA DropRemaining ==
  ASSUME NEW T, NEW w \in Seq(T), NEW p \in Nat, NEW e \in Nat, p <= e, e <= Len(w), NEW n \in Nat, p + n <= e
  PROVE  Drop(Remaining(w, p, e), n) = Remaining(w, p + n, e)
BY DEF Remaining, Drop

LEMMA GetlineTakes ==
  ASSUME NEW T, NEW w \in Seq(T), NEW p \in Nat, NEW e \in Nat, NEW q \in Nat,
         p < e, e <= Len(w), LineFeedAt(w, p, q), rest = Remaining(w, p, e)
  PROVE  /\ Line \in Seq(T) /\ Line[1] = w[p + 1] /\ Len(Line) = (IF q <= e THEN q ELSE e) - p
         /\ \A j \in 1..Len(Line) : Line[j] = w[p + j]
         /\ Drop(rest, Len(Line)) = IF q <= e THEN Remaining(w, q, e) ELSE <<>>
<1> DEFINE feeds == {i \in 1..Len(rest) : rest[i] = LF}
           n == SelectInSeq(rest, LAMBDA c : c = LF)
<1>1. rest \in Seq(T) /\ Len(rest) = e - p /\ \A j \in 1..(e - p) : rest[j] = w[p + j]
  <2>1. PICK r : r = Remaining(w, p, e)
    OBVIOUS
  <2>2. r \in Seq(T) /\ Len(r) = e - p /\ \A j \in 1..(e - p) : r[j] = w[p + j]
    BY <2>1 DEF Remaining
  <2>3. rest = r
    BY <2>1
  <2> QED
    BY <2>2, <2>3
<1>2. n = IF feeds # {} THEN Min(feeds) ELSE 0
  BY DEF SelectInSeq
<1>3. Line = IF n = 0 THEN rest ELSE SubSeq(rest, 1, n)
  BY DEF Line
<1>4. \A i \in feeds : i \in 1..(e - p) /\ ~(p + i < q)
  BY <1>1 DEF LineFeedAt
<1> HIDE DEF n
<1>5. CASE q <= e
  <2>1. q - p \in feeds /\ \A i \in feeds : q - p <= i
    BY <1>1, <1>4, <1>5 DEF LineFeedAt
  <2>2. feeds # {} /\ Min(feeds) = q - p
    <3>1. \A i \in feeds : i \in Nat
      BY <1>4
    <3> HIDE DEF feeds
    <3>2. Min(feeds) \in feeds /\ \A y \in feeds : Min(feeds) <= y
      BY <2>1 DEF Min
    <3> QED
      BY <2>1, <3>1, <3>2
  <2>3. n = q - p /\ n # 0
    BY <1>2, <2>2 DEF LineFeedAt
  <2>4. PICK l : l = SubSeq(rest, 1, q - p)
    OBVIOUS
  <2>5. Line = l
    BY <1>3, <2>3, <2>4
  <2>6. l \in Seq(T) /\ Len(l) = q - p /\ \A j \in 1..(q - p) : l[j] = w[p + j]
    BY <1>1, <1>5, <2>4 DEF LineFeedAt
  <2>7. Drop(rest, q - p) = Remaining(w, q, e)
    <3>1. q - p \in Nat /\ p + (q - p) = q /\ p <= e
      BY <1>5 DEF LineFeedAt
    <3> QED
      BY <1>5, <3>1, DropRemaining
  <2>8. l[1] = w[p + 1]
    BY <2>6 DEF LineFeedAt
  <2> QED
    BY <1>5, <2>5, <2>6, <2>7, <2>8
<1>6. CASE ~(q <= e)
  <2>1. feeds = {}
    BY <1>4, <1>6
  <2>2. Line = rest
    BY <1>2, <1>3, <2>1
  <2>3. Drop(rest, e - p) = <<>>
    BY <1>1 DEF Drop
  <2> QED
    BY <1>1, <1>6, <2>2, <2>3
<1> QED
  BY <1>5, <1>6

-----------------------------------------------------------------------------
(***************************************************************************)
(* The inductive invariant: where the reader of a body v stands, r being   *)
(* what it has not read, m what it misses of the chunk and o what it has   *)
(* handed over.                                                            *)
(***************************************************************************)
Behind(v, p, r) == p <= End(v) /\ r = Remaining(Whole(v), p, End(v))
CutOff(v, r) == r = <<>> /\ ~(v.cut < 0)

(* Before the size of a chunk, or of the end. *)
AtSize(v, r, o) == \E k \in 0..Len(v.chunks) : Behind(v, Start(v, k), r) /\ o = Handed(v)[k]

(* Inside a chunk; the body may be cut off inside the line of the size.    *)
InChunk(v, r, m, o) ==
  \E k \in 0..(Len(v.chunks) - 1) :
    /\ m \in 0..Len(v.chunks[k + 1])
    /\ \/ /\ Behind(v, Start(v, k) + 3 + (Len(v.chunks[k + 1]) - m), r)
          /\ o = Handed(v)[k] \o SubSeq(v.chunks[k + 1], 1, Len(v.chunks[k + 1]) - m)
       \/ CutOff(v, r) /\ m > 0

(* Behind the bytes of a chunk. *)
AtEnd(v, r, o) ==
  \E k \in 0..(Len(v.chunks) - 1) :
    Behind(v, Start(v, k) + 3 + Len(v.chunks[k + 1]), r) /\ o = Handed(v)[k + 1]

(* Behind the last size, or behind the trailer. *)
AtTrailer(v, r, o) ==
  /\ ~v.bad /\ o = Handed(v)[Len(v.chunks)]
  /\ \/ Behind(v, Start(v, Len(v.chunks)) + 3, r)
     \/ v.trailer /\ Behind(v, Start(v, Len(v.chunks)) + 6, r)
     \/ CutOff(v, r)

AtNextResponse(v, r, o) ==
  v.cut < 0 /\ ~v.bad /\ r = NextResponse /\ o = Handed(v)[Len(v.chunks)]

Reading(v, s, r, m, o) ==
  /\ s \in {"size", "data", "end", "trailer", "done", "failed"}
  /\ s = "size" => AtSize(v, r, o)
  /\ s = "data" => InChunk(v, r, m, o)
  /\ s = "end" => AtEnd(v, r, o)
  /\ s = "trailer" => AtTrailer(v, r, o)
  /\ s = "done" => AtNextResponse(v, r, o)
  /\ s = "failed" => ~(v.cut < 0) \/ v.bad

ChunkedInv ==
  /\ input \in Inputs
  /\ input.kind = "chunked" => ~parsing /\ Reading(input.value, state, rest, left, out)

(***************************************************************************)
(* getline behind position p of v, with a line feed at q: it takes the     *)
(* line, less than the line of a body that was cut off, or nothing.        *)
(***************************************************************************)
Took(v, p, q, r) ==
  /\ rest # <<>> /\ Line \in Seq(Bytes) /\ Line[1] = Whole(v)[p + 1]
  /\ Len(Line) = q - p /\ (\A j \in 1..(q - p) : Line[j] = Whole(v)[p + j])
  /\ Behind(v, q, r)
TookLess(v, p, q, r) ==
  /\ rest # <<>> /\ Line \in Seq(Bytes) /\ Line[1] = Whole(v)[p + 1] /\ Len(Line) < q - p
  /\ CutOff(v, r)

LEMMA LineRead ==
  ASSUME NEW v, Valid(v), NEW p \in Nat, NEW q \in Nat, Behind(v, p, rest),
         LineFeedAt(Whole(v), p, q), q < Len(Whole(v)), rest' = Drop(rest, Len(Line))
  PROVE  Took(v, p, q, rest') \/ TookLess(v, p, q, rest') \/ CutOff(v, rest)
<1>1. PICK w \in Seq(Bytes) : w = Whole(v)
  BY EndLayout
<1>2. PICK e \in Nat : e = End(v)
  BY EndLayout
<1>3. Len(w) \in Nat /\ e <= Len(w) /\ (v.cut < 0 => e = Len(w))
  <2>1. (v.cut < 0 => e = Len(w)) /\ (~(v.cut < 0) => e <= Len(w) - 2)
    BY <1>1, <1>2, EndLayout, Zenon
  <2>2. Len(w) \in Nat
    OBVIOUS
  <2> QED
    BY <2>1, <2>2
<1>4. p <= e /\ rest = Remaining(w, p, e) /\ LineFeedAt(w, p, q) /\ p < q /\ q < Len(w)
  BY <1>1, <1>2, Zenon DEF Behind, LineFeedAt
<1>5. CASE p = e
  <2>1. rest = <<>>
    BY <1>4, <1>5 DEF Remaining
  <2>2. ~(v.cut < 0)
    BY <1>3, <1>4, <1>5
  <2> QED
    BY <2>1, <2>2 DEF CutOff
<1>6. CASE p # e
  <2>1. p < e
    BY <1>4, <1>6
  <2>2. rest # <<>>
    <3>1. Len(Remaining(w, p, e)) = e - p
      BY <1>3, <1>4 DEF Remaining
    <3> QED
      BY <1>4, <2>1, <3>1
  <2>3. /\ Line \in Seq(Bytes) /\ Line[1] = w[p + 1] /\ Len(Line) = (IF q <= e THEN q ELSE e) - p
        /\ \A j \in 1..Len(Line) : Line[j] = w[p + j]
        /\ Drop(rest, Len(Line)) = IF q <= e THEN Remaining(w, q, e) ELSE <<>>
    BY <1>3, <1>4, <2>1, GetlineTakes, Zenon
  <2>4. CASE q <= e
    <3>1. rest' = Remaining(w, q, e) /\ Len(Line) = q - p
      BY <2>3, <2>4, Zenon
    <3> QED
      BY <1>1, <1>2, <2>2, <2>3, <2>4, <3>1, Zenon DEF Took, Behind
  <2>5. CASE ~(q <= e)
    <3>1. rest' = <<>> /\ Len(Line) = e - p
      BY <2>3, <2>5, Zenon
    <3>2. Len(Line) < q - p /\ ~(v.cut < 0)
      BY <1>3, <1>4, <2>5, <3>1
    <3> QED
      BY <1>1, <2>2, <2>3, <3>1, <3>2, Zenon DEF TookLess, CutOff
  <2> QED
    BY <2>4, <2>5
<1> QED
  BY <1>5, <1>6

(* The lines of a chunk and of the end. *)
LEMMA LineOfTwo ==
  ASSUME NEW w, NEW p \in Nat, w[p + 1] # LF, w[p + 2] = LF
  PROVE  LineFeedAt(w, p, p + 2)
BY DEF LineFeedAt
LEMMA LineOfThree ==
  ASSUME NEW w, NEW p \in Nat, w[p + 1] # LF, w[p + 2] # LF, w[p + 3] = LF
  PROVE  LineFeedAt(w, p, p + 3)
<1>1. ASSUME NEW j \in (p + 1)..(p + 3 - 1) PROVE w[j] # LF
  <2>1. j = p + 1 \/ j = p + 2
    OBVIOUS
  <2> QED
    BY <2>1
<1> QED
  BY <1>1 DEF LineFeedAt

LEMMA CrlfIs ==
  ASSUME NEW l \in Seq(Bytes)
  PROVE  l = Crlf <=> IsCrlf(l)
<1>1. "cr" \in Bytes /\ "lf" \in Bytes
  BY DEF Bytes, CR, LF
<1> QED
  BY <1>1 DEF IsCrlf, Crlf, CR, LF

(* Every chunk ends before the body does. *)
LEMMA ChunkInside ==
  ASSUME NEW v, Valid(v), NEW k \in 0..(Len(v.chunks) - 1)
  PROVE  Start(v, k) + Len(v.chunks[k + 1]) + 5 < Len(Whole(v))
<1>1. PICK a : a = Start(v, Len(v.chunks))
  OBVIOUS
<1>2. a \in Nat /\ a < Len(Whole(v))
  <2>1. a \in Nat /\ EndBehind(Whole(v), a, v)
    BY <1>1, EndLayout, Zenon
  <2>2. Len(Whole(v)) = a + 9 \/ Len(Whole(v)) = a + 6
    BY <2>1, Zenon DEF EndBehind
  <2> QED
    BY <2>1, <2>2
<1>3. PICK b : b = Start(v, k + 1)
  OBVIOUS
<1>4. b = Start(v, k) + Len(v.chunks[k + 1]) + 5 /\ b <= a
  BY <1>1, <1>3, ChunkLayout, Zenon
<1>5. Start(v, k) \in Nat /\ Len(v.chunks[k + 1]) \in Nat
  BY ChunkLayout
<1> QED
  <2>1. PICK d \in Nat : d = Start(v, k) + Len(v.chunks[k + 1]) + 5
    BY <1>5
  <2>2. PICK e : e = Len(Whole(v))
    OBVIOUS
  <2>3. e \in Nat
    <3>1. PICK w \in Seq(Bytes) : w = Whole(v)
      BY EndLayout
    <3>2. Len(w) \in Nat
      OBVIOUS
    <3> QED
      BY <2>2, <3>1, <3>2, Zenon
  <2>4. a < e /\ d <= a
    BY <1>2, <1>4, <2>1, <2>2, Zenon
  <2>5. d < e
    BY <1>2, <2>3, <2>4
  <2> QED
    BY <2>1, <2>2, <2>5, Zenon

(* A failure is explained by the body. *)
LEMMA FailureReading ==
  ASSUME NEW v, NEW r, NEW m, NEW o, ~(v.cut < 0) \/ v.bad
  PROVE  Reading(v, "failed", r, m, o)
BY DEF Reading

(* The size of a chunk. *)
LEMMA SizeOfChunk ==
  ASSUME NEW v, Valid(v), NEW k \in 0..(Len(v.chunks) - 1),
         Behind(v, Start(v, k), rest), out = Handed(v)[k], ChunkSize
  PROVE  Reading(v, state', rest', left', out')
<1>1. PICK c \in Seq(Bytes) : c = v.chunks[k + 1] /\ ChunkBehind(Whole(v), Start(v, k), c)
  <2>1. ChunkBehind(Whole(v), Start(v, k), v.chunks[k + 1])
    BY ChunkLayout
  <2> QED
    BY <2>1, Zenon DEF ChunkBehind
<1>2. PICK w : w = Whole(v)
  OBVIOUS
<1>3. PICK p \in Nat : p = Start(v, k)
  BY ChunkLayout
<1>4. PICK n \in DOMAIN Sizes : n = Len(c) /\ w[p + 1] = Sizes[n] /\ w[p + 2] = CR /\ w[p + 3] = LF
  BY <1>1, <1>2, <1>3, Zenon DEF ChunkBehind
<1>5. n \in Nat /\ n > 0 /\ Sizes[n] \notin {"0", "bad", LF} /\ \A i \in DOMAIN Sizes : Sizes[i] = Sizes[n] => i = n
  <2>1. Sizes \in Seq(STRING)
    BY FormatInputs
  <2>2. DOMAIN Sizes \subseteq Nat \ {0}
    BY <2>1
  <2>3. Sizes[n] \notin {"0", "bad", LF} /\ \A i \in DOMAIN Sizes : Sizes[i] = Sizes[n] => i = n
    BY FormatInputs, Zenon
  <2> QED
    BY <2>2, <2>3
<1>6. LineFeedAt(w, p, p + 3)
  <2>1. w[p + 1] # LF /\ w[p + 2] # LF
    BY <1>4, <1>5 DEF CR, LF
  <2> QED
    BY <1>4, <2>1, LineOfThree, Zenon
<1>7. p + 3 < Len(w) /\ p + 3 \in Nat
  <2>1. p + n + 5 < Len(w)
    BY <1>1, <1>2, <1>3, <1>4, ChunkInside, Zenon
  <2>2. Len(w) \in Nat
    <3>1. w \in Seq(Bytes)
      BY <1>2, EndLayout, Zenon
    <3> QED
      BY <3>1
  <2> QED
    BY <1>5, <2>1, <2>2
<1>8. rest' = Drop(rest, Len(Line)) /\ out' = out
  BY DEF ChunkSize, Getline
<1>9. Took(v, p, p + 3, rest') \/ TookLess(v, p, p + 3, rest') \/ CutOff(v, rest)
  BY <1>2, <1>3, <1>6, <1>7, <1>8, LineRead, Zenon
<1>10. CASE CutOff(v, rest)
  <2>1. state' = "failed" /\ ~(v.cut < 0)
    BY <1>10, Zenon DEF CutOff, ChunkSize, Fails
  <2> QED
    BY <2>1, FailureReading, Zenon
<1>11. ASSUME Took(v, p, p + 3, rest') \/ TookLess(v, p, p + 3, rest')
       PROVE  Reading(v, state', rest', left', out')
  <2>1. rest # <<>> /\ Line[1] = Sizes[n]
    BY <1>2, <1>4, <1>11, Zenon DEF Took, TookLess
  <2>2. state' = "data" /\ left' = n
    <3>1. \/ rest = <<>>
          \/ Line[1] = "0"
          \/ \E i \in DOMAIN Sizes : Line[1] = Sizes[i] /\ left' = i /\ state' = "data"
          \/ Line[1] \notin {"0"} \union {Sizes[i] : i \in DOMAIN Sizes}
      BY Zenon DEF ChunkSize
    <3> QED
      BY <1>5, <2>1, <3>1
  <2>3. InChunk(v, rest', left', out')
    <3>1. left' \in 0..Len(v.chunks[k + 1]) /\ left' > 0
      <4>1. left' = Len(v.chunks[k + 1])
        BY <1>1, <1>4, <2>2, Zenon
      <4>2. n \in 0..n
        BY <1>5
      <4> QED
        BY <1>5, <2>2, <4>1, <4>2
    <3>2. CASE Took(v, p, p + 3, rest')
      <4>1. Behind(v, p + 3, rest')
        BY <3>2, Zenon DEF Took
      <4>2. p + 3 = p + 3 + (n - n) /\ n - n = 0
        BY <1>5
      <4>3. Behind(v, Start(v, k) + 3 + (Len(v.chunks[k + 1]) - left'), rest')
        BY <1>1, <1>3, <1>4, <2>2, <4>1, <4>2, Zenon
      <4>4. out' = Handed(v)[k] \o SubSeq(v.chunks[k + 1], 1, Len(v.chunks[k + 1]) - left')
        <5>1. PICK h \in Seq(Bytes) : h = Handed(v)[k]
          <6>1. Joins(Handed(v)[k + 1], Handed(v)[k], v.chunks[k + 1], Bytes)
            BY ChunkLayout
          <6> QED
            BY <6>1, Zenon DEF Joins
        <5>2. h = h \o SubSeq(c, 1, 0)
          OBVIOUS
        <5> QED
          BY <1>1, <1>4, <1>8, <2>2, <4>2, <5>1, <5>2, Zenon
      <4> QED
        BY <3>1, <4>3, <4>4, Zenon DEF InChunk
    <3>3. CASE TookLess(v, p, p + 3, rest')
      BY <3>1, <3>3, Zenon DEF InChunk, TookLess
    <3> QED
      BY <1>11, <3>2, <3>3
  <2> QED
    BY <2>2, <2>3 DEF Reading
<1> QED
  BY <1>9, <1>10, <1>11

(* The size that ends the body, or what stands in its place. *)
LEMMA SizeOfEnd ==
  ASSUME NEW v, Valid(v), Behind(v, Start(v, Len(v.chunks)), rest), out = Handed(v)[Len(v.chunks)], ChunkSize
  PROVE  Reading(v, state', rest', left', out')
<1>1. PICK w \in Seq(Bytes) : w = Whole(v)
  BY EndLayout
<1>2. PICK p \in Nat : p = Start(v, Len(v.chunks))
  BY EndLayout
<1>3. EndBehind(w, p, v)
  BY <1>1, <1>2, EndLayout, Zenon
<1>4. w[p + 1] = (IF v.bad THEN "bad" ELSE "0") /\ w[p + 2] = CR /\ w[p + 3] = LF
  BY <1>3, Zenon DEF EndBehind
<1>5. Len(w) = p + 9 \/ Len(w) = p + 6
  BY <1>3, Zenon DEF EndBehind
<1>6. LineFeedAt(w, p, p + 3)
  <2>1. w[p + 1] # LF /\ w[p + 2] # LF
    BY <1>4 DEF CR, LF
  <2> QED
    BY <1>4, <2>1, LineOfThree, Zenon
<1>7. p + 3 < Len(w) /\ p + 3 \in Nat
  BY <1>5
<1>8. rest' = Drop(rest, Len(Line)) /\ out' = out
  BY DEF ChunkSize, Getline
<1>9. Took(v, p, p + 3, rest') \/ TookLess(v, p, p + 3, rest') \/ CutOff(v, rest)
  BY <1>1, <1>2, <1>6, <1>7, <1>8, LineRead, Zenon
<1>10. CASE CutOff(v, rest)
  <2>1. state' = "failed" /\ ~(v.cut < 0)
    BY <1>10, Zenon DEF CutOff, ChunkSize, Fails
  <2> QED
    BY <2>1, FailureReading, Zenon
<1>11. ASSUME Took(v, p, p + 3, rest') \/ TookLess(v, p, p + 3, rest')
       PROVE  Reading(v, state', rest', left', out')
  <2>1. rest # <<>> /\ Line[1] = w[p + 1]
    BY <1>1, <1>11, Zenon DEF Took, TookLess
  <2>2. \/ rest = <<>>
        \/ Line[1] = "0" /\ state' = "trailer"
        \/ \E i \in DOMAIN Sizes : Line[1] = Sizes[i]
        \/ Line[1] \notin {"0"} \union {Sizes[i] : i \in DOMAIN Sizes} /\ state' = "failed"
    BY Zenon DEF ChunkSize, Fails
  <2>3. \A i \in DOMAIN Sizes : Sizes[i] # "0" /\ Sizes[i] # "bad"
    BY FormatInputs
  <2>4. CASE v.bad
    <3>1. Line[1] = "bad"
      BY <1>4, <2>1, <2>4
    <3>2. state' = "failed"
      BY <2>1, <2>2, <2>3, <3>1
    <3> QED
      BY <2>4, <3>2, FailureReading
  <2>5. CASE ~v.bad
    <3>1. Line[1] = "0"
      BY <1>4, <2>1, <2>5
    <3>2. state' = "trailer"
      BY <2>1, <2>2, <2>3, <3>1
    <3>3. Behind(v, p + 3, rest') \/ CutOff(v, rest')
      BY <1>11, Zenon DEF Took, TookLess
    <3>4. AtTrailer(v, rest', out')
      BY <1>2, <1>8, <2>5, <3>3, Zenon DEF AtTrailer
    <3> QED
      BY <3>2, <3>4 DEF Reading
  <2> QED
    BY <2>4, <2>5
<1> QED
  BY <1>9, <1>10, <1>11

(* A part x of a chunk handed over behind the d bytes that were. *)
HandsOn(h, c, d, n, x) == (h \o SubSeq(c, 1, d)) \o x = h \o SubSeq(c, 1, d + n)
Associate(a, b, c) == (a \o b) \o c = a \o (b \o c)
LEMMA Associates ==
  ASSUME NEW T, NEW a \in Seq(T), NEW b \in Seq(T), NEW c \in Seq(T)
  PROVE  Associate(a, b, c)
BY DEF Associate
LEMMA PieceOfChunk ==
  ASSUME NEW T, NEW w \in Seq(T), NEW c \in Seq(T), NEW h \in Seq(T),
         NEW p \in Nat, NEW d \in Nat, NEW n \in Nat, NEW e \in Nat,
         p + d + n <= e, e <= Len(w), d + n <= Len(c), \A j \in 1..Len(c) : w[p + j] = c[j]
  PROVE  HandsOn(h, c, d, n, SubSeq(Remaining(w, p + d, e), 1, n))
<1>1. PICK r : r = Remaining(w, p + d, e)
  OBVIOUS
<1>2. r \in Seq(T) /\ Len(r) = e - (p + d) /\ \A j \in 1..(e - (p + d)) : r[j] = w[p + d + j]
  BY <1>1 DEF Remaining
<1>3. ASSUME NEW j \in 1..n PROVE r[j] = c[d + j]
  <2>1. j \in 1..(e - (p + d)) /\ d + j \in 1..Len(c) /\ p + d + j = p + (d + j)
    OBVIOUS
  <2> QED
    BY <1>2, <2>1
<1>4. n <= Len(r)
  BY <1>2
<1>5. SubSeq(r, 1, n) = SubSeq(c, d + 1, d + n)
  BY <1>2, <1>3, <1>4
<1>6. SubSeq(c, 1, d) \o SubSeq(c, d + 1, d + n) = SubSeq(c, 1, d + n)
  OBVIOUS
<1>7. SubSeq(c, 1, d) \in Seq(T) /\ SubSeq(c, d + 1, d + n) \in Seq(T)
  OBVIOUS
<1>8. PICK x \in Seq(T) : x = SubSeq(c, 1, d)
  BY <1>7, Zenon
<1>9. PICK y \in Seq(T) : y = SubSeq(c, d + 1, d + n)
  BY <1>7, Zenon
<1>10. Associate(h, x, y)
  BY Associates, Zenon
<1> QED
  BY <1>1, <1>5, <1>6, <1>8, <1>9, <1>10, Zenon DEF HandsOn, Associate

(* The bytes of a chunk, in any pieces. *)
LEMMA DataOfChunk ==
  ASSUME NEW v, Valid(v), InChunk(v, rest, left, out), ChunkData
  PROVE  Reading(v, state', rest', left', out')
<1>1. PICK k \in 0..(Len(v.chunks) - 1) :
        /\ left \in 0..Len(v.chunks[k + 1])
        /\ \/ /\ Behind(v, Start(v, k) + 3 + (Len(v.chunks[k + 1]) - left), rest)
              /\ out = Handed(v)[k] \o SubSeq(v.chunks[k + 1], 1, Len(v.chunks[k + 1]) - left)
           \/ CutOff(v, rest) /\ left > 0
  BY Zenon DEF InChunk
<1>2. PICK c \in Seq(Bytes) : c = v.chunks[k + 1] /\ ChunkBehind(Whole(v), Start(v, k), c)
  <2>1. ChunkBehind(Whole(v), Start(v, k), v.chunks[k + 1])
    BY ChunkLayout
  <2> QED
    BY <2>1, Zenon DEF ChunkBehind
<1>3. PICK w \in Seq(Bytes) : w = Whole(v)
  BY EndLayout
<1>4. PICK e \in Nat : e = End(v)
  BY EndLayout
<1>5. PICK p \in Nat : p = Start(v, k)
  BY ChunkLayout
<1>6. PICK h \in Seq(Bytes) : h = Handed(v)[k] /\ Handed(v)[k + 1] = h \o c
  <2>1. Joins(Handed(v)[k + 1], Handed(v)[k], v.chunks[k + 1], Bytes)
    BY ChunkLayout
  <2> QED
    BY <1>2, <2>1, Zenon DEF Joins
<1>7. PICK z \in Nat : z = Len(c)
  OBVIOUS
<1>8. p + z + 5 < Len(w) /\ Len(w) \in Nat /\ e <= Len(w) /\ (v.cut < 0 => e = Len(w))
  <2>1. p + z + 5 < Len(w)
    BY <1>2, <1>3, <1>5, <1>7, ChunkInside, Zenon
  <2>2. (v.cut < 0 => e = Len(w)) /\ (~(v.cut < 0) => e <= Len(w) - 2)
    BY <1>3, <1>4, EndLayout, Zenon
  <2> QED
    BY <2>1, <2>2
<1>9. left \in 0..z
  BY <1>1, <1>2, <1>7, Zenon
<1>10. CASE CutOff(v, rest) /\ left > 0
  <2>1. rest = <<>> /\ ~(v.cut < 0)
    BY <1>10 DEF CutOff
  <2>2. StreamRead(left) = {}
    BY <2>1 DEF StreamRead
  <2>3. state' = "failed"
    BY <1>9, <1>10, <2>2 DEF ChunkData, Fails
  <2> QED
    BY <2>1, <2>3, FailureReading
<1>11. ASSUME /\ Behind(v, Start(v, k) + 3 + (Len(v.chunks[k + 1]) - left), rest)
              /\ out = Handed(v)[k] \o SubSeq(v.chunks[k + 1], 1, Len(v.chunks[k + 1]) - left)
       PROVE  Reading(v, state', rest', left', out')
  <2>1. PICK d \in Nat : d = z - left
    BY <1>9
  <2>2. PICK a \in Nat : a = p + 3 + d
    OBVIOUS
  <2>3. Behind(v, a, rest) /\ out = h \o SubSeq(c, 1, d)
    BY <1>2, <1>5, <1>6, <1>7, <1>11, <2>1, <2>2, Zenon
  <2>4. a <= e /\ rest = Remaining(w, a, e)
    BY <1>3, <1>4, <2>3, Zenon DEF Behind
  <2>5. PICK r : r = Remaining(w, a, e)
    OBVIOUS
  <2>6. Len(r) = e - a /\ (r = <<>> => a = e)
    <3>1. Len(Remaining(w, a, e)) = e - a
      BY <1>8, <2>4 DEF Remaining
    <3>2. Len(<<>>) = 0
      OBVIOUS
    <3> QED
      BY <2>4, <2>5, <3>1, <3>2
  <2>7. CASE left = 0 /\ state' = "end" /\ UNCHANGED <<rest, left, out>>
    <3>1. d = z /\ a = p + 3 + z
      BY <2>1, <2>2, <2>7
    <3>2. SubSeq(c, 1, z) = c
      BY <1>7
    <3>3. Behind(v, Start(v, k) + 3 + Len(v.chunks[k + 1]), rest') /\ out' = Handed(v)[k + 1]
      <4>1. rest' = rest /\ out' = out
        BY <2>7
      <4> QED
        BY <1>2, <1>5, <1>6, <1>7, <2>3, <3>1, <3>2, <4>1, Zenon
    <3>4. AtEnd(v, rest', out')
      BY <3>3, Zenon DEF AtEnd
    <3> QED
      BY <2>7, <3>4 DEF Reading
  <2>8. CASE left > 0 /\ rest = <<>> /\ state' = "failed"
    <3>1. a = e
      BY <2>4, <2>5, <2>6, <2>8
    <3>2. ~(v.cut < 0)
      BY <1>8, <1>9, <2>1, <2>2, <3>1
    <3> QED
      BY <2>8, <3>2, FailureReading
  <2>9. ASSUME NEW n \in StreamRead(left), out' = out \o SubSeq(rest, 1, n), rest' = Drop(rest, n),
               left' = left - n, state' = state
        PROVE  InChunk(v, rest', left', out')
    <3>1. n \in Nat /\ n <= left /\ a + n <= e /\ d + n <= z /\ left - n \in 0..z
      <4>1. n \in 1..left /\ n <= Len(r)
        BY <2>4, <2>5 DEF StreamRead
      <4> QED
        BY <1>9, <2>1, <2>4, <2>6, <4>1
    <3>2. rest' = Remaining(w, a + n, e)
      BY <1>8, <2>4, <2>9, <3>1, DropRemaining
    <3>3. \A j \in 1..Len(c) : w[p + 3 + j] = c[j]
      BY <1>2, <1>3, <1>5, Zenon DEF ChunkBehind
    <3>4. out' = h \o SubSeq(c, 1, d + n)
      <4>1. PICK b \in Nat : b = p + 3
        OBVIOUS
      <4>2. /\ b + d = a /\ b + d + n <= e /\ e <= Len(w) /\ d + n <= Len(c)
            /\ \A j \in 1..Len(c) : w[b + j] = c[j]
        BY <1>7, <1>8, <2>2, <3>1, <3>3, <4>1
      <4>3. HandsOn(h, c, d, n, SubSeq(Remaining(w, b + d, e), 1, n))
        BY <3>1, <4>2, PieceOfChunk, Zenon
      <4> QED
        BY <2>3, <2>4, <2>9, <4>2, <4>3, Zenon DEF HandsOn
    <3>5. PICK m : m = left - n
      OBVIOUS
    <3>6. z - m = d + n /\ p + 3 + (d + n) = a + n /\ m \in 0..z
      BY <1>9, <2>1, <2>2, <3>1, <3>5
    <3>7. Behind(v, p + 3 + (z - m), rest')
      BY <1>3, <1>4, <3>1, <3>2, <3>6, Zenon DEF Behind
    <3>8. out' = h \o SubSeq(c, 1, z - m)
      BY <3>4, <3>6, Zenon
    <3>9. left' = m
      BY <2>9, <3>5, Zenon
    <3> QED
      BY <1>2, <1>5, <1>6, <1>7, <3>6, <3>7, <3>8, <3>9, Zenon DEF InChunk
  <2>10. ASSUME NEW n \in StreamRead(left), out' = out \o SubSeq(rest, 1, n), rest' = Drop(rest, n),
               left' = left - n, state' = state
         PROVE  Reading(v, state', rest', left', out')
    <3>1. state = "data"
      BY DEF ChunkData
    <3> QED
      BY <2>9, <2>10, <3>1 DEF Reading
  <2> QED
    BY <2>7, <2>8, <2>10 DEF ChunkData, Fails
<1> QED
  BY <1>1, <1>10, <1>11, Zenon

(* The line end behind a chunk. *)
LEMMA EndOfChunk ==
  ASSUME NEW v, Valid(v), AtEnd(v, rest, out), ChunkEnd
  PROVE  Reading(v, state', rest', left', out')
<1>1. PICK k \in 0..(Len(v.chunks) - 1) :
        Behind(v, Start(v, k) + 3 + Len(v.chunks[k + 1]), rest) /\ out = Handed(v)[k + 1]
  BY Zenon DEF AtEnd
<1>2. PICK c \in Seq(Bytes) : c = v.chunks[k + 1] /\ ChunkBehind(Whole(v), Start(v, k), c)
  <2>1. ChunkBehind(Whole(v), Start(v, k), v.chunks[k + 1])
    BY ChunkLayout
  <2> QED
    BY <2>1, Zenon DEF ChunkBehind
<1>3. PICK w \in Seq(Bytes) : w = Whole(v)
  BY EndLayout
<1>4. PICK s \in Nat : s = Start(v, k)
  BY ChunkLayout
<1>5. PICK z \in Nat : z = Len(c)
  OBVIOUS
<1>6. PICK p \in Nat : p = s + 3 + z
  OBVIOUS
<1>7. Behind(v, p, rest)
  BY <1>1, <1>2, <1>4, <1>5, <1>6, Zenon
<1>8. w[s + z + 4] = CR /\ w[s + z + 5] = LF /\ s + z + 5 < Len(w)
  <2>1. w[s + z + 4] = CR /\ w[s + z + 5] = LF
    BY <1>2, <1>3, <1>4, <1>5, Zenon DEF ChunkBehind
  <2>2. s + z + 5 < Len(w)
    BY <1>2, <1>3, <1>4, <1>5, ChunkInside, Zenon
  <2> QED
    BY <2>1, <2>2
<1>9. w[p + 1] = CR /\ w[p + 2] = LF /\ p + 2 < Len(w) /\ p + 2 \in Nat /\ p + 2 = s + z + 5 /\ (p + 2) - p = 2
  BY <1>6, <1>8
<1>10. LineFeedAt(w, p, p + 2)
  <2>1. w[p + 1] # LF
    BY <1>9 DEF CR, LF
  <2> QED
    BY <1>9, <2>1, LineOfTwo, Zenon
<1>11. /\ rest' = Drop(rest, Len(Line)) /\ out' = out
       /\ state' = IF Line = Crlf /\ rest # <<>> THEN "size" ELSE "failed"
  BY DEF ChunkEnd, Getline
<1>12. Took(v, p, p + 2, rest') \/ TookLess(v, p, p + 2, rest') \/ CutOff(v, rest)
  BY <1>3, <1>7, <1>9, <1>10, <1>11, LineRead, Zenon
<1>13. CASE CutOff(v, rest)
  <2>1. state' = "failed" /\ ~(v.cut < 0)
    BY <1>11, <1>13 DEF CutOff
  <2> QED
    BY <2>1, FailureReading
<1>14. CASE TookLess(v, p, p + 2, rest')
  <2>1. Line \in Seq(Bytes) /\ Len(Line) < 2 /\ ~(v.cut < 0)
    BY <1>9, <1>14, Zenon DEF TookLess, CutOff
  <2>2. ~IsCrlf(Line)
    BY <2>1 DEF IsCrlf
  <2>3. Line # Crlf
    BY <2>1, <2>2, CrlfIs, Zenon
  <2> QED
    BY <1>11, <2>1, <2>3, FailureReading
<1>15. CASE Took(v, p, p + 2, rest')
  <2>1. /\ rest # <<>> /\ Line \in Seq(Bytes) /\ Len(Line) = (p + 2) - p
        /\ \A j \in 1..((p + 2) - p) : Line[j] = w[p + j]
        /\ Behind(v, p + 2, rest')
    BY <1>3, <1>15, Zenon DEF Took
  <2>2. IsCrlf(Line)
    BY <1>9, <2>1 DEF IsCrlf
  <2>3. state' = "size"
    BY <1>11, <2>1, <2>2, CrlfIs, Zenon
  <2>4. AtSize(v, rest', out')
    <3>1. Start(v, k + 1) = p + 2
      BY <1>2, <1>4, <1>5, <1>9, ChunkLayout, Zenon
    <3>2. k + 1 \in 0..Len(v.chunks)
      <4>1. Len(v.chunks) \in Nat
        BY EndLayout
      <4> QED
        BY <4>1
    <3> QED
      BY <1>1, <1>11, <2>1, <3>1, <3>2, Zenon DEF AtSize
  <2> QED
    BY <2>3, <2>4 DEF Reading
<1> QED
  BY <1>12, <1>13, <1>14, <1>15

(* The empty line that ends the body. *)
LEMMA EmptyLine ==
  ASSUME NEW v, Valid(v), NEW p \in Nat, Behind(v, p, rest), ~v.bad, out = Handed(v)[Len(v.chunks)],
         Whole(v)[p + 1] = CR, Whole(v)[p + 2] = LF, Whole(v)[p + 3] = "next", Len(Whole(v)) = p + 3, Trailer
  PROVE  Reading(v, state', rest', left', out')
<1>1. PICK w \in Seq(Bytes) : w = Whole(v)
  BY EndLayout
<1>2. w[p + 1] = CR /\ w[p + 2] = LF /\ w[p + 3] = "next" /\ Len(w) = p + 3
  BY <1>1
<1>3. p + 2 < Len(w) /\ p + 2 \in Nat /\ (p + 2) - p = 2
  BY <1>2
<1>4. LineFeedAt(w, p, p + 2)
  <2>1. w[p + 1] # LF
    BY <1>2 DEF CR, LF
  <2> QED
    BY <1>2, <2>1, LineOfTwo, Zenon
<1>5. /\ rest' = Drop(rest, Len(Line)) /\ out' = out
      /\ state' = IF rest = <<>> THEN "failed" ELSE IF Line = Crlf THEN "done" ELSE "trailer"
  BY DEF Trailer, Getline
<1>6. Took(v, p, p + 2, rest') \/ TookLess(v, p, p + 2, rest') \/ CutOff(v, rest)
  BY <1>1, <1>3, <1>4, <1>5, LineRead, Zenon
<1>7. CASE CutOff(v, rest)
  <2>1. state' = "failed" /\ ~(v.cut < 0)
    BY <1>5, <1>7 DEF CutOff
  <2> QED
    BY <2>1, FailureReading
<1>8. CASE TookLess(v, p, p + 2, rest')
  <2>1. Line \in Seq(Bytes) /\ Len(Line) < 2 /\ rest # <<>> /\ CutOff(v, rest')
    BY <1>3, <1>8, Zenon DEF TookLess
  <2>2. ~IsCrlf(Line)
    BY <2>1 DEF IsCrlf
  <2>3. Line # Crlf
    BY <2>1, <2>2, CrlfIs, Zenon
  <2>4. state' = "trailer"
    BY <1>5, <2>1, <2>3
  <2>5. AtTrailer(v, rest', out')
    BY <1>5, <2>1, Zenon DEF AtTrailer
  <2> QED
    BY <2>4, <2>5 DEF Reading
<1>9. CASE Took(v, p, p + 2, rest')
  <2>1. /\ rest # <<>> /\ Line \in Seq(Bytes) /\ Len(Line) = (p + 2) - p
        /\ \A j \in 1..((p + 2) - p) : Line[j] = w[p + j]
        /\ Behind(v, p + 2, rest')
    BY <1>1, <1>9, Zenon DEF Took
  <2>2. IsCrlf(Line)
    BY <1>2, <1>3, <2>1 DEF IsCrlf
  <2>3. state' = "done"
    BY <1>5, <2>1, <2>2, CrlfIs, Zenon
  <2>4. PICK e \in Nat : e = End(v)
    BY EndLayout
  <2>5. (v.cut < 0 => e = Len(w)) /\ (~(v.cut < 0) => e <= Len(w) - 2)
    BY <1>1, <2>4, EndLayout, Zenon
  <2>6. p + 2 <= e /\ rest' = Remaining(w, p + 2, e)
    BY <1>1, <2>1, <2>4, Zenon DEF Behind
  <2>7. v.cut < 0 /\ e = p + 3
    BY <1>2, <2>5, <2>6
  <2>8. rest' = NextResponse
    <3>0. PICK r : r = Remaining(w, p + 2, p + 3)
      OBVIOUS
    <3>1. r = <<"next">>
      <4>1. (p + 2) + 1 = p + 3
        OBVIOUS
      <4>2. r = SubSeq(w, p + 3, p + 3)
        BY <3>0, <4>1, Zenon DEF Remaining
      <4>3. r \in Seq(Bytes) /\ Len(r) = 1 /\ r[1] = w[p + 3]
        BY <1>2, <4>2
      <4>4. PICK x : x = r[1]
        OBVIOUS
      <4>5. r = <<x>>
        BY <4>3, <4>4
      <4> QED
        BY <1>2, <4>3, <4>4, <4>5, Zenon
    <3>2. rest' = r
      BY <2>6, <2>7, <3>0, Zenon
    <3> QED
      BY <3>1, <3>2, Zenon DEF NextResponse
  <2>9. AtNextResponse(v, rest', out')
    BY <1>5, <2>7, <2>8, Zenon DEF AtNextResponse
  <2> QED
    BY <2>3, <2>9 DEF Reading
<1> QED
  BY <1>6, <1>7, <1>8, <1>9

(* The lines behind the last size. *)
LEMMA EndOfBody ==
  ASSUME NEW v, Valid(v), AtTrailer(v, rest, out), Trailer
  PROVE  Reading(v, state', rest', left', out')
<1>1. PICK w \in Seq(Bytes) : w = Whole(v)
  BY EndLayout
<1>2. PICK s \in Nat : s = Start(v, Len(v.chunks))
  BY EndLayout
<1>3. EndBehind(w, s, v)
  BY <1>1, <1>2, EndLayout, Zenon
<1>4. PICK p \in Nat : p = s + 3
  OBVIOUS
<1>5. PICK q \in Nat : q = s + 6
  OBVIOUS
<1>6. /\ ~v.bad /\ out = Handed(v)[Len(v.chunks)]
      /\ Behind(v, p, rest) \/ (v.trailer /\ Behind(v, q, rest)) \/ CutOff(v, rest)
  BY <1>2, <1>4, <1>5, Zenon DEF AtTrailer
<1>7. /\ rest' = Drop(rest, Len(Line)) /\ out' = out
      /\ state' = IF rest = <<>> THEN "failed" ELSE IF Line = Crlf THEN "done" ELSE "trailer"
  BY DEF Trailer, Getline
<1>8. CASE CutOff(v, rest)
  <2>1. state' = "failed" /\ ~(v.cut < 0)
    BY <1>7, <1>8 DEF CutOff
  <2> QED
    BY <2>1, FailureReading
<1>9. CASE v.trailer /\ Behind(v, q, rest)
  <2>1. w[s + 7] = CR /\ w[s + 8] = LF /\ w[s + 9] = "next" /\ Len(w) = s + 9
    BY <1>3, <1>9, Zenon DEF EndBehind
  <2>2. w[q + 1] = CR /\ w[q + 2] = LF /\ w[q + 3] = "next" /\ Len(w) = q + 3
    BY <1>5, <2>1
  <2> QED
    BY <1>1, <1>6, <1>9, <2>2, EmptyLine, Zenon
<1>10. CASE ~v.trailer /\ Behind(v, p, rest)
  <2>1. w[s + 4] = CR /\ w[s + 5] = LF /\ w[s + 6] = "next" /\ Len(w) = s + 6
    BY <1>3, <1>10, Zenon DEF EndBehind
  <2>2. w[p + 1] = CR /\ w[p + 2] = LF /\ w[p + 3] = "next" /\ Len(w) = p + 3
    BY <1>4, <2>1
  <2> QED
    BY <1>1, <1>6, <1>10, <2>2, EmptyLine, Zenon
<1>11. CASE v.trailer /\ Behind(v, p, rest)
  <2>1. w[s + 4] = "trailer" /\ w[s + 5] = CR /\ w[s + 6] = LF /\ Len(w) = s + 9
    BY <1>3, <1>11, Zenon DEF EndBehind
  <2>2. /\ w[p + 1] = "trailer" /\ w[p + 2] = CR /\ w[p + 3] = LF /\ p + 3 < Len(w)
        /\ p + 3 \in Nat /\ p + 3 = q
    BY <1>4, <1>5, <2>1
  <2>3. LineFeedAt(w, p, p + 3)
    <3>1. w[p + 1] # LF /\ w[p + 2] # LF
      BY <2>2 DEF CR, LF
    <3> QED
      BY <2>2, <3>1, LineOfThree, Zenon
  <2>4. Took(v, p, p + 3, rest') \/ TookLess(v, p, p + 3, rest') \/ CutOff(v, rest)
    BY <1>1, <1>7, <1>11, <2>2, <2>3, LineRead, Zenon
  <2>5. ASSUME Took(v, p, p + 3, rest') \/ TookLess(v, p, p + 3, rest')
        PROVE  Reading(v, state', rest', left', out')
    <3>1. Line \in Seq(Bytes) /\ Line[1] = "trailer" /\ rest # <<>>
      BY <1>1, <2>2, <2>5, Zenon DEF Took, TookLess
    <3>2. ~IsCrlf(Line)
      BY <3>1 DEF IsCrlf, CR
    <3>3. Line # Crlf
      BY <3>1, <3>2, CrlfIs, Zenon
    <3>4. state' = "trailer"
      BY <1>7, <3>1, <3>3
    <3>5. Behind(v, q, rest') \/ CutOff(v, rest')
      BY <2>2, <2>5, Zenon DEF Took, TookLess
    <3>6. AtTrailer(v, rest', out')
      BY <1>2, <1>5, <1>6, <1>7, <1>11, <3>5, Zenon DEF AtTrailer
    <3> QED
      BY <3>4, <3>6 DEF Reading
  <2> QED
    BY <1>8, <2>4, <2>5
<1> QED
  BY <1>6, <1>8, <1>9, <1>10, <1>11

-----------------------------------------------------------------------------
LEMMA InputsValid ==
  ASSUME NEW i \in Inputs, i.kind = "chunked"
  PROVE  Valid(i.value)
BY FormatInputs DEF Valid

LEMMA ChunkedInit == Init => ChunkedInv
<1> SUFFICES ASSUME Init PROVE ChunkedInv
  OBVIOUS
<1>1. input \in Inputs /\ ~parsing /\ out = <<>>
  BY DEF Init
<1>2. ASSUME input.kind = "chunked" PROVE Reading(input.value, state, rest, left, out)
  <2>1. PICK v : v = input.value
    OBVIOUS
  <2>2. Valid(v)
    BY <1>1, <1>2, <2>1, InputsValid
  <2>3. rest = Stream(v) /\ state = "size"
    BY <1>2, <2>1 DEF Init
  <2>4. /\ Len(v.chunks) \in Nat /\ Start(v, 0) = 0 /\ Handed(v)[0] = <<>> /\ End(v) \in Nat
        /\ Stream(v) = SubSeq(Whole(v), 1, End(v))
    BY <2>2, EndLayout, Zenon
  <2>5. 0 + 1 = 1 /\ 0 <= End(v) /\ 0 \in 0..Len(v.chunks)
    BY <2>4
  <2>6. Behind(v, Start(v, 0), rest)
    BY <2>3, <2>4, <2>5, Zenon DEF Behind, Remaining
  <2>7. AtSize(v, rest, out)
    BY <1>1, <2>4, <2>5, <2>6, Zenon DEF AtSize
  <2>8. Reading(v, state, rest, left, out)
    BY <2>3, <2>7 DEF Reading
  <2> QED
    BY <2>1, <2>8, Zenon
<1> QED
  BY <1>1, <1>2 DEF ChunkedInv

LEMMA ChunkedStep == ChunkedInv /\ [Next]_vars => ChunkedInv'
<1> SUFFICES ASSUME ChunkedInv, [Next]_vars PROVE ChunkedInv'
  OBVIOUS
<1>1. input' = input
  BY DEF Next, vars, Parse, Emptied, InitialBoundary, NewEntry, Header, Body, BoundaryEnd,
         ChunkSize, ChunkData, ChunkEnd, Trailer
<1>2. CASE input.kind # "chunked"
  BY <1>1, <1>2 DEF ChunkedInv
<1>3. CASE input.kind = "chunked"
  <2>1. PICK v : v = input.value
    OBVIOUS
  <2>2. Valid(v) /\ ~parsing /\ Reading(v, state, rest, left, out)
    BY <1>3, <2>1, InputsValid DEF ChunkedInv
  <2>3. ~(Parse \/ Emptied \/ InitialBoundary \/ NewEntry \/ Header \/ Body \/ BoundaryEnd)
    BY <1>3, <2>2 DEF Parse, Emptied, InitialBoundary, NewEntry, Header, Body, BoundaryEnd, Loop
  <2>4. CASE ChunkSize
    <3>1. AtSize(v, rest, out)
      BY <2>2, <2>4 DEF Reading, ChunkSize, Getline
    <3>2. PICK k \in 0..Len(v.chunks) : Behind(v, Start(v, k), rest) /\ out = Handed(v)[k]
      BY <3>1, Zenon DEF AtSize
    <3>3. k = Len(v.chunks) \/ k \in 0..(Len(v.chunks) - 1)
      <4>1. Len(v.chunks) \in Nat
        BY <2>2, EndLayout
      <4> QED
        BY <4>1
    <3>4. Reading(v, state', rest', left', out')
      BY <2>2, <2>4, <3>2, <3>3, SizeOfChunk, SizeOfEnd, Zenon
    <3>5. parsing' = parsing
      BY <2>4 DEF ChunkSize, multipart
    <3> QED
      BY <1>1, <2>1, <2>2, <3>4, <3>5 DEF ChunkedInv
  <2>5. CASE ChunkData
    <3>1. InChunk(v, rest, left, out)
      BY <2>2, <2>5 DEF Reading, ChunkData
    <3>2. Reading(v, state', rest', left', out')
      BY <2>2, <2>5, <3>1, DataOfChunk, Zenon
    <3>3. parsing' = parsing
      BY <2>5 DEF ChunkData, multipart
    <3> QED
      BY <1>1, <2>1, <2>2, <3>2, <3>3 DEF ChunkedInv
  <2>6. CASE ChunkEnd
    <3>1. AtEnd(v, rest, out)
      BY <2>2, <2>6 DEF Reading, ChunkEnd, Getline
    <3>2. Reading(v, state', rest', left', out')
      BY <2>2, <2>6, <3>1, EndOfChunk, Zenon
    <3>3. parsing' = parsing
      BY <2>6 DEF ChunkEnd, multipart
    <3> QED
      BY <1>1, <2>1, <2>2, <3>2, <3>3 DEF ChunkedInv
  <2>7. CASE Trailer
    <3>1. AtTrailer(v, rest, out)
      BY <2>2, <2>7 DEF Reading, Trailer, Getline
    <3>2. Reading(v, state', rest', left', out')
      BY <2>2, <2>7, <3>1, EndOfBody, Zenon
    <3>3. parsing' = parsing
      BY <2>7 DEF Trailer, multipart
    <3> QED
      BY <1>1, <2>1, <2>2, <3>2, <3>3 DEF ChunkedInv
  <2>8. CASE UNCHANGED vars
    BY <2>8 DEF ChunkedInv, vars
  <2> QED
    BY <2>3, <2>4, <2>5, <2>6, <2>7, <2>8 DEF Next
<1> QED
  BY <1>2, <1>3

LEMMA ChunkedInvExact == ChunkedInv => ChunkedIsExact
<1> SUFFICES ASSUME ChunkedInv, input.kind = "chunked"
             PROVE  /\ state = "done" => /\ input.value.cut < 0 /\ ~input.value.bad /\ rest = NextResponse
                                         /\ out = FlattenSeq(input.value.chunks)
                    /\ state = "failed" => input.value.cut >= 0 \/ input.value.bad
  BY DEF ChunkedIsExact
<1>1. PICK v : v = input.value
  OBVIOUS
<1>2. Valid(v) /\ Reading(v, state, rest, left, out)
  BY <1>1, InputsValid DEF ChunkedInv
<1>3. ASSUME state = "done" PROVE v.cut < 0 /\ ~v.bad /\ rest = NextResponse /\ out = FlattenSeq(v.chunks)
  <2>1. AtNextResponse(v, rest, out)
    BY <1>2, <1>3 DEF Reading
  <2>2. Handed(v)[Len(v.chunks)] = FlattenSeq(v.chunks)
    BY <1>2, EndLayout, Zenon
  <2> QED
    BY <2>1, <2>2, Zenon DEF AtNextResponse
<1>4. ASSUME state = "failed" PROVE v.cut >= 0 \/ v.bad
  <2>1. ~(v.cut < 0) \/ v.bad
    BY <1>2, <1>4 DEF Reading
  <2>2. v.cut \in Int
    <3>1. PICK n : n = Len(Chunks(v))
      OBVIOUS
    <3>2. v.cut \in -1..(n - 1)
      BY <1>2, <3>1, Zenon DEF Valid
    <3> QED
      BY <3>2
  <2> QED
    BY <2>1, <2>2
<1> QED
  BY <1>1, <1>3, <1>4, Zenon

(***************************************************************************)
(* What read_content_chunked accepts is what was sent, and what it refuses *)
(* was cut off or has no length where one belongs (httplib.cpp:349-373,    *)
(* 1613-1665), for any number of chunks, any bytes in them, line ends and  *)
(* sizes included, any place of the cut and any pieces of a read.          *)
(***************************************************************************)
THEOREM FormatsChunkedIsExact == Spec => []ChunkedIsExact
<1>1. Spec => []ChunkedInv
  BY ChunkedInit, ChunkedStep, PTL DEF Spec
<1> QED
  BY <1>1, ChunkedInvExact, PTL

-----------------------------------------------------------------------------
(***************************************************************************)
(* The multipart parser.  What a body looks like on the wire, by           *)
(* positions: part k + 1 of v begins behind position At(v, k), and the     *)
(* last boundary behind At(v, Len(v)).                                     *)
(***************************************************************************)
Item == [name : STRING \ Types, type : Types \union {""}, content : Seq(Symbols)]
Letters == Symbols \union STRING \union Types \union {"", "-", "b", CR, LF}

Serialized(v) == [i \in DOMAIN v |-> SerializeItem(v[i])]
Wire(v) == SerializeMultipartFormdata(v)
(* The length of a part's headers. *)
HeadOf(m) == IF m.type = "" THEN 10 ELSE 13
Written(v) == CHOOSE f : Accumulates(f, Serialized(v), Letters)
At(v, k) == Len(Written(v)[k])
ContentAt(v, k) == At(v, k) + HeadOf(v[k + 1])
DelimiterAt(v, k) == ContentAt(v, k) + Len(v[k + 1].content)

(* The headers of a part, the part behind position a, and the end.         *)
IsHead(w, a, m) ==
  /\ w[a + 1] = "-" /\ w[a + 2] = "-" /\ w[a + 3] = "b" /\ w[a + 4] = CR /\ w[a + 5] = LF
  /\ w[a + 6] = m.name /\ w[a + 7] = CR /\ w[a + 8] = LF
  /\ IF m.type = "" THEN w[a + 9] = CR /\ w[a + 10] = LF
     ELSE w[a + 9] = m.type /\ w[a + 10] = CR /\ w[a + 11] = LF /\ w[a + 12] = CR /\ w[a + 13] = LF
IsRest(w, c, m) ==
  /\ \A j \in 1..Len(m.content) : w[c + j] = m.content[j]
  /\ w[c + Len(m.content) + 1] = CR /\ w[c + Len(m.content) + 2] = LF
IsLast(w, a) ==
  /\ w[a + 1] = "-" /\ w[a + 2] = "-" /\ w[a + 3] = "b" /\ w[a + 4] = "-" /\ w[a + 5] = "-"
  /\ w[a + 6] = CR /\ w[a + 7] = LF /\ Len(w) = a + 7

(* A symbol, or a line end, more. *)
LEMMA OneMore ==
  ASSUME NEW T, NEW s \in Seq(T), NEW x \in T, NEW r, r = s \o <<x>>
  PROVE  /\ r \in Seq(T) /\ Len(r) = Len(s) + 1 /\ r[Len(s) + 1] = x
         /\ \A n \in 1..Len(s) : r[n] = s[n]
OBVIOUS
LineEnded(r, s) ==
  /\ Len(s) \in Nat /\ Len(r) = Len(s) + 2 /\ r[Len(s) + 1] = CR /\ r[Len(s) + 2] = LF
  /\ \A n \in 1..Len(s) : r[n] = s[n]
LEMMA LineEndMore ==
  ASSUME NEW T, NEW s \in Seq(T), CR \in T, LF \in T
  PROVE  \E r \in Seq(T) : r = s \o Crlf /\ LineEnded(r, s)
<1>1. PICK r : r = s \o Crlf
  OBVIOUS
<1>2. r \in Seq(T) /\ LineEnded(r, s)
  BY <1>1 DEF Crlf, LineEnded
<1> QED
  BY <1>1, <1>2, Zenon

LEMMA LettersHave ==
  /\ "-" \in Letters /\ "b" \in Letters /\ CR \in Letters /\ LF \in Letters
  /\ \A m \in Item : m.name \in Letters /\ m.type \in Letters /\ m.content \in Seq(Letters)
<1>1. ASSUME NEW m \in Item PROVE m.content \in Seq(Letters)
  <2>1. PICK c \in Seq(Symbols) : c = m.content
    BY DEF Item
  <2>2. Symbols \subseteq Letters
    BY DEF Letters
  <2>3. c \in Seq(Letters)
    BY <2>2
  <2> QED
    BY <2>1, <2>3
<1>2. ASSUME NEW m \in Item PROVE m.name \in Letters /\ m.type \in Letters
  BY DEF Item, Letters
<1> QED
  BY <1>1, <1>2 DEF Letters

LEMMA BoundaryLine ==
  \E d \in Seq(Letters) : d = DashBoundaryCrlf /\ Len(d) = 5 /\ d[1] = "-" /\ d[2] = "-" /\ d[3] = "b" /\ d[4] = CR /\ d[5] = LF
<1>0. CR \in Letters /\ LF \in Letters /\ "-" \in Letters /\ "b" \in Letters
  BY LettersHave
<1>1. PICK s : s = Dash \o Boundary
  OBVIOUS
<1>2. s \in Seq(Letters) /\ Len(s) = 3 /\ s[1] = "-" /\ s[2] = "-" /\ s[3] = "b"
  BY <1>0, <1>1 DEF Dash, Boundary
<1>3. PICK d \in Seq(Letters) : d = s \o Crlf /\ LineEnded(d, s)
  BY <1>0, <1>2, LineEndMore, Zenon
<1>4. LineEnded(d, s)
  BY <1>3, Zenon
<1>5. Len(d) = 5 /\ d[1] = "-" /\ d[2] = "-" /\ d[3] = "b" /\ d[4] = CR /\ d[5] = LF
  BY <1>2, <1>4 DEF LineEnded
<1>6. d = DashBoundaryCrlf
  BY <1>1, <1>3, Zenon DEF DashBoundaryCrlf
<1> QED
  BY <1>5, <1>6, Zenon

(* The boundary line and the first header. *)
IsFirstLines(a, x) ==
  /\ Len(a) = 8 /\ a[1] = "-" /\ a[2] = "-" /\ a[3] = "b" /\ a[4] = CR /\ a[5] = LF
  /\ a[6] = x /\ a[7] = CR /\ a[8] = LF
LEMMA FirstLines ==
  ASSUME NEW x \in Letters
  PROVE  \E a \in Seq(Letters) : a = DashBoundaryCrlf \o <<x>> \o Crlf /\ IsFirstLines(a, x)
<1>0. CR \in Letters /\ LF \in Letters
  BY LettersHave
<1>1. PICK d \in Seq(Letters) :
        d = DashBoundaryCrlf /\ Len(d) = 5 /\ d[1] = "-" /\ d[2] = "-" /\ d[3] = "b" /\ d[4] = CR /\ d[5] = LF
  BY BoundaryLine
<1>2. PICK e : e = d \o <<x>>
  OBVIOUS
<1>3. e \in Seq(Letters) /\ Len(e) = Len(d) + 1 /\ e[Len(d) + 1] = x /\ \A n \in 1..Len(d) : e[n] = d[n]
  BY <1>2, OneMore
<1>4. Len(e) = 6 /\ e[1] = "-" /\ e[2] = "-" /\ e[3] = "b" /\ e[4] = CR /\ e[5] = LF /\ e[6] = x
  BY <1>1, <1>3
<1>5. PICK a \in Seq(Letters) : a = e \o Crlf /\ LineEnded(a, e)
  BY <1>0, <1>3, LineEndMore, Zenon
<1>6. LineEnded(a, e)
  BY <1>5, Zenon
<1>7. IsFirstLines(a, x)
  BY <1>4, <1>6 DEF LineEnded, IsFirstLines
<1> QED
  BY <1>1, <1>2, <1>5, <1>7, Zenon

LEMMA HeadIs ==
  ASSUME NEW m \in Item
  PROVE  \E h \in Seq(Letters) : SerializeItem(m) = (h \o m.content) \o Crlf /\ IsHead(h, 0, m) /\ Len(h) = HeadOf(m)
<1>0. CR \in Letters /\ LF \in Letters
  BY LettersHave
<1>1. PICK x \in Letters : x = m.name
  BY LettersHave
<1>2. PICK a \in Seq(Letters) : a = DashBoundaryCrlf \o <<x>> \o Crlf /\ IsFirstLines(a, x)
  BY FirstLines, Zenon
<1>3. IsFirstLines(a, x)
  BY <1>2, Zenon
<1>4. CASE m.type = ""
  <2>1. a \o <<>> = a
    OBVIOUS
  <2>2. PICK h \in Seq(Letters) : h = a \o Crlf /\ LineEnded(h, a)
    BY <1>0, LineEndMore, Zenon
  <2>3. SerializeItem(m) = (h \o m.content) \o Crlf
    BY <1>1, <1>2, <1>4, <2>1, <2>2, Zenon DEF SerializeItem
  <2>4. LineEnded(h, a)
    BY <2>2, Zenon
  <2>5. /\ h[0 + 1] = "-" /\ h[0 + 2] = "-" /\ h[0 + 3] = "b" /\ h[0 + 4] = CR /\ h[0 + 5] = LF
        /\ h[0 + 6] = x /\ h[0 + 7] = CR /\ h[0 + 8] = LF /\ h[0 + 9] = CR /\ h[0 + 10] = LF /\ Len(h) = 10
    BY <1>3, <2>4 DEF IsFirstLines, LineEnded
  <2>6. IsHead(h, 0, m)
    BY <1>1, <1>4, <2>5, Zenon DEF IsHead
  <2> QED
    BY <1>4, <2>3, <2>5, <2>6, Zenon DEF HeadOf
<1>5. CASE m.type # ""
  <2>0. PICK y \in Letters : y = m.type
    BY LettersHave
  <2>1. PICK t : t = <<y>> \o Crlf
    OBVIOUS
  <2>2. t \in Seq(Letters) /\ Len(t) = 3 /\ t[1] = y /\ t[2] = CR /\ t[3] = LF
    BY <1>0, <2>1 DEF Crlf
  <2>3. PICK g : g = a \o t
    OBVIOUS
  <2>4. Joins(g, a, t, Letters)
    BY <2>2, <2>3, Zenon DEF Joins
  <2>5. /\ g \in Seq(Letters) /\ Len(g) = Len(a) + Len(t)
        /\ \A n \in 1..Len(a) : g[n] = a[n]
        /\ \A n \in 1..Len(t) : g[Len(a) + n] = t[n]
    BY <2>4, Joined
  <2>6. /\ Len(g) = 11 /\ g[1] = "-" /\ g[2] = "-" /\ g[3] = "b" /\ g[4] = CR /\ g[5] = LF
        /\ g[6] = x /\ g[7] = CR /\ g[8] = LF /\ g[9] = y /\ g[10] = CR /\ g[11] = LF
    <3>1. Len(a) = 8
      BY <1>3, Zenon DEF IsFirstLines
    <3>2. g[8 + 1] = t[1] /\ g[8 + 2] = t[2] /\ g[8 + 3] = t[3]
      <4>1. \A n \in 1..3 : g[8 + n] = t[n]
        BY <2>2, <2>5, <3>1, Zenon
      <4> QED
        BY <4>1
    <3>3. \A n \in 1..8 : g[n] = a[n]
      BY <2>5, <3>1, Zenon
    <3>4. Len(g) = 11
      BY <2>2, <2>5, <3>1
    <3> QED
      BY <1>3, <2>2, <3>2, <3>3, <3>4 DEF IsFirstLines
  <2>7. PICK h \in Seq(Letters) : h = g \o Crlf /\ LineEnded(h, g)
    BY <1>0, <2>5, LineEndMore, Zenon
  <2>8. SerializeItem(m) = (h \o m.content) \o Crlf
    BY <1>1, <1>2, <1>5, <2>0, <2>1, <2>3, <2>7, Zenon DEF SerializeItem
  <2>9. LineEnded(h, g)
    BY <2>7, Zenon
  <2>10. /\ h[0 + 1] = "-" /\ h[0 + 2] = "-" /\ h[0 + 3] = "b" /\ h[0 + 4] = CR /\ h[0 + 5] = LF
        /\ h[0 + 6] = x /\ h[0 + 7] = CR /\ h[0 + 8] = LF /\ h[0 + 9] = y /\ h[0 + 10] = CR /\ h[0 + 11] = LF
        /\ h[0 + 12] = CR /\ h[0 + 13] = LF /\ Len(h) = 13
    BY <2>6, <2>9 DEF LineEnded
  <2>11. IsHead(h, 0, m)
    BY <1>1, <1>5, <2>0, <2>10, Zenon DEF IsHead
  <2> QED
    BY <1>5, <2>8, <2>10, <2>11, Zenon DEF HeadOf
<1> QED
  BY <1>4, <1>5

-----------------------------------------------------------------------------
(***************************************************************************)
(* Finding: s stands in w behind position x.                               *)
(***************************************************************************)
OccursAt(w, s, x) == \A i \in 1..Len(s) : w[x + i] = s[i]

LEMMA SameSequence ==
  ASSUME NEW T, NEW u \in Seq(T), NEW s \in Seq(T), Len(u) = Len(s), \A i \in 1..Len(s) : u[i] = s[i]
  PROVE  u = s
OBVIOUS

LEMMA CutOut ==
  ASSUME NEW T, NEW w \in Seq(T), NEW s \in Seq(T), NEW x \in Nat, x + Len(s) <= Len(w)
  PROVE  SubSeq(w, x + 1, x + Len(s)) = s <=> OccursAt(w, s, x)
<1>0. PICK n \in Nat : n = Len(s)
  OBVIOUS
<1>1. PICK u : u = SubSeq(w, x + 1, x + n)
  OBVIOUS
<1>2. u \in Seq(T) /\ Len(u) = n /\ \A i \in 1..n : u[i] = w[x + i]
  <2>1. PICK e \in Nat : e = x + n
    OBVIOUS
  <2>2. x <= e /\ e <= Len(w) /\ e - x = n
    BY <1>0, <2>1
  <2>3. u = Remaining(w, x, e)
    BY <1>1, <2>1, Zenon DEF Remaining
  <2>4. u \in Seq(T) /\ Len(u) = e - x /\ \A j \in 1..(e - x) : u[j] = w[x + j]
    BY <2>2, <2>3 DEF Remaining
  <2> QED
    BY <2>2, <2>4, Zenon
<1>3. u = s <=> \A i \in 1..n : u[i] = s[i]
  BY <1>0, <1>2, SameSequence
<1> QED
  BY <1>0, <1>1, <1>2, <1>3 DEF OccursAt

(* buf_find, for a text that is not empty. *)
FindsNone(b, s, n) == n = Len(b) /\ \A x \in 0..(Len(b) - Len(s)) : ~OccursAt(b, s, x)
FindsAt(b, s, n) ==
  /\ n \in Nat /\ n + Len(s) <= Len(b) /\ OccursAt(b, s, n)
  /\ \A x \in 0..(n - 1) : ~OccursAt(b, s, x)
LEMMA FindFinds ==
  ASSUME NEW T, buf \in Seq(T), NEW s \in Seq(T), Len(s) > 0
  PROVE  FindsNone(buf, s, Find(s)) \/ FindsAt(buf, s, Find(s))
<1> DEFINE at == {p \in 0..(Len(buf) - Len(s)) : SubSeq(buf, p + 1, p + Len(s)) = s}
<1>0. Len(buf) \in Nat /\ Len(s) \in Nat
  OBVIOUS
<1>1. \A x \in 0..(Len(buf) - Len(s)) : x \in at <=> OccursAt(buf, s, x)
  <2> TAKE x \in 0..(Len(buf) - Len(s))
  <2>1. x \in Nat /\ x + Len(s) <= Len(buf)
    BY <1>0
  <2> QED
    BY <2>1, CutOut
<1>2. Find(s) = IF at = {} THEN Len(buf) ELSE Min(at)
  BY DEF Find
<1>3. at \subseteq 0..(Len(buf) - Len(s))
  OBVIOUS
<1> HIDE DEF at
<1>4. CASE at = {}
  BY <1>1, <1>2, <1>4 DEF FindsNone
<1>5. CASE at # {}
  <2>1. \E x \in at : \A y \in at : x <= y
    <3>1. at \in SUBSET Nat
      BY <1>3
    <3> QED
      BY <1>5, <3>1, LeastNatural
  <2>2. Min(at) \in at /\ \A y \in at : Min(at) <= y
    BY <2>1, Zenon DEF Min
  <2>3. PICK n : n = Min(at)
    OBVIOUS
  <2>4. n \in at /\ \A y \in at : n <= y
    BY <2>2, <2>3, Zenon
  <2>5. n \in Nat /\ n + Len(s) <= Len(buf)
    BY <1>0, <1>3, <2>4
  <2>6. \A x \in 0..(n - 1) : x \in 0..(Len(buf) - Len(s)) /\ x \notin at
    BY <1>0, <2>4, <2>5
  <2>7. FindsAt(buf, s, n)
    BY <1>1, <1>3, <2>4, <2>5, <2>6 DEF FindsAt
  <2> QED
    BY <1>2, <1>5, <2>3, <2>7
<1> QED
  BY <1>4, <1>5

IsDelimiter(d) == d[1] = CR /\ d[2] = LF /\ d[3] = "-" /\ d[4] = "-" /\ d[5] = "b"
LEMMA DelimiterIs ==
  CrlfDashBoundary \in Seq(Letters) /\ Len(CrlfDashBoundary) = 5 /\ IsDelimiter(CrlfDashBoundary)
<1>0. CR \in Letters /\ LF \in Letters /\ "-" \in Letters /\ "b" \in Letters
  BY LettersHave
<1>1. PICK s : s = Crlf \o Dash
  OBVIOUS
<1>2. s \in Seq(Letters) /\ Len(s) = 4 /\ s[1] = CR /\ s[2] = LF /\ s[3] = "-" /\ s[4] = "-"
  BY <1>0, <1>1 DEF Dash, Crlf
<1>b. PICK x \in Letters : x = "b"
  BY <1>0
<1>3. PICK d : d = s \o <<x>>
  OBVIOUS
<1>4. d \in Seq(Letters) /\ Len(d) = 5 /\ IsDelimiter(d)
  <2>1. d \in Seq(Letters) /\ Len(d) = Len(s) + 1 /\ d[Len(s) + 1] = x /\ \A n \in 1..Len(s) : d[n] = s[n]
    <3>1. s \in Seq(Letters)
      BY <1>2
    <3> QED
      BY <1>3, <3>1, OneMore
  <2> QED
    BY <1>2, <1>b, <2>1 DEF IsDelimiter
<1>5. d = CrlfDashBoundary
  BY <1>1, <1>b, <1>3, Zenon DEF CrlfDashBoundary, Boundary
<1> QED
  BY <1>4, <1>5, Zenon

(* A text without the text s in it. *)
LEMMA NotWithin ==
  ASSUME NEW T, NEW w \in Seq(T), NEW s \in Seq(T), Len(s) > 0
  PROVE  s \notin SubSeqs(w) <=> \A x \in 0..(Len(w) - Len(s)) : ~OccursAt(w, s, x)
<1>0. Len(w) \in Nat /\ Len(s) \in Nat
  OBVIOUS
<1>1. ASSUME NEW x \in 0..(Len(w) - Len(s)), OccursAt(w, s, x) PROVE s \in SubSeqs(w)
  <2>1. x \in Nat /\ x + Len(s) <= Len(w)
    BY <1>0
  <2>2. SubSeq(w, x + 1, x + Len(s)) = s
    BY <1>1, <2>1, CutOut
  <2>3. x \in 0..Len(w) /\ x + Len(s) \in 0..Len(w)
    BY <1>0, <2>1
  <2> QED
    BY <2>2, <2>3 DEF SubSeqs
<1>2. ASSUME s \in SubSeqs(w) PROVE \E x \in 0..(Len(w) - Len(s)) : OccursAt(w, s, x)
  <2>1. PICK x \in 0..Len(w), y \in 0..Len(w) : s = SubSeq(w, x + 1, y)
    BY <1>2 DEF SubSeqs
  <2>2. Len(SubSeq(w, x + 1, y)) = IF x + 1 <= y THEN y - x ELSE 0
    BY <1>0
  <2>3. Len(s) = y - x
    BY <1>0, <2>1, <2>2
  <2>4. y = x + Len(s) /\ x \in Nat /\ x \in 0..(Len(w) - Len(s)) /\ x + Len(s) <= Len(w)
    BY <1>0, <2>3
  <2>5. SubSeq(w, x + 1, x + Len(s)) = s
    BY <2>1, <2>4, Zenon
  <2>6. OccursAt(w, s, x)
    BY <2>4, <2>5, CutOut
  <2> QED
    BY <2>4, <2>6
<1> QED
  BY <1>1, <1>2

-----------------------------------------------------------------------------
(***************************************************************************)
(* No content that is handed over has the delimiter d in it: c being the   *)
(* content so far and b the buffer, the delimiter does not begin in c.     *)
(***************************************************************************)
HeldBack(c, b, d) ==
  /\ c = <<>> \/ Len(b) >= 5
  /\ \A x \in 0..(Len(c) - 1) : ~OccursAt(c \o b, d, x)

Together(g, a, b) ==
  /\ Len(a) \in Nat /\ Len(b) \in Nat /\ Len(g) = Len(a) + Len(b)
  /\ \A n \in 1..Len(a) : g[n] = a[n]
  /\ \A n \in 1..Len(b) : g[Len(a) + n] = b[n]
LEMMA Glued ==
  ASSUME NEW T, NEW a \in Seq(T), NEW b \in Seq(T)
  PROVE  \E g \in Seq(T) : g = a \o b /\ Together(g, a, b)
<1>1. PICK g : g = a \o b
  OBVIOUS
<1>2. Joins(g, a, b, T)
  BY <1>1, Zenon DEF Joins
<1>3. g \in Seq(T) /\ Together(g, a, b)
  BY <1>2, Joined DEF Together
<1> QED
  BY <1>1, <1>3, Zenon

PieceOf(u, w, p, n) == Len(u) = n /\ \A j \in 1..n : u[j] = w[p + j]
LEMMA Piece ==
  ASSUME NEW T, NEW w \in Seq(T), NEW p \in Nat, NEW e \in Nat, p <= e, e <= Len(w)
  PROVE  \E u \in Seq(T) : u = SubSeq(w, p + 1, e) /\ PieceOf(u, w, p, e - p)
<1>1. PICK u : u = SubSeq(w, p + 1, e)
  OBVIOUS
<1>2. u \in Seq(T) /\ Len(u) = e - p /\ \A j \in 1..(e - p) : u[j] = w[p + j]
  BY <1>1
<1> QED
  BY <1>1, <1>2, Zenon DEF PieceOf
FrontOf(u, w, n) == Len(u) = n /\ \A j \in 1..n : u[j] = w[j]
LEMMA FirstPiece ==
  ASSUME NEW T, NEW w \in Seq(T), NEW n \in Nat, n <= Len(w)
  PROVE  \E u \in Seq(T) : u = SubSeq(w, 1, n) /\ FrontOf(u, w, n)
<1>1. PICK u : u = SubSeq(w, 1, n)
  OBVIOUS
<1>2. u \in Seq(T) /\ Len(u) = n /\ \A j \in 1..n : u[j] = w[j]
  BY <1>1
<1> QED
  BY <1>1, <1>2, Zenon DEF FrontOf

LEMMA HeldClean ==
  ASSUME NEW T, NEW c \in Seq(T), NEW b \in Seq(T), NEW d \in Seq(T), Len(d) = 5, HeldBack(c, b, d)
  PROVE  d \notin SubSeqs(c)
<1>1. PICK g \in Seq(T) : g = c \o b /\ Together(g, c, b)
  BY Glued, Zenon
<1>1t. Together(g, c, b)
  BY <1>1, Zenon
<1>2. \A x \in 0..(Len(c) - 1) : ~OccursAt(g, d, x)
  BY <1>1, Zenon DEF HeldBack
<1>3. ASSUME NEW x \in 0..(Len(c) - Len(d)), OccursAt(c, d, x) PROVE FALSE
  <2>1. x \in 0..(Len(c) - 1) /\ \A i \in 1..5 : x + i \in 1..Len(c)
    OBVIOUS
  <2>2. \A i \in 1..5 : g[x + i] = c[x + i]
    BY <1>1t, <2>1, Zenon DEF Together
  <2>3. OccursAt(g, d, x)
    BY <1>3, <2>2 DEF OccursAt
  <2> QED
    BY <1>2, <2>1, <2>3, Zenon
<1>4. Len(d) > 0
  OBVIOUS
<1> QED
  BY <1>3, <1>4, NotWithin

LEMMA HeldMore ==
  ASSUME NEW T, NEW c \in Seq(T), NEW b \in Seq(T), NEW r \in Seq(T), NEW d \in Seq(T), Len(d) = 5, HeldBack(c, b, d)
  PROVE  HeldBack(c, b \o r, d)
<1>1. PICK g \in Seq(T) : g = c \o b /\ Together(g, c, b)
  BY Glued, Zenon
<1>1t. Together(g, c, b)
  BY <1>1, Zenon
<1>2. PICK s \in Seq(T) : s = b \o r /\ Together(s, b, r)
  BY Glued, Zenon
<1>2t. Together(s, b, r)
  BY <1>2, Zenon
<1>3. PICK h \in Seq(T) : h = c \o s /\ Together(h, c, s)
  BY Glued, Zenon
<1>3t. Together(h, c, s)
  BY <1>3, Zenon
<1>4. \A x \in 0..(Len(c) - 1) : ~OccursAt(g, d, x)
  BY <1>1, Zenon DEF HeldBack
<1>5. ASSUME NEW n \in 1..(Len(c) + Len(b)) PROVE h[n] = g[n]
  <2>1. CASE n <= Len(c)
    BY <1>1t, <1>3t, <2>1 DEF Together
  <2>2. CASE ~(n <= Len(c))
    <3>1. n - Len(c) \in 1..Len(b) /\ n - Len(c) \in 1..Len(s) /\ Len(c) + (n - Len(c)) = n
      BY <1>2t, <2>2 DEF Together
    <3> QED
      <4>1. h[n] = s[n - Len(c)]
        BY <1>3t, <3>1 DEF Together
      <4>2. s[n - Len(c)] = b[n - Len(c)]
        BY <1>2t, <3>1 DEF Together
      <4>3. g[n] = b[n - Len(c)]
        BY <1>1t, <3>1 DEF Together
      <4> QED
        BY <4>1, <4>2, <4>3
  <2> QED
    BY <2>1, <2>2
<1>6. c = <<>> \/ Len(s) >= 5
  BY <1>2t DEF HeldBack, Together
<1>7. ASSUME NEW x \in 0..(Len(c) - 1), OccursAt(h, d, x) PROVE FALSE
  <2>1. Len(b) >= 5
    BY DEF HeldBack
  <2>2. \A i \in 1..5 : x + i \in 1..(Len(c) + Len(b))
    BY <2>1
  <2>3. OccursAt(g, d, x)
    BY <1>5, <1>7, <2>2 DEF OccursAt
  <2> QED
    BY <1>4, <2>3
<1> QED
  BY <1>2, <1>3, <1>6, <1>7, Zenon DEF HeldBack

(* The delimiter was found behind n bytes of the buffer. *)
LEMMA HeldFound ==
  ASSUME NEW T, NEW c \in Seq(T), NEW b \in Seq(T), NEW d \in Seq(T), Len(d) = 5, HeldBack(c, b, d),
         NEW n, FindsAt(b, d, n)
  PROVE  c \o SubSeq(b, 1, n) \in Seq(T) /\ d \notin SubSeqs(c \o SubSeq(b, 1, n))
<1>1. PICK g \in Seq(T) : g = c \o b /\ Together(g, c, b)
  BY Glued, Zenon
<1>1t. Together(g, c, b)
  BY <1>1, Zenon
<1>2. n \in Nat /\ n + 5 <= Len(b) /\ \A x \in 0..(n - 1) : ~OccursAt(b, d, x)
  BY Zenon DEF FindsAt
<1>3. PICK u \in Seq(T) : u = SubSeq(b, 1, n) /\ FrontOf(u, b, n)
  <2>1. n <= Len(b)
    BY <1>2
  <2> QED
    BY <1>2, <2>1, FirstPiece, Zenon
<1>3a. Len(u) = n /\ \A j \in 1..n : u[j] = b[j]
  BY <1>3, Zenon DEF FrontOf
<1>4. PICK h \in Seq(T) : h = c \o u /\ Together(h, c, u)
  BY Glued, Zenon
<1>4t. Together(h, c, u)
  BY <1>4, Zenon
<1>5. ASSUME NEW m \in 1..(Len(c) + n) PROVE h[m] = g[m]
  <2>1. CASE m <= Len(c)
    BY <1>1t, <1>4t, <2>1 DEF Together
  <2>2. CASE ~(m <= Len(c))
    <3>1. m - Len(c) \in 1..n /\ m - Len(c) \in 1..Len(b) /\ Len(c) + (m - Len(c)) = m
      BY <1>2, <2>2
    <3>2. PICK j \in 1..n : j \in 1..Len(b) /\ Len(c) + j = m
      BY <3>1, Zenon
    <3> QED
      BY <1>1t, <1>3a, <1>4t, <3>2, Zenon DEF Together
  <2> QED
    BY <2>1, <2>2
<1>6. \A x \in 0..(Len(c) - 1) : ~OccursAt(g, d, x)
  BY <1>1, Zenon DEF HeldBack
<1>7. ASSUME NEW x \in 0..(Len(h) - Len(d)), OccursAt(h, d, x) PROVE FALSE
  <2>1. x \in Nat /\ x + 5 <= Len(c) + n
    BY <1>3a, <1>4t DEF Together
  <2>2. \A i \in 1..5 : x + i \in 1..(Len(c) + n) /\ h[x + i] = d[i]
    <3>1. \A i \in 1..5 : h[x + i] = d[i]
      BY <1>7, Zenon DEF OccursAt
    <3>2. \A i \in 1..5 : x + i \in 1..(Len(c) + n)
      BY <1>2, <2>1
    <3> QED
      BY <3>1, <3>2, Zenon
  <2>3. \A i \in 1..5 : g[x + i] = d[i]
    BY <1>5, <2>2
  <2>4. CASE x < Len(c)
    <3>1. OccursAt(g, d, x)
      BY <2>3 DEF OccursAt
    <3> QED
      BY <1>6, <2>1, <2>4, <3>1
  <2>5. CASE ~(x < Len(c))
    <3>1. x - Len(c) \in 0..(n - 1)
      BY <1>2, <2>1, <2>5
    <3>2. ASSUME NEW i \in 1..5 PROVE b[(x - Len(c)) + i] = d[i]
      <4>1. (x - Len(c)) + i \in 1..Len(b) /\ Len(c) + ((x - Len(c)) + i) = x + i
        BY <1>2, <2>1, <2>5
      <4> QED
        BY <1>1t, <2>3, <4>1 DEF Together
    <3>3. OccursAt(b, d, x - Len(c))
      BY <3>2 DEF OccursAt
    <3> QED
      BY <1>2, <3>1, <3>3
  <2> QED
    BY <2>1, <2>4, <2>5
<1>8. Len(d) > 0
  OBVIOUS
<1>9. d \notin SubSeqs(h)
  BY <1>7, <1>8, NotWithin
<1> QED
  BY <1>3, <1>4, <1>9, Zenon

(* It was not, and all but the length of a delimiter is handed over. *)
BehindHanded(a, m, n, h, j) == m \in Nat /\ a \in Nat /\ m + 5 = n /\ a + m = h /\ j \in 1..(a + n) /\ ~(j <= h)
AmongHeld(a, m, n, h, j) == \E i \in 1..5 : j = h + i /\ j = a + (m + i) /\ m + i \in 1..n
LEMMA HeldPlaces ==
  ASSUME NEW a, NEW m, NEW n, NEW h, NEW j, BehindHanded(a, m, n, h, j)
  PROVE  AmongHeld(a, m, n, h, j)
<1>1. /\ j - h \in 1..5 /\ j = h + (j - h)
      /\ j = a + (m + (j - h)) /\ m + (j - h) \in 1..n
  BY DEF BehindHanded
<1> QED
  BY <1>1 DEF AmongHeld
LEMMA HeldNone ==
  ASSUME NEW T, NEW c \in Seq(T), NEW b \in Seq(T), NEW d \in Seq(T), Len(d) = 5, HeldBack(c, b, d),
         NEW l, FindsNone(b, d, l), Len(b) >= 5, NEW m, m = Len(b) - 5
  PROVE  /\ c \o SubSeq(b, 1, m) \in Seq(T) /\ Drop(b, m) \in Seq(T)
         /\ HeldBack(c \o SubSeq(b, 1, m), Drop(b, m), d)
<1>1. PICK g \in Seq(T) : g = c \o b /\ Together(g, c, b)
  BY Glued, Zenon
<1>1t. Together(g, c, b)
  BY <1>1, Zenon
<1>2. m \in Nat /\ m + 5 = Len(b) /\ Len(b) \in Nat
  OBVIOUS
<1>2a. \A x \in 0..m : ~OccursAt(b, d, x)
  BY Zenon DEF FindsNone
<1>3. PICK u \in Seq(T) : u = SubSeq(b, 1, m) /\ FrontOf(u, b, m)
  <2>1. m <= Len(b)
    BY <1>2
  <2> QED
    BY <1>2, <2>1, FirstPiece, Zenon
<1>3a. Len(u) = m /\ \A j \in 1..m : u[j] = b[j]
  BY <1>3, Zenon DEF FrontOf
<1>4. PICK y \in Seq(T) : y = SubSeq(b, m + 1, Len(b)) /\ PieceOf(y, b, m, Len(b) - m)
  <2>1. m <= Len(b) /\ Len(b) <= Len(b)
    BY <1>2
  <2> QED
    BY <1>2, <2>1, Piece, Zenon
<1>4a. Len(y) = 5 /\ \A j \in 1..5 : y[j] = b[m + j]
  BY <1>2, <1>4 DEF PieceOf
<1>5. PICK h \in Seq(T) : h = c \o u /\ Together(h, c, u)
  BY Glued, Zenon
<1>5t. Together(h, c, u)
  BY <1>5, Zenon
<1>6. PICK e \in Seq(T) : e = h \o y /\ Together(e, h, y)
  BY Glued, Zenon
<1>6t. Together(e, h, y)
  BY <1>6, Zenon
<1>7. Len(h) = Len(c) + m /\ Len(y) = 5 /\ Len(c) \in Nat
  BY <1>2, <1>3a, <1>4a, <1>5t DEF Together
<1>8. ASSUME NEW j \in 1..(Len(c) + Len(b)) PROVE e[j] = g[j]
  <2>1. CASE j <= Len(c)
    <3>1. j \in 1..Len(c) /\ j \in 1..Len(h)
      BY <1>2, <1>7, <2>1
    <3> QED
      BY <1>1t, <1>5t, <1>6t, <3>1 DEF Together
  <2>2. CASE ~(j <= Len(c)) /\ j <= Len(h)
    <3>1. /\ j - Len(c) \in 1..m /\ j - Len(c) \in 1..Len(b) /\ Len(c) + (j - Len(c)) = j
          /\ j \in 1..Len(h)
      BY <1>2, <1>7, <2>2
    <3> QED
      <4>1. e[j] = h[j]
        BY <1>6t, <3>1 DEF Together
      <4>2. h[j] = u[j - Len(c)]
        BY <1>3a, <1>5t, <3>1 DEF Together
      <4>3. u[j - Len(c)] = b[j - Len(c)]
        BY <1>3a, <3>1, Zenon
      <4>4. g[j] = b[j - Len(c)]
        BY <1>1t, <3>1 DEF Together
      <4> QED
        BY <4>1, <4>2, <4>3, <4>4
  <2>3. CASE ~(j <= Len(h))
    <3>1. PICK i \in 1..5 : j = Len(h) + i /\ j = Len(c) + (m + i) /\ m + i \in 1..Len(b)
      <4>1. BehindHanded(Len(c), m, Len(b), Len(h), j)
        BY <1>2, <1>7, <2>3, Zenon DEF BehindHanded
      <4>2. AmongHeld(Len(c), m, Len(b), Len(h), j)
        BY <4>1, HeldPlaces, Zenon
      <4> QED
        BY <4>2, Zenon DEF AmongHeld
    <3>2. e[j] = y[i]
      BY <1>6t, <1>7, <3>1, Zenon DEF Together
    <3>3. y[i] = b[m + i]
      BY <1>4a, Zenon
    <3>4. g[j] = b[m + i]
      BY <1>1t, <3>1, Zenon DEF Together
    <3> QED
      BY <3>2, <3>3, <3>4, Zenon
  <2> QED
    BY <1>7, <2>1, <2>2, <2>3
<1>9. \A x \in 0..(Len(c) - 1) : ~OccursAt(g, d, x)
  BY <1>1, Zenon DEF HeldBack
<1>10. ASSUME NEW x \in 0..(Len(h) - 1), OccursAt(e, d, x) PROVE FALSE
  <2>1. x \in Nat /\ x < Len(c) + m
    BY <1>7
  <2>2. \A i \in 1..5 : x + i \in 1..(Len(c) + Len(b)) /\ e[x + i] = d[i]
    <3>1. \A i \in 1..5 : e[x + i] = d[i]
      BY <1>10, Zenon DEF OccursAt
    <3>2. \A i \in 1..5 : x + i \in 1..(Len(c) + Len(b))
      BY <1>2, <1>7, <2>1
    <3> QED
      BY <3>1, <3>2, Zenon
  <2>3. \A i \in 1..5 : g[x + i] = d[i]
    BY <1>8, <2>2
  <2>4. CASE x < Len(c)
    <3>1. OccursAt(g, d, x)
      BY <2>3 DEF OccursAt
    <3> QED
      BY <1>9, <2>1, <2>4, <3>1
  <2>5. CASE ~(x < Len(c))
    <3>1. x - Len(c) \in 0..m
      BY <1>2, <1>7, <2>1, <2>5
    <3>2. ASSUME NEW i \in 1..5 PROVE b[(x - Len(c)) + i] = d[i]
      <4>1. (x - Len(c)) + i \in 1..Len(b) /\ Len(c) + ((x - Len(c)) + i) = x + i
        BY <1>2, <1>7, <2>1, <2>5
      <4> QED
        BY <1>1t, <2>3, <4>1 DEF Together
    <3>3. OccursAt(b, d, x - Len(c))
      BY <3>2 DEF OccursAt
    <3> QED
      BY <1>2a, <3>1, <3>3
  <2> QED
    BY <1>7, <2>1, <2>4, <2>5
<1>11. Len(y) >= 5
  BY <1>7
<1>12. HeldBack(h, y, d)
  BY <1>6, <1>10, <1>11, Zenon DEF HeldBack
<1>13. Drop(b, m) = y
  BY <1>4, Zenon DEF Drop
<1> QED
  BY <1>3, <1>5, <1>12, <1>13, Zenon

-----------------------------------------------------------------------------
(* What the parser has in its hands: s its state, b the buffer, r what was *)
(* not read, f the headers and o the parts handed over.                    *)
Heads == [name : Letters, type : Letters, content : {<<>>}]
Parts == [name : Letters, type : Letters, content : Seq(Letters)]
Clean(o, n) == \A i \in 1..n : CrlfDashBoundary \notin SubSeqs(o[i].content)
Handing(s, b, r, f, o) ==
  /\ r \in Seq(Letters) /\ b \in Seq(Letters) /\ f \in Heads /\ o \in Seq(Parts)
  /\ IF s = "body" THEN o # <<>> /\ Clean(o, Len(o) - 1) /\ HeldBack(o[Len(o)].content, b, CrlfDashBoundary)
     ELSE Clean(o, Len(o))

MultipartOut == input.kind = "multipart" => Handing(state, buf, rest, file, out)

LEMMA DropIs ==
  ASSUME NEW T, NEW s \in Seq(T), NEW n \in Nat
  PROVE  Drop(s, n) \in Seq(T)
<1>1. Len(s) \in Nat
  OBVIOUS
<1>2. PICK u : u = SubSeq(s, n + 1, Len(s))
  OBVIOUS
<1>3. u \in Seq(T)
  BY <1>1, <1>2
<1> QED
  BY <1>2, <1>3 DEF Drop

(* Content: the last part gets another content. *)
NewContent(o, h) == [o EXCEPT ![Len(o)].content = h]
LEMMA ContentIs ==
  ASSUME NEW n, Content(n)
  PROVE  out' = NewContent(out, out[Len(out)].content \o SubSeq(buf, 1, n))
BY DEF Content, NewContent
Recontented(x, o, h) ==
  /\ x \in Seq(Parts) /\ Len(x) = Len(o) /\ x # <<>>
  /\ \A i \in 1..(Len(o) - 1) : x[i] = o[i]
  /\ x[Len(o)] = [o[Len(o)] EXCEPT !.content = h] /\ x[Len(o)].content = h
LEMMA NewContentIs ==
  ASSUME NEW o \in Seq(Parts), o # <<>>, NEW h \in Seq(Letters), NEW x, x = NewContent(o, h)
  PROVE  Recontented(x, o, h)
<1>1. Len(o) \in Nat /\ Len(o) \in 1..Len(o)
  OBVIOUS
<1>2. PICK l \in Nat : l = Len(o)
  OBVIOUS
<1>3. PICK e \in Parts : e = o[l]
  BY <1>1, <1>2
<1>4. PICK g \in Parts : g = [e EXCEPT !.content = h] /\ g.content = h
  <2>1. PICK g : g = [e EXCEPT !.content = h]
    OBVIOUS
  <2>2. g \in Parts /\ g.content = h
    BY <2>1 DEF Parts
  <2> QED
    BY <2>1, <2>2, Zenon
<1>5. x = [o EXCEPT ![l] = g]
  BY <1>2, <1>3, <1>4, Zenon DEF NewContent
<1>6. x \in Seq(Parts) /\ Len(x) = l /\ (\A i \in 1..(l - 1) : x[i] = o[i]) /\ x[l] = g /\ x # <<>>
  BY <1>1, <1>2, <1>5
<1> QED
  BY <1>2, <1>3, <1>4, <1>6, Zenon DEF Recontented

LEMMA CleanOn ==
  ASSUME NEW o, NEW x, NEW n, \A i \in 1..n : x[i] = o[i], Clean(o, n)
  PROVE  Clean(x, n)
BY Zenon DEF Clean

LEMMA BoundaryLineIs == Len(DashBoundaryCrlf) = 5 /\ DashBoundaryCrlf \in Seq(Letters)
BY BoundaryLine
LEMMA CrlfIsLine == Crlf \in Seq(Letters) /\ Len(Crlf) = 2 /\ Crlf[1] = CR /\ Crlf[2] = LF
BY LettersHave DEF Crlf

LEMMA FindIsNat ==
  ASSUME NEW T, buf \in Seq(T), NEW s \in Seq(T), Len(s) > 0
  PROVE  Find(s) \in Nat /\ Find(s) <= Len(buf)
<1>1. FindsNone(buf, s, Find(s)) \/ FindsAt(buf, s, Find(s))
  BY FindFinds
<1>2. Len(buf) \in Nat /\ Len(s) \in Nat
  OBVIOUS
<1> QED
  BY <1>1, <1>2 DEF FindsNone, FindsAt

(* Steps outside of a body. *)
LEMMA HandingElsewhere ==
  ASSUME NEW s, NEW b, NEW r, NEW f, NEW o, Handing(s, b, r, f, o), s # "body",
         NEW t, t # "body", NEW c \in Seq(Letters), NEW g \in Heads
  PROVE  Handing(t, c, r, g, o)
BY DEF Handing

LEMMA ParseHanding ==
  ASSUME Handing(state, buf, rest, file, out), Parse
  PROVE  Handing(state, buf, rest, file, out)'
<1>1. PICK n \in 1..Len(rest) : buf' = buf \o SubSeq(rest, 1, n) /\ rest' = Drop(rest, n)
  BY DEF Parse, StreamRead
<1>2. state' = state /\ file' = file /\ out' = out
  BY DEF Parse
<1>3. rest \in Seq(Letters) /\ buf \in Seq(Letters)
  BY DEF Handing
<1>4. n \in Nat /\ n <= Len(rest)
  BY <1>3
<1>5. PICK u \in Seq(Letters) : u = SubSeq(rest, 1, n)
  BY <1>3, <1>4, FirstPiece
<1>6. PICK c \in Seq(Letters) : c = buf \o u
  BY <1>3, Glued, Zenon
<1>7. PICK r \in Seq(Letters) : r = Drop(rest, n)
  BY <1>3, <1>4, DropIs
<1>8. state = "body" => HeldBack(out[Len(out)].content, c, CrlfDashBoundary)
  <2>1. SUFFICES ASSUME state = "body" PROVE HeldBack(out[Len(out)].content, c, CrlfDashBoundary)
    OBVIOUS
  <2>2. PICK e \in Parts : e = out[Len(out)]
    BY <2>1 DEF Handing
  <2>3. PICK h \in Seq(Letters) : h = out[Len(out)].content
    BY <2>2 DEF Parts
  <2>4. HeldBack(h, buf, CrlfDashBoundary)
    BY <2>1, <2>3, Zenon DEF Handing
  <2>5. HeldBack(h, buf \o u, CrlfDashBoundary)
    BY <1>3, <2>4, DelimiterIs, HeldMore, Zenon
  <2> QED
    BY <1>6, <2>3, <2>5, Zenon
<1>9. Handing(state, c, r, file, out)
  BY <1>8, Zenon DEF Handing
<1>10. buf' = c /\ rest' = r
  BY <1>1, <1>5, <1>6, <1>7, Zenon
<1> QED
  BY <1>2, <1>9, <1>10, Zenon

LEMMA InitialHanding ==
  ASSUME Handing(state, buf, rest, file, out), InitialBoundary \/ NewEntry
  PROVE  Handing(state, buf, rest, file, out)'
<1>1. rest \in Seq(Letters) /\ buf \in Seq(Letters) /\ file \in Heads
  BY DEF Handing
<1>2. CASE InitialBoundary
  <2>1. PICK n \in Nat : n = Find(DashBoundaryCrlf)
    <3>1. Len(DashBoundaryCrlf) > 0
      BY BoundaryLineIs
    <3> QED
      BY <1>1, <3>1, BoundaryLineIs, FindIsNat, Zenon
  <2>2. PICK u \in Seq(Letters) : u = Drop(buf, n)
    BY <1>1, DropIs
  <2>3. Drop(u, 5) \in Seq(Letters)
    BY DropIs
  <2>4. buf' \in Seq(Letters)
    <3>1. buf' = u \/ buf' = Drop(u, 5)
      BY <1>2, <2>1, <2>2, BoundaryLineIs, Zenon DEF InitialBoundary
    <3> QED
      BY <2>3, <3>1, Zenon
  <2>5. state # "body" /\ state' # "body" /\ rest' = rest /\ file' = file /\ out' = out
    BY <1>2 DEF InitialBoundary, Loop
  <2>6. Handing(state', buf', rest, file, out)
    BY <1>1, <2>4, <2>5, HandingElsewhere, Zenon
  <2> QED
    BY <2>5, <2>6, Zenon
<1>3. CASE NewEntry
  <2>1. NoFile \in Heads
    BY DEF NoFile, Heads, Letters
  <2>2. state # "body" /\ state' # "body" /\ rest' = rest /\ file' = NoFile /\ out' = out /\ buf' = buf
    BY <1>3 DEF NewEntry, Loop
  <2>3. Handing(state', buf, rest, NoFile, out)
    BY <1>1, <2>1, <2>2, HandingElsewhere, Zenon
  <2> QED
    BY <2>2, <2>3, Zenon
<1> QED
  BY <1>2, <1>3

LEMMA HeaderHanding ==
  ASSUME Handing(state, buf, rest, file, out), Header
  PROVE  Handing(state, buf, rest, file, out)'
<1>1. rest \in Seq(Letters) /\ buf \in Seq(Letters) /\ file \in Heads /\ out \in Seq(Parts)
  BY DEF Handing
<1>2. PICK n \in Nat : n = Find(Crlf) /\ n <= Len(buf)
  <2>1. Len(Crlf) > 0
    BY CrlfIsLine
  <2> QED
    BY <1>1, <2>1, CrlfIsLine, FindIsNat, Zenon
<1>3. PICK l \in Seq(Letters) : l = SubSeq(buf, 1, n) /\ Len(l) = n
  <2>1. PICK l \in Seq(Letters) : l = SubSeq(buf, 1, n) /\ FrontOf(l, buf, n)
    BY <1>1, <1>2, FirstPiece, Zenon
  <2> QED
    BY <2>1, Zenon DEF FrontOf
<1>4. state = "headers" /\ rest' = rest
  BY DEF Header, Loop
<1>5. CASE buf' = buf /\ state' # "body" /\ file' = file /\ out' = out
  <2>1. Handing(state', buf, rest, file, out)
    BY <1>1, <1>4, <1>5, HandingElsewhere, Zenon
  <2> QED
    BY <1>4, <1>5, <2>1, Zenon
<1>6. CASE buf' = Drop(buf, 2) /\ state' = "body" /\ out' = Append(out, file) /\ file' = file
  <2>1. PICK c \in Seq(Letters) : c = Drop(buf, 2)
    BY <1>1, DropIs
  <2>2. PICK x : x = Append(out, file)
    OBVIOUS
  <2>3. file \in Parts /\ file.content = <<>>
    <3>1. <<>> \in Seq(Letters)
      OBVIOUS
    <3> QED
      BY <1>1, <3>1 DEF Heads, Parts
  <2>4. /\ x \in Seq(Parts) /\ Len(x) = Len(out) + 1 /\ x # <<>> /\ x[Len(x)] = file
        /\ \A i \in 1..Len(out) : x[i] = out[i]
    BY <1>1, <2>2, <2>3
  <2>5. Len(x) - 1 = Len(out)
    BY <1>1, <2>4
  <2>6. Clean(out, Len(out))
    BY <1>4 DEF Handing
  <2>7. Clean(x, Len(x) - 1)
    BY <2>4, <2>5, <2>6, CleanOn, Zenon
  <2>8. HeldBack(<<>>, c, CrlfDashBoundary)
    BY DEF HeldBack
  <2>9. Handing("body", c, rest, file, x)
    BY <1>1, <2>3, <2>4, <2>7, <2>8, Zenon DEF Handing
  <2> QED
    BY <1>4, <1>6, <2>1, <2>2, <2>9, Zenon
<1>7. CASE /\ buf' = Drop(buf, n + 2) /\ state' = state /\ out' = out /\ Len(l) = 1
           /\ file' = IF l[1] \in Types THEN [file EXCEPT !.type = l[1]] ELSE [file EXCEPT !.name = l[1]]
  <2>1. l[1] \in Letters
    <3>1. Len(l) = 1
      BY <1>7, Zenon
    <3> QED
      BY <3>1
  <2>2. file' \in Heads
    BY <1>1, <1>7, <2>1 DEF Heads
  <2>3. Drop(buf, n + 2) \in Seq(Letters)
    BY <1>1, DropIs
  <2>4. Handing(state, Drop(buf, n + 2), rest, file', out)
    <3>1. state # "body"
      BY <1>4
    <3> QED
      BY <1>1, <2>2, <2>3, <3>1, HandingElsewhere, Zenon
  <2> QED
    BY <1>4, <1>7, <2>4, Zenon
<1>8. \/ buf' = buf /\ state' # "body" /\ file' = file /\ out' = out
      \/ buf' = Drop(buf, 2) /\ state' = "body" /\ out' = Append(out, file) /\ file' = file
      \/ /\ buf' = Drop(buf, n + 2) /\ state' = state /\ out' = out /\ Len(l) = 1
         /\ file' = IF l[1] \in Types THEN [file EXCEPT !.type = l[1]] ELSE [file EXCEPT !.name = l[1]]
  BY <1>2, <1>3, <1>4, CrlfIsLine, Zenon DEF Header, Refuses, Waits
<1> QED
  BY <1>5, <1>6, <1>7, <1>8

LEMMA BodyHanding ==
  ASSUME Handing(state, buf, rest, file, out), Body
  PROVE  Handing(state, buf, rest, file, out)'
<1>1. rest \in Seq(Letters) /\ buf \in Seq(Letters) /\ file \in Heads /\ out \in Seq(Parts)
  BY DEF Handing
<1>2. state = "body" /\ rest' = rest /\ file' = file
  BY DEF Body, Loop
<1>3. out # <<>> /\ Clean(out, Len(out) - 1) /\ HeldBack(out[Len(out)].content, buf, CrlfDashBoundary)
  BY <1>2 DEF Handing
<1>4. PICK h \in Seq(Letters) : h = out[Len(out)].content
  <2>1. out[Len(out)] \in Parts
    BY <1>1, <1>3
  <2> QED
    BY <2>1 DEF Parts
<1>5. PICK d \in Seq(Letters) : d = CrlfDashBoundary /\ Len(d) = 5
  BY DelimiterIs
<1>6. PICK n \in Nat : n = Find(d) /\ n <= Len(buf)
  <2>1. Len(d) > 0
    BY <1>5
  <2> QED
    BY <1>1, <2>1, FindIsNat
<1>7. FindsNone(buf, d, n) \/ FindsAt(buf, d, n)
  <2>1. Len(d) > 0
    BY <1>5
  <2> QED
    BY <1>1, <1>6, <2>1, FindFinds
<1>8. HeldBack(h, buf, d)
  BY <1>3, <1>4, <1>5, Zenon
<1>9. CASE buf' = buf /\ state' = state /\ out' = out
  BY <1>2, <1>9, Zenon
<1>10. CASE n < Len(buf) /\ Content(n) /\ buf' = Drop(buf, n + 5) /\ state' = "boundary"
  <2>1. FindsAt(buf, d, n)
    BY <1>1, <1>7, <1>10 DEF FindsNone
  <2>2. PICK c \in Seq(Letters) : c = h \o SubSeq(buf, 1, n) /\ d \notin SubSeqs(c)
    BY <1>1, <1>5, <1>8, <2>1, HeldFound, Zenon
  <2>3. out' = NewContent(out, c)
    BY <1>4, <1>10, <2>2, ContentIs, Zenon
  <2>4. Recontented(out', out, c)
    BY <1>1, <1>3, <2>3, NewContentIs, Zenon
  <2>5. out' \in Seq(Parts) /\ Len(out') = Len(out)
    BY <2>4, Zenon DEF Recontented
  <2>6. ASSUME NEW i \in 1..Len(out) PROVE CrlfDashBoundary \notin SubSeqs(out'[i].content)
    <3>1. CASE i = Len(out)
      <4>1. out'[i].content = c
        BY <2>4, <3>1, Zenon DEF Recontented
      <4> QED
        BY <1>5, <2>2, <4>1, Zenon
    <3>2. CASE i # Len(out)
      <4>1. i \in 1..(Len(out) - 1)
        BY <1>1, <3>2
      <4>2. out'[i] = out[i]
        BY <2>4, <4>1, Zenon DEF Recontented
      <4> QED
        BY <1>3, <4>1, <4>2, Zenon DEF Clean
    <3> QED
      BY <3>1, <3>2
  <2>7. Clean(out', Len(out'))
    BY <2>5, <2>6, Zenon DEF Clean
  <2>8. buf' \in Seq(Letters)
    <3>1. Drop(buf, n + 5) \in Seq(Letters)
      BY <1>1, DropIs
    <3> QED
      BY <1>10, <3>1, Zenon
  <2>9. state' # "body"
    BY <1>10
  <2> QED
    BY <1>1, <1>2, <2>5, <2>7, <2>8, <2>9, Zenon DEF Handing
<1>11. CASE /\ Len(buf) - 5 >= 0 /\ n = Len(buf) /\ Content(Len(buf) - 5)
            /\ buf' = Drop(buf, Len(buf) - 5) /\ state' = state
  <2>1. FindsNone(buf, d, n)
    BY <1>1, <1>5, <1>7, <1>11 DEF FindsAt
  <2>2. PICK m \in Nat : m = Len(buf) - 5 /\ Len(buf) >= 5
    <3>1. PICK l : l = Len(buf)
      OBVIOUS
    <3>2. l \in Nat /\ l - 5 >= 0
      BY <1>1, <1>11, <3>1
    <3>3. l - 5 \in Nat /\ l >= 5
      BY <3>2
    <3> QED
      BY <3>1, <3>3, Zenon
  <2>3. PICK c \in Seq(Letters) : c = h \o SubSeq(buf, 1, m) /\ Drop(buf, m) \in Seq(Letters) /\ HeldBack(c, Drop(buf, m), d)
    BY <1>1, <1>5, <1>8, <2>1, <2>2, HeldNone, Zenon
  <2>4. out' = NewContent(out, c)
    BY <1>4, <1>11, <2>2, <2>3, ContentIs, Zenon
  <2>5. Recontented(out', out, c)
    BY <1>1, <1>3, <2>4, NewContentIs, Zenon
  <2>6. out' \in Seq(Parts) /\ Len(out') = Len(out) /\ out' # <<>> /\ out'[Len(out')].content = c
    BY <2>5, Zenon DEF Recontented
  <2>7. Clean(out', Len(out') - 1)
    <3>1. \A i \in 1..(Len(out) - 1) : out'[i] = out[i]
      BY <2>5, Zenon DEF Recontented
    <3> QED
      BY <1>3, <2>6, <3>1, CleanOn, Zenon
  <2> QED
    BY <1>1, <1>2, <1>5, <1>11, <2>2, <2>3, <2>6, <2>7, Zenon DEF Handing
<1>12. \/ buf' = buf /\ state' = state /\ out' = out
       \/ n < Len(buf) /\ Content(n) /\ buf' = Drop(buf, n + 5) /\ state' = "boundary"
       \/ /\ Len(buf) - 5 >= 0 /\ n = Len(buf) /\ Content(Len(buf) - 5)
          /\ buf' = Drop(buf, Len(buf) - 5) /\ state' = state
  BY <1>5, <1>6, Zenon DEF Body
<1> QED
  BY <1>9, <1>10, <1>11, <1>12

LEMMA BoundaryHanding ==
  ASSUME Handing(state, buf, rest, file, out), BoundaryEnd \/ Emptied
  PROVE  Handing(state, buf, rest, file, out)'
<1>1. CASE buf' = buf /\ state' = state /\ UNCHANGED <<rest, file, out>>
  BY <1>1, Zenon
<1>2. CASE BoundaryEnd /\ ~(buf' = buf /\ state' = state)
  <2>1. rest \in Seq(Letters) /\ buf \in Seq(Letters) /\ file \in Heads
    BY DEF Handing
  <2>2. Drop(buf, 2) \in Seq(Letters) /\ <<>> \in Seq(Letters)
    BY <2>1, DropIs
  <2>3. buf' = Drop(buf, 2) \/ buf' = <<>>
    BY <1>2, CrlfIsLine, Zenon DEF BoundaryEnd
  <2>4. buf' \in Seq(Letters)
    BY <2>2, <2>3, Zenon
  <2>5. state # "body" /\ state' # "body" /\ rest' = rest /\ file' = file /\ out' = out
    BY <1>2 DEF BoundaryEnd, Loop
  <2>6. Handing(state', buf', rest, file, out)
    BY <2>1, <2>4, <2>5, HandingElsewhere, Zenon
  <2> QED
    BY <2>5, <2>6, Zenon
<1>3. UNCHANGED <<rest, file, out>> /\ (Emptied => buf' = buf /\ state' = state)
  BY DEF BoundaryEnd, Emptied
<1> QED
  BY <1>1, <1>2, <1>3, Zenon

-----------------------------------------------------------------------------
(* A part on the wire. *)
IsItem(t, m) ==
  /\ Len(m.content) \in Nat /\ HeadOf(m) \in {10, 13} /\ Len(t) = HeadOf(m) + Len(m.content) + 2
  /\ IsHead(t, 0, m) /\ IsRest(t, HeadOf(m), m)

LEMMA HeadKept ==
  ASSUME NEW w, NEW t, NEW a \in Nat, NEW b \in Nat, NEW m,
         \A n \in 1..HeadOf(m) : w[a + n] = t[b + n], IsHead(t, b, m)
  PROVE  IsHead(w, a, m)
<1>1. CASE m.type = ""
  <2>1. \A n \in 1..10 : w[a + n] = t[b + n]
    BY <1>1, Zenon DEF HeadOf
  <2>2. /\ w[a + 1] = t[b + 1] /\ w[a + 2] = t[b + 2] /\ w[a + 3] = t[b + 3] /\ w[a + 4] = t[b + 4]
        /\ w[a + 5] = t[b + 5] /\ w[a + 6] = t[b + 6] /\ w[a + 7] = t[b + 7] /\ w[a + 8] = t[b + 8]
        /\ w[a + 9] = t[b + 9] /\ w[a + 10] = t[b + 10]
    BY <2>1
  <2> QED
    BY <1>1, <2>2, Zenon DEF IsHead
<1>2. CASE m.type # ""
  <2>1. \A n \in 1..13 : w[a + n] = t[b + n]
    BY <1>2, Zenon DEF HeadOf
  <2>2. /\ w[a + 1] = t[b + 1] /\ w[a + 2] = t[b + 2] /\ w[a + 3] = t[b + 3] /\ w[a + 4] = t[b + 4]
        /\ w[a + 5] = t[b + 5] /\ w[a + 6] = t[b + 6] /\ w[a + 7] = t[b + 7] /\ w[a + 8] = t[b + 8]
        /\ w[a + 9] = t[b + 9] /\ w[a + 10] = t[b + 10] /\ w[a + 11] = t[b + 11] /\ w[a + 12] = t[b + 12]
        /\ w[a + 13] = t[b + 13]
    BY <2>1
  <2> QED
    BY <1>2, <2>2, Zenon DEF IsHead
<1> QED
  BY <1>1, <1>2

LEMMA ItemIs ==
  ASSUME NEW m \in Item
  PROVE  SerializeItem(m) \in Seq(Letters) /\ IsItem(SerializeItem(m), m)
<1>1. PICK h \in Seq(Letters) : SerializeItem(m) = (h \o m.content) \o Crlf /\ IsHead(h, 0, m) /\ Len(h) = HeadOf(m)
  BY HeadIs
<1>2. PICK c \in Seq(Letters) : c = m.content
  BY LettersHave
<1>3. PICK g \in Seq(Letters) : g = h \o c /\ Together(g, h, c)
  BY Glued, Zenon
<1>4. CR \in Letters /\ LF \in Letters
  BY LettersHave
<1>5. PICK t \in Seq(Letters) : t = g \o Crlf /\ LineEnded(t, g)
  BY <1>4, LineEndMore, Zenon
<1>6. t = SerializeItem(m)
  BY <1>1, <1>2, <1>3, <1>5, Zenon
<1>7. PICK n \in Nat : n = Len(c)
  OBVIOUS
<1>8. PICK l \in {10, 13} : l = HeadOf(m)
  BY DEF HeadOf
<1>9. /\ Len(h) = l /\ Len(g) = l + n
      /\ \A i \in 1..l : g[i] = h[i]
      /\ \A i \in 1..n : g[l + i] = c[i]
  <2>1. Together(g, h, c) /\ Len(h) = l
    BY <1>1, <1>3, <1>8, Zenon
  <2> QED
    BY <1>7, <2>1, Zenon DEF Together
<1>10. /\ Len(t) = (l + n) + 2 /\ t[(l + n) + 1] = CR /\ t[(l + n) + 2] = LF
       /\ \A i \in 1..(l + n) : t[i] = g[i]
  BY <1>5, <1>9, Zenon DEF LineEnded
<1>11. \A i \in 1..l : t[0 + i] = h[0 + i]
  BY <1>9, <1>10
<1>12. IsHead(t, 0, m)
  <2>1. IsHead(h, 0, m) /\ \A i \in 1..HeadOf(m) : t[0 + i] = h[0 + i]
    BY <1>1, <1>8, <1>11, Zenon
  <2> QED
    BY <2>1, HeadKept
<1>13. \A i \in 1..n : t[l + i] = c[i]
  <2> TAKE i \in 1..n
  <2>1. l + i \in 1..(l + n)
    OBVIOUS
  <2> QED
    BY <1>9, <1>10, <2>1
<1>14. IsRest(t, l, m)
  <2>1. t[l + n + 1] = CR /\ t[l + n + 2] = LF
    BY <1>10
  <2> QED
    BY <1>2, <1>7, <1>13, <2>1, Zenon DEF IsRest
<1>15. Len(t) = l + n + 2
  BY <1>10
<1> QED
  BY <1>2, <1>6, <1>7, <1>8, <1>12, <1>14, <1>15, Zenon DEF IsItem

(* Where it stands in all that is written. *)
ItemAt(w, a, m) == IsHead(w, a, m) /\ IsRest(w, a + HeadOf(m), m)
LEMMA ItemPlaced ==
  ASSUME NEW a, NEW b, NEW t, NEW w, NEW m, IsItem(t, m), Joins(b, a, t, Letters), Begins(b, w, Letters)
  PROVE  ItemAt(w, Len(a), m) /\ Len(b) = Len(a) + HeadOf(m) + Len(m.content) + 2 /\ Len(a) \in Nat
<1>1. /\ Len(a) \in Nat /\ Len(b) = Len(a) + Len(t)
      /\ \A i \in 1..Len(t) : b[Len(a) + i] = t[i]
  BY Joined
<1>2. \A i \in 1..Len(b) : w[i] = b[i]
  BY DEF Begins
<1>3. PICK p \in Nat, n \in Nat, l \in {10, 13} : p = Len(a) /\ n = Len(m.content) /\ l = HeadOf(m)
  BY <1>1 DEF IsItem
<1>4. Len(t) = l + n + 2 /\ IsHead(t, 0, m) /\ IsRest(t, l, m)
  BY <1>3, Zenon DEF IsItem
<1>5. \A i \in 1..(l + n + 2) : w[p + i] = t[i]
  BY <1>1, <1>2, <1>3, <1>4, SMTT(40)
<1>6. \A i \in 1..l : w[p + i] = t[0 + i]
  BY <1>5
<1>7. IsHead(w, p, m)
  <2>1. 0 \in Nat /\ \A i \in 1..HeadOf(m) : w[p + i] = t[0 + i]
    BY <1>3, <1>6, Zenon
  <2> QED
    BY <1>4, <2>1, HeadKept, Zenon
<1>8. ASSUME NEW i \in 1..n PROVE w[(p + l) + i] = m.content[i]
  <2>1. l + i \in 1..(l + n + 2) /\ p + (l + i) = (p + l) + i
    OBVIOUS
  <2>2. w[(p + l) + i] = t[l + i]
    BY <1>5, <2>1
  <2>3. t[l + i] = m.content[i]
    BY <1>3, <1>4, Zenon DEF IsRest
  <2> QED
    BY <2>2, <2>3
<1>9. w[(p + l) + n + 1] = CR /\ w[(p + l) + n + 2] = LF
  <2>1. /\ l + n + 1 \in 1..(l + n + 2) /\ p + (l + n + 1) = (p + l) + n + 1
        /\ l + n + 2 \in 1..(l + n + 2) /\ p + (l + n + 2) = (p + l) + n + 2
    OBVIOUS
  <2>2. w[(p + l) + n + 1] = t[l + n + 1] /\ w[(p + l) + n + 2] = t[l + n + 2]
    BY <1>5, <2>1
  <2>3. t[l + n + 1] = CR /\ t[l + n + 2] = LF
    BY <1>3, <1>4, Zenon DEF IsRest
  <2> QED
    BY <2>2, <2>3
<1>10. IsRest(w, p + l, m)
  BY <1>3, <1>8, <1>9, Zenon DEF IsRest
<1>11. Len(b) = p + l + n + 2
  BY <1>1, <1>3, <1>4, SMTT(40)
<1> QED
  BY <1>3, <1>7, <1>10, <1>11, Zenon DEF ItemAt

LEMMA ItemsAre ==
  ASSUME NEW v \in Seq(Item)
  PROVE  /\ Len(Serialized(v)) = Len(v) /\ Texts(Serialized(v), Letters) /\ Len(v) \in Nat
         /\ Len(Serialized(v)) = 0 => Serialized(v) = <<>>
         /\ \A i \in 1..Len(v) : v[i] \in Item /\ IsItem(Serialized(v)[i], v[i])
<1>1. PICK n \in Nat : n = Len(v) /\ DOMAIN v = 1..n
  OBVIOUS
<1>2. ASSUME NEW i \in 1..n
      PROVE  v[i] \in Item /\ Serialized(v)[i] \in Seq(Letters) /\ IsItem(Serialized(v)[i], v[i])
  <2>1. v[i] \in Item
    BY <1>1
  <2>2. Serialized(v)[i] = SerializeItem(v[i])
    BY <1>1, Zenon DEF Serialized
  <2> QED
    BY <2>1, <2>2, ItemIs, Zenon
<1>3. PICK F : Serialized(v) = [i \in 1..n |-> F[i]]
  <2> DEFINE H == [i \in 1..n |-> SerializeItem(v[i])]
  <2>1. Serialized(v) = H
    BY <1>1 DEF Serialized
  <2>2. H = [i \in 1..n |-> H[i]]
    BY Zenon
  <2> QED
    BY <2>1, <2>2, Zenon
<1>4. Len(Serialized(v)) = n /\ (n = 0 => Serialized(v) = <<>>)
  BY <1>3
<1>5. Texts(Serialized(v), Letters)
  BY <1>2, <1>4, Zenon DEF Texts
<1> QED
  BY <1>1, <1>2, <1>4, <1>5, Zenon

LEMMA WrittenIs ==
  ASSUME NEW v \in Seq(Item)
  PROVE  /\ Accumulates(Written(v), Serialized(v), Letters)
         /\ FlattenSeq(Serialized(v)) = Written(v)[Len(v)]
<1>1. Accumulates(Written(v), Serialized(v), Letters)
  BY ItemsAre, AccumulationExists, Zenon DEF Written
<1>2. FlattenSeq(Serialized(v)) = Written(v)[Len(Serialized(v))]
  BY <1>1, ItemsAre, Flattened, Zenon
<1> QED
  BY <1>1, <1>2, ItemsAre, Zenon

LEMMA LastBoundary ==
  ASSUME NEW a \in Seq(Letters)
  PROVE  \E w \in Seq(Letters) : /\ w = a \o Dash \o Boundary \o Dash \o Crlf
                                 /\ Begins(a, w, Letters) /\ IsLast(w, Len(a))
<1>0. PICK x \in Letters, y \in Letters : x = "-" /\ y = "b" /\ CR \in Letters /\ LF \in Letters
  BY LettersHave
<1>1. PICK n \in Nat : n = Len(a)
  OBVIOUS
<1>2. PICK d \in Seq(Letters) : d = Dash /\ Len(d) = 2 /\ d[1] = "-" /\ d[2] = "-"
  <2>1. <<x, x>> \in Seq(Letters) /\ Len(<<x, x>>) = 2 /\ <<x, x>>[1] = x /\ <<x, x>>[2] = x
    OBVIOUS
  <2> QED
    BY <1>0, <2>1, Zenon DEF Dash
<1>3. PICK b \in Seq(Letters) : b = a \o d /\ Together(b, a, d)
  BY Glued, Zenon
<1>4. Len(b) = n + 2 /\ b[n + 1] = "-" /\ b[n + 2] = "-" /\ \A i \in 1..n : b[i] = a[i]
  <2>1. Together(b, a, d)
    BY <1>3, Zenon
  <2> QED
    BY <1>1, <1>2, <2>1 DEF Together
<1>5. PICK c \in Seq(Letters) : /\ c = b \o <<y>> /\ Len(c) = Len(b) + 1 /\ c[Len(b) + 1] = y
                                /\ \A i \in 1..Len(b) : c[i] = b[i]
  <2>1. PICK c : c = b \o <<y>>
    OBVIOUS
  <2>2. c \in Seq(Letters) /\ Len(c) = Len(b) + 1 /\ c[Len(b) + 1] = y /\ \A i \in 1..Len(b) : c[i] = b[i]
    BY <2>1, OneMore
  <2> QED
    BY <2>1, <2>2, Zenon
<1>6. Len(c) = n + 3 /\ c[n + 1] = "-" /\ c[n + 2] = "-" /\ c[n + 3] = "b" /\ \A i \in 1..n : c[i] = a[i]
  <2>1. Len(c) = Len(b) + 1 /\ c[Len(b) + 1] = y /\ \A i \in 1..Len(b) : c[i] = b[i]
    BY <1>5, Zenon
  <2> QED
    BY <1>0, <1>4, <2>1
<1>7. PICK e \in Seq(Letters) : e = c \o d /\ Together(e, c, d)
  BY Glued, Zenon
<1>8. /\ Len(e) = n + 5 /\ e[n + 1] = "-" /\ e[n + 2] = "-" /\ e[n + 3] = "b" /\ e[n + 4] = "-" /\ e[n + 5] = "-"
      /\ \A i \in 1..n : e[i] = a[i]
  <2>1. Together(e, c, d)
    BY <1>7, Zenon
  <2> QED
    BY <1>2, <1>6, <2>1 DEF Together
<1>9. PICK w \in Seq(Letters) : w = e \o Crlf /\ LineEnded(w, e)
  BY <1>0, LineEndMore, Zenon
<1>10. /\ Len(w) = n + 7 /\ w[n + 1] = "-" /\ w[n + 2] = "-" /\ w[n + 3] = "b" /\ w[n + 4] = "-" /\ w[n + 5] = "-"
       /\ w[n + 6] = CR /\ w[n + 7] = LF /\ \A i \in 1..n : w[i] = a[i]
  <2>1. LineEnded(w, e)
    BY <1>9, Zenon
  <2> QED
    BY <1>8, <2>1 DEF LineEnded
<1>11. w = a \o Dash \o Boundary \o Dash \o Crlf
  BY <1>0, <1>2, <1>3, <1>5, <1>7, <1>9, Zenon DEF Boundary
<1>12. n <= Len(w)
  BY <1>10
<1> QED
  BY <1>1, <1>10, <1>11, <1>12, Zenon DEF Begins, IsLast

(* The whole body. *)
LEMMA WireLayout ==
  ASSUME NEW v \in Seq(Item)
  PROVE  /\ Wire(v) \in Seq(Letters) /\ At(v, 0) = 0 /\ At(v, Len(v)) \in Nat
         /\ IsLast(Wire(v), At(v, Len(v))) /\ Begins(Written(v)[Len(v)], Wire(v), Letters)
<1>1. PICK a : a = Written(v)[Len(v)]
  OBVIOUS
<1>2. a \in Seq(Letters)
  <2>1. Len(Serialized(v)) \in 0..Len(Serialized(v))
    BY ItemsAre
  <2>2. Begins(Written(v)[Len(Serialized(v))], Written(v)[Len(Serialized(v))], Letters)
    BY <2>1, WrittenIs, ItemsAre, InFront, Zenon
  <2> QED
    BY <1>1, <2>2, ItemsAre, Zenon DEF Begins
<1>3. PICK w \in Seq(Letters) : /\ w = a \o Dash \o Boundary \o Dash \o Crlf
                                /\ Begins(a, w, Letters) /\ IsLast(w, Len(a))
  BY <1>2, LastBoundary, Zenon
<1>4. w = Wire(v)
  BY <1>1, <1>3, WrittenIs, Zenon DEF Wire, SerializeMultipartFormdata, Serialized
<1>5. Written(v)[0] = <<>>
  BY WrittenIs, Zenon DEF Accumulates
<1>6. At(v, 0) = 0
  BY <1>5 DEF At
<1>7. Len(a) \in Nat
  BY <1>2
<1> QED
  BY <1>1, <1>3, <1>4, <1>6, <1>7, Zenon DEF At

LEMMA PartLayout ==
  ASSUME NEW v \in Seq(Item), NEW k \in 0..(Len(v) - 1)
  PROVE  /\ v[k + 1] \in Item /\ ItemAt(Wire(v), At(v, k), v[k + 1])
         /\ At(v, k) \in Nat /\ Len(v[k + 1].content) \in Nat /\ HeadOf(v[k + 1]) \in {10, 13}
         /\ At(v, k + 1) = DelimiterAt(v, k) + 2 /\ At(v, k + 1) <= At(v, Len(v))
<1>1. /\ Len(v) \in Nat /\ Len(v) = Len(Serialized(v)) /\ k + 1 \in 1..Len(v)
      /\ k + 1 \in 0..Len(Serialized(v)) /\ k \in 0..(Len(Serialized(v)) - 1)
  BY ItemsAre
<1>2. PICK m \in Item : m = v[k + 1] /\ IsItem(Serialized(v)[k + 1], m)
  BY <1>1, ItemsAre, Zenon
<1>3. Joins(Written(v)[k + 1], Written(v)[k], Serialized(v)[k + 1], Letters)
  BY <1>1, WrittenIs, Zenon DEF Accumulates
<1>4. Begins(Written(v)[k + 1], Written(v)[Len(v)], Letters)
  <2>1. Begins(Written(v)[k + 1], Written(v)[Len(Serialized(v))], Letters)
    BY <1>1, WrittenIs, ItemsAre, InFront, Zenon
  <2> QED
    BY <1>1, <2>1, Zenon
<1>5. Begins(Written(v)[k + 1], Wire(v), Letters)
  BY <1>4, WireLayout, BeginsAll, Zenon
<1>6. /\ ItemAt(Wire(v), Len(Written(v)[k]), m) /\ Len(Written(v)[k]) \in Nat
      /\ Len(Written(v)[k + 1]) = Len(Written(v)[k]) + HeadOf(m) + Len(m.content) + 2
  <2>1. PICK a : a = Written(v)[k]
    OBVIOUS
  <2>2. PICK b : b = Written(v)[k + 1]
    OBVIOUS
  <2>3. PICK t : t = Serialized(v)[k + 1]
    OBVIOUS
  <2>4. IsItem(t, m) /\ Joins(b, a, t, Letters) /\ Begins(b, Wire(v), Letters)
    BY <1>2, <1>3, <1>5, <2>1, <2>2, <2>3, Zenon
  <2>5. ItemAt(Wire(v), Len(a), m) /\ Len(b) = Len(a) + HeadOf(m) + Len(m.content) + 2 /\ Len(a) \in Nat
    BY <2>4, ItemPlaced, Zenon
  <2> QED
    BY <2>1, <2>2, <2>5, Zenon
<1>7. Len(m.content) \in Nat /\ HeadOf(m) \in {10, 13}
  BY <1>2, Zenon DEF IsItem
<1>8. Len(Written(v)[k + 1]) <= Len(Written(v)[Len(v)])
  BY <1>4, Zenon DEF Begins
<1> QED
  BY <1>2, <1>6, <1>7, <1>8, Zenon DEF At, ContentAt, DelimiterAt

-----------------------------------------------------------------------------
(* The first place from p on where s stands in w, and what buf_find makes  *)
(* of it when the buffer is w from p to q.                                 *)
FirstAt(w, s, p, x) == x \in Nat /\ p <= x /\ OccursAt(w, s, x) /\ \A y \in p..(x - 1) : ~OccursAt(w, s, y)

LEMMA Shifted ==
  ASSUME NEW w, NEW b, NEW s, NEW p \in Nat, NEW l \in Nat, PieceOf(b, w, p, l), Len(s) \in Nat,
         NEW y \in Nat, y + Len(s) <= l
  PROVE  OccursAt(b, s, y) <=> OccursAt(w, s, p + y)
<1>1. \A j \in 1..l : b[j] = w[p + j]
  BY Zenon DEF PieceOf
<1>2. ASSUME NEW i \in 1..Len(s) PROVE b[y + i] = w[(p + y) + i]
  <2>1. y + i \in 1..l /\ p + (y + i) = (p + y) + i
    OBVIOUS
  <2> QED
    BY <1>1, <2>1
<1> QED
  BY <1>2 DEF OccursAt

LEMMA BufferIs ==
  ASSUME NEW T, NEW w \in Seq(T), NEW p \in Nat, NEW q \in Nat, p <= q, q <= Len(w)
  PROVE  \E b \in Seq(T) : b = Remaining(w, p, q) /\ PieceOf(b, w, p, q - p)
<1>1. PICK u \in Seq(T) : u = SubSeq(w, p + 1, q) /\ PieceOf(u, w, p, q - p)
  BY Piece, Zenon
<1> QED
  BY <1>1, Zenon DEF Remaining

LEMMA FindKnown ==
  ASSUME NEW T, NEW w \in Seq(T), NEW p \in Nat, NEW q \in Nat, p <= q, q <= Len(w), buf = Remaining(w, p, q),
         NEW s \in Seq(T), Len(s) > 0, NEW x, FirstAt(w, s, p, x)
  PROVE  (x + Len(s) <= q => Find(s) = x - p) /\ (~(x + Len(s) <= q) => Find(s) = q - p)
<1>1. buf \in Seq(T) /\ PieceOf(buf, w, p, q - p) /\ Len(buf) = q - p
  <2>1. PICK b \in Seq(T) : b = Remaining(w, p, q) /\ PieceOf(b, w, p, q - p)
    BY BufferIs, Zenon
  <2>2. buf = b
    BY <2>1
  <2> QED
    BY <2>1, <2>2, Zenon DEF PieceOf
<1>2. PICK n : n = Find(s) /\ (FindsNone(buf, s, n) \/ FindsAt(buf, s, n))
  BY <1>1, FindFinds
<1>3. PICK l \in Nat, m \in Nat : l = q - p /\ m = Len(s)
  <2>1. q - p \in Nat /\ Len(s) \in Nat
    OBVIOUS
  <2> QED
    BY <2>1, Zenon
<1>4. x \in Nat /\ p <= x /\ OccursAt(w, s, x) /\ \A y \in p..(x - 1) : ~OccursAt(w, s, y)
  BY Zenon DEF FirstAt
<1>5. \A y \in Nat : y + m <= l => (OccursAt(buf, s, y) <=> OccursAt(w, s, p + y))
  BY <1>1, <1>3, Shifted, Zenon
<1>6. CASE FindsNone(buf, s, n)
  <2>1. n = l /\ \A y \in 0..(l - m) : ~OccursAt(buf, s, y)
    BY <1>1, <1>3, <1>6, Zenon DEF FindsNone
  <2>2. ~(x + m <= q)
    <3>1. SUFFICES ASSUME x + m <= q PROVE FALSE
      OBVIOUS
    <3>2. x - p \in Nat /\ (x - p) + m <= l /\ p + (x - p) = x /\ x - p \in 0..(l - m)
      BY <1>3, <1>4, <3>1
    <3> QED
      BY <1>4, <1>5, <2>1, <3>2
  <2> QED
    BY <1>2, <1>3, <2>1, <2>2
<1>7. CASE FindsAt(buf, s, n)
  <2>1. n \in Nat /\ n + m <= l /\ OccursAt(buf, s, n) /\ \A y \in 0..(n - 1) : ~OccursAt(buf, s, y)
    BY <1>1, <1>3, <1>7, Zenon DEF FindsAt
  <2>2. OccursAt(w, s, p + n)
    BY <1>5, <2>1, Zenon
  <2>3. x <= p + n
    <3>1. SUFFICES ASSUME ~(x <= p + n) PROVE FALSE
      OBVIOUS
    <3>2. p + n \in p..(x - 1)
      BY <1>4, <2>1, <3>1
    <3> QED
      BY <1>4, <2>2, <3>2, Zenon
  <2>4. x + m <= q /\ x - p \in Nat /\ (x - p) + m <= l /\ p + (x - p) = x
    BY <1>3, <1>4, <2>1, <2>3
  <2>5. OccursAt(buf, s, x - p)
    BY <1>4, <1>5, <2>4
  <2>6. n = x - p
    <3>1. SUFFICES ASSUME n # x - p PROVE FALSE
      OBVIOUS
    <3>2. x - p \in 0..(n - 1)
      BY <2>1, <2>3, <2>4, <3>1
    <3> QED
      BY <2>1, <2>5, <3>2, Zenon
  <2> QED
    BY <1>2, <1>3, <2>4, <2>6
<1> QED
  BY <1>2, <1>6, <1>7

-----------------------------------------------------------------------------
(* What stands where. *)
BoundaryAt(w, a) == w[a + 1] = "-" /\ w[a + 2] = "-" /\ w[a + 3] = "b"
LEMMA BoundaryThere ==
  ASSUME NEW v \in Seq(Item), NEW k \in 0..Len(v)
  PROVE  /\ At(v, k) \in Nat /\ BoundaryAt(Wire(v), At(v, k)) /\ At(v, k) + 5 <= Len(Wire(v))
         /\ k < Len(v) => Wire(v)[At(v, k) + 4] = CR /\ Wire(v)[At(v, k) + 5] = LF
         /\ k = Len(v) => IsLast(Wire(v), At(v, k))
<1>0. Len(v) \in Nat /\ At(v, Len(v)) \in Nat /\ IsLast(Wire(v), At(v, Len(v))) /\ Len(Wire(v)) = At(v, Len(v)) + 7
  BY ItemsAre, WireLayout DEF IsLast
<1>1. CASE k = Len(v)
  <2>1. At(v, k) + 5 <= Len(Wire(v))
    BY <1>0, <1>1
  <2> QED
    BY <1>0, <1>1, <2>1 DEF IsLast, BoundaryAt
<1>2. CASE k # Len(v)
  <2>1. k \in 0..(Len(v) - 1)
    BY <1>0, <1>2
  <2>2. IsHead(Wire(v), At(v, k), v[k + 1]) /\ At(v, k) \in Nat
    BY <2>1, PartLayout, Zenon DEF ItemAt
  <2>3. At(v, k) + 5 <= Len(Wire(v))
    <3>1. /\ HeadOf(v[k + 1]) \in {10, 13} /\ Len(v[k + 1].content) \in Nat
          /\ At(v, k + 1) = DelimiterAt(v, k) + 2 /\ At(v, k + 1) <= At(v, Len(v))
      BY <2>1, PartLayout, Zenon
    <3>2. At(v, k + 1) = At(v, k) + HeadOf(v[k + 1]) + Len(v[k + 1].content) + 2
      BY <3>1, Zenon DEF DelimiterAt, ContentAt
    <3>3. PICK a, b, c, e, h, n : /\ a = At(v, k) /\ b = At(v, k + 1) /\ c = Len(v[k + 1].content)
                                  /\ e = At(v, Len(v)) /\ h = HeadOf(v[k + 1]) /\ n = Len(Wire(v))
      BY Zenon
    <3>4. a \in Nat /\ b = a + h + c + 2 /\ c \in Nat /\ b <= e /\ e \in Nat /\ h \in {10, 13} /\ n = e + 7
      BY <1>0, <2>2, <3>1, <3>2, <3>3, Zenon
    <3>5. a + 5 <= n
      BY <3>4
    <3> QED
      BY <3>3, <3>5, Zenon
  <2> QED
    BY <1>2, <2>2, <2>3, Zenon DEF IsHead, BoundaryAt
<1> QED
  BY <1>1, <1>2

LEMMA ContentOf ==
  ASSUME NEW v \in Seq(Item), NEW k \in 0..(Len(v) - 1)
  PROVE  /\ v[k + 1].content \in Seq(Letters) /\ k + 1 \in DOMAIN v
         /\ ContentAt(v, k) \in Nat /\ DelimiterAt(v, k) \in Nat
         /\ DelimiterAt(v, k) = ContentAt(v, k) + Len(v[k + 1].content)
         /\ \A j \in 1..Len(v[k + 1].content) : Wire(v)[ContentAt(v, k) + j] = v[k + 1].content[j]
         /\ Wire(v)[DelimiterAt(v, k) + 1] = CR /\ Wire(v)[DelimiterAt(v, k) + 2] = LF
<1>1. /\ v[k + 1] \in Item /\ At(v, k) \in Nat /\ Len(v[k + 1].content) \in Nat /\ HeadOf(v[k + 1]) \in {10, 13}
      /\ IsRest(Wire(v), ContentAt(v, k), v[k + 1])
  BY PartLayout, Zenon DEF ItemAt, ContentAt
<1>2. v[k + 1].content \in Seq(Letters)
  BY <1>1, LettersHave, Zenon
<1>3. ContentAt(v, k) \in Nat
  BY <1>1 DEF ContentAt
<1>4. DelimiterAt(v, k) = ContentAt(v, k) + Len(v[k + 1].content)
  BY Zenon DEF DelimiterAt
<1>5. DelimiterAt(v, k) \in Nat
  BY <1>1, <1>3, <1>4
<1>6. k + 1 \in DOMAIN v
  OBVIOUS
<1> QED
  BY <1>1, <1>2, <1>3, <1>4, <1>5, <1>6, Zenon DEF IsRest

(* A text of five symbols that a content does not have in it. *)
LEMMA NotInContent ==
  ASSUME NEW v \in Seq(Item), NEW k \in 0..(Len(v) - 1), NEW s \in Seq(Letters), Len(s) = 5, Without(v, s),
         NEW x \in Nat, ContentAt(v, k) <= x, x + 5 <= DelimiterAt(v, k)
  PROVE  ~OccursAt(Wire(v), s, x)
<1>1. SUFFICES ASSUME OccursAt(Wire(v), s, x) PROVE FALSE
  OBVIOUS
<1>2. PICK c \in Seq(Letters) : c = v[k + 1].content /\ s \notin SubSeqs(c)
  <2>1. s \notin SubSeqs(v[k + 1].content)
    BY ContentOf, Zenon DEF Without
  <2> QED
    BY <2>1, ContentOf, Zenon
<1>3. PICK a \in Nat, l \in Nat : a = ContentAt(v, k) /\ l = Len(c)
  BY ContentOf
<1>4. DelimiterAt(v, k) = a + l /\ \A j \in 1..l : Wire(v)[a + j] = c[j]
  BY <1>2, <1>3, ContentOf, Zenon
<1>5. PICK y \in 0..(l - 5) : x = a + y
  <2>1. x - a \in 0..(l - 5) /\ x = a + (x - a)
    BY <1>3, <1>4
  <2> QED
    BY <2>1
<1>6. ASSUME NEW i \in 1..5 PROVE c[y + i] = s[i]
  <2>1. y + i \in 1..l /\ a + (y + i) = x + i
    BY <1>5
  <2>2. Wire(v)[x + i] = s[i]
    BY <1>1, Zenon DEF OccursAt
  <2> QED
    BY <1>4, <2>1, <2>2
<1>7. OccursAt(c, s, y) /\ Len(s) > 0 /\ y \in 0..(Len(c) - Len(s))
  BY <1>3, <1>6 DEF OccursAt
<1> QED
  BY <1>2, <1>7, NotWithin, Zenon

LEMMA DelimiterFirst ==
  ASSUME NEW v \in Seq(Item), NEW k \in 0..(Len(v) - 1), Without(v, CrlfDashBoundary),
         NEW p \in Nat, ContentAt(v, k) <= p, p <= DelimiterAt(v, k)
  PROVE  FirstAt(Wire(v), CrlfDashBoundary, p, DelimiterAt(v, k))
<1>1. PICK s \in Seq(Letters) : s = CrlfDashBoundary /\ Len(s) = 5 /\ IsDelimiter(s)
  BY DelimiterIs, Zenon
<1>2. PICK z \in Nat : z = DelimiterAt(v, k)
  BY ContentOf
<1>3. PICK w : w = Wire(v)
  OBVIOUS
<1>4. w[z + 1] = CR /\ w[z + 2] = LF
  BY <1>2, <1>3, ContentOf, Zenon
<1>5. w[z + 3] = "-" /\ w[z + 4] = "-" /\ w[z + 5] = "b"
  <2>1. k + 1 \in 0..Len(v)
    BY ItemsAre
  <2>2. BoundaryAt(w, z + 2)
    BY <1>2, <1>3, <2>1, PartLayout, BoundaryThere, Zenon
  <2> QED
    BY <2>2 DEF BoundaryAt
<1>6. OccursAt(w, s, z)
  <2>1. s[1] = CR /\ s[2] = LF /\ s[3] = "-" /\ s[4] = "-" /\ s[5] = "b"
    BY <1>1, Zenon DEF IsDelimiter
  <2>2. ASSUME NEW i \in 1..5 PROVE w[z + i] = s[i]
    <3>1. i = 1 \/ i = 2 \/ i = 3 \/ i = 4 \/ i = 5
      OBVIOUS
    <3> QED
      BY <1>4, <1>5, <2>1, <3>1
  <2> QED
    BY <1>1, <2>2, Zenon DEF OccursAt
<1>7. ASSUME NEW y \in p..(z - 1) PROVE ~OccursAt(w, s, y)
  <2>1. y \in Nat /\ ContentAt(v, k) <= y /\ y < z
    BY ContentOf
  <2>2. CASE y + 5 <= z
    BY <1>1, <1>2, <1>3, <2>1, <2>2, NotInContent
  <2>3. CASE ~(y + 5 <= z)
    <3>1. SUFFICES ASSUME OccursAt(w, s, y) PROVE FALSE
      OBVIOUS
    <3>2. \A i \in 1..5 : w[y + i] = s[i]
      BY <1>1, <3>1, Zenon DEF OccursAt
    <3>3. PICK i \in 2..5 : y + i = z + 1
      <4>1. (z + 1) - y \in 2..5 /\ y + ((z + 1) - y) = z + 1
        BY <2>1, <2>3
      <4> QED
        BY <4>1
    <3>4. s[i] = CR
      <4>1. i \in 1..5
        OBVIOUS
      <4>2. w[y + i] = s[i]
        BY <3>2, <4>1, Zenon
      <4> QED
        BY <1>4, <3>3, <4>2, Zenon
    <3>5. s[2] = LF /\ s[3] = "-" /\ s[4] = "-" /\ s[5] = "b"
      BY <1>1, Zenon DEF IsDelimiter
    <3>6. i = 2 \/ i = 3 \/ i = 4 \/ i = 5
      OBVIOUS
    <3> QED
      BY <3>4, <3>5, <3>6 DEF CR, LF
  <2> QED
    BY <2>2, <2>3
<1>8. p <= z
  BY <1>2
<1> QED
  BY <1>1, <1>2, <1>3, <1>6, <1>7, <1>8, Zenon DEF FirstAt

(* A line like the first boundary is the beginning of a part, or the end   *)
(* of a content and the line end behind it.                                *)
IsBoundaryLine(w, x) == w[x + 1] = "-" /\ w[x + 2] = "-" /\ w[x + 3] = "b" /\ w[x + 4] = CR /\ w[x + 5] = LF
LEMMA BoundaryLineAt ==
  ASSUME NEW w, NEW x
  PROVE  OccursAt(w, DashBoundaryCrlf, x) <=> IsBoundaryLine(w, x)
<1>1. PICK d \in Seq(Letters) :
        d = DashBoundaryCrlf /\ Len(d) = 5 /\ d[1] = "-" /\ d[2] = "-" /\ d[3] = "b" /\ d[4] = CR /\ d[5] = LF
  BY BoundaryLine
<1>2. OccursAt(w, d, x) <=> \A i \in 1..5 : w[x + i] = d[i]
  BY <1>1, Zenon DEF OccursAt
<1>3. (\A i \in 1..5 : w[x + i] = d[i]) <=> /\ w[x + 1] = d[1] /\ w[x + 2] = d[2] /\ w[x + 3] = d[3]
                                            /\ w[x + 4] = d[4] /\ w[x + 5] = d[5]
  <2>1. \A i \in 1..5 : i = 1 \/ i = 2 \/ i = 3 \/ i = 4 \/ i = 5
    OBVIOUS
  <2>2. 1 \in 1..5 /\ 2 \in 1..5 /\ 3 \in 1..5 /\ 4 \in 1..5 /\ 5 \in 1..5
    OBVIOUS
  <2> QED
    BY <2>1, <2>2, Zenon
<1> QED
  BY <1>1, <1>2, <1>3, Zenon DEF IsBoundaryLine

LEMMA NoLineInHead ==
  ASSUME NEW w, NEW a \in Nat, NEW m, IsHead(w, a, m), NEW x \in Nat, a < x, x < a + HeadOf(m), IsBoundaryLine(w, x)
  PROVE  FALSE
<1>1. w[x + 1] = "-" /\ w[x + 2] = "-"
  BY DEF IsBoundaryLine
<1>2. /\ w[a + 3] = "b" /\ w[a + 4] = CR /\ w[a + 5] = LF /\ w[a + 7] = CR /\ w[a + 8] = LF
  BY DEF IsHead
<1>3. CR # "-" /\ LF # "-" /\ "b" # "-"
  BY DEF CR, LF
<1>4. x # a + 1 /\ x # a + 2 /\ x # a + 3 /\ x # a + 4 /\ x # a + 5 /\ x # a + 6 /\ x # a + 7
  BY <1>1, <1>2, <1>3
<1>5. CASE m.type = ""
  <2>1. w[a + 9] = CR /\ w[a + 10] = LF
    BY <1>5, Zenon DEF IsHead
  <2>2. x # a + 8 /\ x # a + 9
    BY <1>1, <1>3, <2>1
  <2>3. x < a + 10
    BY <1>5 DEF HeadOf
  <2> QED
    BY <1>4, <2>2, <2>3
<1>6. CASE m.type # ""
  <2>1. w[a + 10] = CR /\ w[a + 11] = LF /\ w[a + 12] = CR /\ w[a + 13] = LF
    BY <1>6, Zenon DEF IsHead
  <2>2. x # a + 8 /\ x # a + 9 /\ x # a + 10 /\ x # a + 11 /\ x # a + 12
    BY <1>1, <1>3, <2>1
  <2>3. x < a + 13
    BY <1>6 DEF HeadOf
  <2> QED
    BY <1>4, <2>2, <2>3
<1> QED
  BY <1>5, <1>6

LEMMA LineInPart ==
  ASSUME NEW v \in Seq(Item), NEW k \in 0..(Len(v) - 1), Without(v, DashBoundaryCrlf),
         NEW x \in Nat, At(v, k) <= x, x < At(v, k + 1), IsBoundaryLine(Wire(v), x)
  PROVE  x = At(v, k) \/ x + 5 = At(v, k + 1)
<1>1. PICK a \in Nat, c \in Nat, z \in Nat : a = At(v, k) /\ c = ContentAt(v, k) /\ z = DelimiterAt(v, k)
  BY PartLayout, ContentOf, Zenon
<1>2. PICK w, m : w = Wire(v) /\ m = v[k + 1]
  BY Zenon
<1>3. IsHead(w, a, m) /\ c = a + HeadOf(m) /\ At(v, k + 1) = z + 2 /\ c <= z
  <2>1. IsHead(w, a, m) /\ c = a + HeadOf(m) /\ At(v, k + 1) = z + 2
    BY <1>1, <1>2, PartLayout, Zenon DEF ItemAt, ContentAt
  <2>2. PICK l \in Nat : z = c + l
    BY <1>1, PartLayout, ContentOf, Zenon
  <2> QED
    BY <2>1, <2>2
<1>4. IsBoundaryLine(w, x) /\ a <= x /\ x < z + 2
  BY <1>1, <1>2, <1>3, Zenon
<1>5. CASE x < c
  BY <1>3, <1>4, <1>5, <1>1, NoLineInHead
<1>6. CASE c <= x /\ x + 5 <= z
  <2>1. ~OccursAt(Wire(v), DashBoundaryCrlf, x)
    BY <1>1, <1>6, NotInContent, BoundaryLineIs, Zenon
  <2> QED
    BY <1>2, <1>4, <2>1, BoundaryLineAt, Zenon
<1>7. CASE ~(x < c) /\ ~(x + 5 <= z)
  <2>1. w[z + 1] = CR /\ w[z + 2] = LF
    BY <1>1, <1>2, ContentOf, Zenon
  <2>2. w[x + 1] = "-" /\ w[x + 2] = "-" /\ w[x + 3] = "b" /\ w[x + 4] = CR /\ w[x + 5] = LF
    BY <1>4, Zenon DEF IsBoundaryLine
  <2>3. CR # "-" /\ CR # "b" /\ CR # LF /\ LF # "-"
    BY DEF CR, LF
  <2>4. x # z + 1 /\ x # z /\ x + 1 # z /\ x + 2 # z /\ x + 4 # z
    BY <2>1, <2>2, <2>3
  <2>5. x + 3 = z
    BY <1>4, <1>7, <2>4
  <2>6. x + 5 = z + 2
    BY <2>5
  <2> QED
    BY <1>3, <2>6, Zenon
<1> QED
  BY <1>1, <1>5, <1>6, <1>7

LEMMA LinesOnTheWire ==
  ASSUME NEW v \in Seq(Item), Without(v, DashBoundaryCrlf),
         NEW x \in Nat, x + 5 <= Len(Wire(v)), IsBoundaryLine(Wire(v), x)
  PROVE  (\E k \in 0..(Len(v) - 1) : x = At(v, k)) \/ (\E k \in 1..Len(v) : x + 5 = At(v, k))
<1> DEFINE R == {m \in 0..Len(v) : x < At(v, m)}
<1>0. Len(v) \in Nat
  BY ItemsAre
<1>1. CASE R = {}
  <2>1. PICK a \in Nat : a = At(v, Len(v)) /\ ~(x < a)
    <3>1. Len(v) \in 0..Len(v)
      BY <1>0
    <3>2. ~(x < At(v, Len(v)))
      BY <1>1, <3>1
    <3> QED
      BY <3>2, WireLayout, Zenon
  <2>2. PICK w : w = Wire(v)
    OBVIOUS
  <2>3. IsLast(w, a)
    BY <2>1, <2>2, WireLayout, Zenon
  <2>4. Len(w) = a + 7 /\ w[a + 3] = "b" /\ w[a + 4] = "-"
    BY <2>3, Zenon DEF IsLast
  <2>5. w[x + 1] = "-" /\ w[x + 2] = "-" /\ w[x + 3] = "b" /\ w[x + 4] = CR
    BY <2>2, Zenon DEF IsBoundaryLine
  <2>6. x + 5 <= a + 7
    BY <2>2, <2>4, Zenon
  <2>7. x = a \/ x = a + 1 \/ x = a + 2
    BY <2>1, <2>6
  <2> QED
    BY <2>4, <2>5, <2>7 DEF CR
<1>2. CASE R # {}
  <2>1. PICK m \in R : \A y \in R : m <= y
    <3>1. R \in SUBSET Nat
      OBVIOUS
    <3> QED
      BY <1>2, <3>1, LeastNatural
  <2>2. m \in 0..Len(v) /\ x < At(v, m)
    BY <2>1
  <2>3. m # 0
    BY <2>2, WireLayout
  <2>4. m - 1 \in 0..(Len(v) - 1) /\ m - 1 \in 0..Len(v) /\ (m - 1) + 1 = m /\ m \in 1..Len(v) /\ ~(m <= m - 1)
    BY <1>0, <2>2, <2>3
  <2>5. ~(x < At(v, m - 1))
    BY <2>1, <2>4
  <2>6. At(v, m - 1) <= x
    <3>1. At(v, m - 1) \in Nat
      BY <2>4, BoundaryThere, Zenon
    <3> QED
      BY <2>5, <3>1
  <2>7. PICK k \in 0..(Len(v) - 1) : k = m - 1 /\ At(v, k) <= x /\ x < At(v, k + 1) /\ k + 1 \in 1..Len(v)
    BY <2>2, <2>4, <2>6, Zenon
  <2>8. x = At(v, k) \/ x + 5 = At(v, k + 1)
    BY <2>7, LineInPart, Zenon
  <2> QED
    BY <2>7, <2>8, Zenon
<1> QED
  BY <1>1, <1>2

-----------------------------------------------------------------------------
(***************************************************************************)
(* Where the parser stands: b is what lies in the buffer, behind position  *)
(* p, and r what has not been read, behind position q.                     *)
(***************************************************************************)
Window(v, p, q, b, r) ==
  /\ p \in Nat /\ q \in Nat /\ p <= q /\ q <= Len(Wire(v))
  /\ b = Remaining(Wire(v), p, q) /\ r = Remaining(Wire(v), q, Len(Wire(v)))

(* Handed over: the parts j + 1 to k, or those and l bytes of the next.    *)
Parted(v, j, k, o) == o = SubSeq(v, j + 1, k)
Got(v, j, k, o, l) ==
  o = Append(SubSeq(v, j + 1, k), [v[k + 1] EXCEPT !.content = SubSeq(v[k + 1].content, 1, l)])

(* In part k + 1, j parts having been lost.  Between two pieces q is       *)
(* before the end of what the parser waits for.                            *)
OpensPart(v, j, k, p, q, pr, s, o) ==
  s = "new" /\ p = At(v, k) + 5 /\ Parted(v, j, k, o) /\ (pr = FALSE => q = p)
ReadsName(v, j, k, p, q, pr, s, f, o) ==
  s = "headers" /\ p = At(v, k) + 5 /\ Parted(v, j, k, o) /\ f = NoFile /\ (pr = FALSE => q < At(v, k) + 8)
ReadsType(v, j, k, p, q, pr, s, f, o) ==
  /\ s = "headers" /\ v[k + 1].type # "" /\ p = At(v, k) + 8 /\ Parted(v, j, k, o)
  /\ f = [NoFile EXCEPT !.name = v[k + 1].name] /\ (pr = FALSE => q < At(v, k) + 11)
ReadsEmpty(v, j, k, p, q, pr, s, f, o) ==
  /\ s = "headers" /\ p + 2 = ContentAt(v, k) /\ Parted(v, j, k, o)
  /\ f = [v[k + 1] EXCEPT !.content = <<>>] /\ (pr = FALSE => q < ContentAt(v, k))
ReadsContent(v, j, k, p, q, pr, s, o) ==
  /\ s = "body" /\ p >= ContentAt(v, k) /\ p <= DelimiterAt(v, k)
  /\ Got(v, j, k, o, p - ContentAt(v, k)) /\ (pr = FALSE => q < DelimiterAt(v, k) + 5)
EndsPart(v, j, k, p, q, pr, s, o) ==
  s = "boundary" /\ p = DelimiterAt(v, k) + 5 /\ Parted(v, j, k + 1, o) /\ (pr = FALSE => q < p + 2)

InPart(v, j, k, p, q, pr, s, f, o) ==
  \/ OpensPart(v, j, k, p, q, pr, s, o) \/ ReadsName(v, j, k, p, q, pr, s, f, o)
  \/ ReadsType(v, j, k, p, q, pr, s, f, o) \/ ReadsEmpty(v, j, k, p, q, pr, s, f, o)
  \/ ReadsContent(v, j, k, p, q, pr, s, o) \/ EndsPart(v, j, k, p, q, pr, s, o)

(* Before the first boundary, n being the length of the first piece.       *)
Seeks(p, q, pr, s, n, o) ==
  s = "initial" /\ o = <<>> /\ (n = 0 => q = 0 /\ pr = FALSE) /\ (n >= 5 => p = 0 /\ q >= 5 /\ pr = TRUE)

(* A content that ends like a boundary was taken for the first one: then a *)
(* boundary stands where a header belongs.                                 *)
Misled(v, p, s, n) == s \in {"new", "headers"} /\ n \in 1..4 /\ \E k \in 1..Len(v) : p = At(v, k)

(* Behind the last boundary. *)
Accepted(v, j, p, s, o) ==
  /\ (s = "boundary" /\ p + 2 >= Len(Wire(v))) \/ (s = "new" /\ p = Len(Wire(v)))
  /\ Parted(v, j, Len(v), o)

(* Parts that may have been lost: none if the first piece was long enough. *)
Lost(v, j, n) == j \in 0..(Len(v) - 1) /\ n \in Nat /\ n # 0 /\ (n >= 5 => j = 0)

Parsing(v, s, b, r, pr, f, va, n, o) ==
  \/ s = "refused" /\ va = FALSE /\ ~(Named(v) /\ n >= 5)
  \/ \E p, q : /\ Window(v, p, q, b, r)
               /\ \/ va = FALSE /\ Seeks(p, q, pr, s, n, o)
                  \/ va = FALSE /\ Misled(v, p, s, n)
                  \/ va = FALSE /\ \E j : Lost(v, j, n) /\ \E k \in j..(Len(v) - 1) : InPart(v, j, k, p, q, pr, s, f, o)
                  \/ va = TRUE /\ \E j : Lost(v, j, n) /\ Accepted(v, j, p, s, o)

Suits(v, n) ==
  /\ v \in Seq(Item) /\ v # <<>> /\ Without(v, CrlfDashBoundary)
  /\ n \in Nat /\ (n = 0 \/ n >= 5 \/ Without(v, DashBoundaryCrlf))

MultipartInv ==
  /\ input \in Inputs
  /\ input.kind = "multipart" =>
       /\ first \in Nat /\ parsing \in BOOLEAN
       /\ Suits(input.value, first) => Parsing(input.value, state, buf, rest, parsing, file, valid, first, out)

-----------------------------------------------------------------------------
(* The window. *)
LEMMA WindowIs ==
  ASSUME NEW v \in Seq(Item), NEW p, NEW q, NEW b, NEW r, Window(v, p, q, b, r)
  PROVE  /\ b \in Seq(Letters) /\ PieceOf(b, Wire(v), p, q - p) /\ Len(b) = q - p /\ (b = <<>> <=> p = q)
         /\ r \in Seq(Letters) /\ Len(r) = Len(Wire(v)) - q /\ (r = <<>> <=> q = Len(Wire(v)))
         /\ p \in Nat /\ q \in Nat /\ p <= q /\ q <= Len(Wire(v)) /\ Len(Wire(v)) \in Nat
<1>1. PICK w \in Seq(Letters) : w = Wire(v)
  BY WireLayout
<1>2. /\ p \in Nat /\ q \in Nat /\ p <= q /\ q <= Len(w)
      /\ b = Remaining(w, p, q) /\ r = Remaining(w, q, Len(w))
  BY <1>1, Zenon DEF Window
<1>3. Len(w) \in Nat /\ q <= Len(w) /\ Len(w) <= Len(w)
  BY <1>2
<1>4. PICK c \in Seq(Letters) : c = Remaining(w, p, q) /\ PieceOf(c, w, p, q - p)
  BY <1>2, BufferIs, Zenon
<1>5. PICK e \in Seq(Letters) : e = Remaining(w, q, Len(w)) /\ PieceOf(e, w, q, Len(w) - q)
  BY <1>2, <1>3, BufferIs, Zenon
<1>6. Len(c) = q - p /\ Len(e) = Len(w) - q
  BY <1>4, <1>5, Zenon DEF PieceOf
<1>7. (c = <<>> <=> p = q) /\ (e = <<>> <=> q = Len(w))
  <2>1. \A x \in Seq(Letters) : x = <<>> <=> Len(x) = 0
    OBVIOUS
  <2>2. (Len(c) = 0 <=> p = q) /\ (Len(e) = 0 <=> q = Len(w))
    BY <1>2, <1>3, <1>6
  <2> QED
    BY <2>1, <2>2, Zenon
<1> QED
  BY <1>1, <1>2, <1>3, <1>4, <1>5, <1>6, <1>7, Zenon

LEMMA WindowDrop ==
  ASSUME NEW v \in Seq(Item), NEW p, NEW q, NEW b, NEW r, Window(v, p, q, b, r), NEW d \in Nat, p + d <= q
  PROVE  Window(v, p + d, q, Drop(b, d), r)
<1>1. PICK w \in Seq(Letters) : w = Wire(v)
  BY WireLayout
<1>2. p \in Nat /\ q \in Nat /\ p <= q /\ q <= Len(w) /\ b = Remaining(w, p, q)
  BY <1>1, Zenon DEF Window
<1>3. p + d \in Nat
  BY <1>2
<1>4. Drop(Remaining(w, p, q), d) = Remaining(w, p + d, q)
  BY <1>2, DropRemaining, Zenon
<1> QED
  BY <1>1, <1>2, <1>3, <1>4, Zenon DEF Window

LEMMA WindowEmpty ==
  ASSUME NEW v \in Seq(Item), NEW p, NEW q, NEW b, NEW r, Window(v, p, q, b, r)
  PROVE  Window(v, q, q, <<>>, r)
<1>1. PICK w \in Seq(Letters) : w = Wire(v)
  BY WireLayout
<1>2. q \in Nat /\ q <= Len(w) /\ q <= q
  BY <1>1, WindowIs
<1>3. PICK c \in Seq(Letters) : c = Remaining(w, q, q) /\ PieceOf(c, w, q, q - q)
  BY <1>2, BufferIs, Zenon
<1>4. Len(c) = 0
  BY <1>2, <1>3 DEF PieceOf
<1>5. c = <<>>
  BY <1>4
<1> QED
  BY <1>1, <1>2, <1>3, <1>5, Zenon DEF Window

SplitAt(w, p, q, e, b) == b \o SubSeq(Remaining(w, q, Len(w)), 1, e - q) = Remaining(w, p, e)
LEMMA Resumed ==
  ASSUME NEW w \in Seq(Letters), NEW p \in Nat, NEW q \in Nat, NEW e \in Nat, p <= q, q <= e, e <= Len(w)
  PROVE  SplitAt(w, p, q, e, Remaining(w, p, q))
<1>0. Len(w) \in Nat /\ q <= Len(w) /\ p <= e /\ Len(w) <= Len(w) /\ e - q \in Nat /\ q - p \in Nat
  OBVIOUS
<1>1. PICK b \in Seq(Letters) : b = Remaining(w, p, q) /\ PieceOf(b, w, p, q - p)
  BY <1>0, BufferIs, Zenon
<1>2. PICK r \in Seq(Letters) : r = Remaining(w, q, Len(w)) /\ PieceOf(r, w, q, Len(w) - q)
  BY <1>0, BufferIs, Zenon
<1>3. PICK c \in Seq(Letters) : c = Remaining(w, p, e) /\ PieceOf(c, w, p, e - p)
  BY <1>0, BufferIs, Zenon
<1>4. e - q <= Len(r)
  <2>1. Len(r) = Len(w) - q
    BY <1>2, Zenon DEF PieceOf
  <2> QED
    BY <1>0, <2>1
<1>5. PICK u \in Seq(Letters) : u = SubSeq(r, 1, e - q) /\ FrontOf(u, r, e - q)
  BY <1>0, <1>4, FirstPiece, Zenon
<1>6. PICK g \in Seq(Letters) : g = b \o u /\ Together(g, b, u)
  BY Glued, Zenon
<1>7. PICK x \in Nat, y \in Nat : x = q - p /\ y = e - q
  BY <1>0, Zenon
<1>8. /\ \A i \in 1..x : b[i] = w[p + i]
      /\ \A i \in 1..y : u[i] = r[i]
      /\ Len(b) = x /\ Len(u) = y
  BY <1>1, <1>5, <1>7, Zenon DEF PieceOf, FrontOf
<1>9. \A i \in 1..y : u[i] = w[q + i]
  <2> TAKE i \in 1..y
  <2>1. i \in 1..(Len(w) - q)
    BY <1>0, <1>7
  <2>2. r[i] = w[q + i]
    BY <1>2, <2>1, Zenon DEF PieceOf
  <2> QED
    BY <1>8, <2>2, Zenon
<1>10. Together(g, b, u)
  BY <1>6, Zenon
<1>11. /\ Len(g) = x + y
       /\ \A i \in 1..x : g[i] = b[i]
       /\ \A i \in 1..y : g[x + i] = u[i]
  BY <1>8, <1>10, Zenon DEF Together
<1>12. /\ Len(c) = x + y
       /\ \A i \in 1..(x + y) : c[i] = w[p + i]
  <2>1. x + y = e - p
    BY <1>7
  <2> QED
    BY <1>3, <2>1, Zenon DEF PieceOf
<1>13. ASSUME NEW i \in 1..(x + y) PROVE g[i] = c[i]
  <2>1. CASE i <= x
    <3>1. i \in 1..x
      BY <2>1
    <3> QED
      BY <1>8, <1>11, <1>12, <3>1, Zenon
  <2>2. CASE ~(i <= x)
    <3>1. PICK l \in 1..y : i = x + l
      <4>1. i - x \in 1..y /\ i = x + (i - x)
        BY <2>2
      <4> QED
        BY <4>1
    <3>2. g[i] = w[q + l]
      BY <1>9, <1>11, <3>1, Zenon
    <3>3. q + l = p + i
      BY <1>7, <3>1
    <3> QED
      BY <1>12, <3>2, <3>3, Zenon
  <2> QED
    BY <2>1, <2>2
<1>14. g = c
  <2>1. Len(g) = Len(c) /\ \A i \in 1..Len(c) : g[i] = c[i]
    BY <1>11, <1>12, <1>13, Zenon
  <2> QED
    BY <2>1, SameSequence
<1> QED
  BY <1>1, <1>2, <1>3, <1>5, <1>6, <1>14, Zenon DEF SplitAt

LEMMA WindowMore ==
  ASSUME NEW v \in Seq(Item), NEW p, NEW q, NEW b, NEW r, Window(v, p, q, b, r), NEW d \in 1..Len(r)
  PROVE  Window(v, p, q + d, b \o SubSeq(r, 1, d), Drop(r, d))
<1>1. PICK w \in Seq(Letters) : w = Wire(v)
  BY WireLayout
<1>2. p \in Nat /\ q \in Nat /\ p <= q /\ q <= Len(w) /\ Len(r) = Len(w) - q /\ Len(w) \in Nat
  BY <1>1, WindowIs
<1>3. PICK e \in Nat : e = q + d /\ q <= e /\ p <= e /\ e <= Len(w) /\ e - q = d
  BY <1>2
<1>4. b = Remaining(w, p, q) /\ r = Remaining(w, q, Len(w))
  BY <1>1, Zenon DEF Window
<1>5. SplitAt(w, p, q, e, Remaining(w, p, q))
  BY <1>2, <1>3, Resumed, Zenon
<1>6. b \o SubSeq(r, 1, d) = Remaining(w, p, e)
  BY <1>3, <1>4, <1>5, Zenon DEF SplitAt
<1>7. Drop(r, d) = Remaining(w, e, Len(w))
  <2>1. PICK z \in Nat : z = Len(w) /\ q <= z /\ q + d <= z /\ z <= Len(w)
    BY <1>2, <1>3
  <2>2. d \in Nat
    OBVIOUS
  <2>3. Drop(Remaining(w, q, z), d) = Remaining(w, q + d, z)
    <3>1. PICK y \in Nat, x \in Nat : y = d /\ x = q
      BY <1>2, <2>2, Zenon
    <3>2. x <= z /\ z <= Len(w) /\ x + y <= z
      BY <2>1, <3>1, Zenon
    <3>3. Drop(Remaining(w, x, z), y) = Remaining(w, x + y, z)
      BY <3>2, DropRemaining, ZenonT(60)
    <3> QED
      BY <3>1, <3>3, Zenon
  <2> QED
    BY <1>3, <1>4, <2>1, <2>3, Zenon
<1> QED
  BY <1>1, <1>2, <1>3, <1>6, <1>7, Zenon DEF Window

(* What is handed over. *)
LEMMA GotNone ==
  ASSUME NEW v \in Seq(Item), NEW k \in 0..(Len(v) - 1), NEW j, NEW o, Parted(v, j, k, o)
  PROVE  Got(v, j, k, Append(o, [v[k + 1] EXCEPT !.content = <<>>]), 0)
<1>1. PICK c \in Seq(Letters) : c = v[k + 1].content
  BY ContentOf
<1>2. SubSeq(c, 1, 0) = <<>>
  OBVIOUS
<1> QED
  BY <1>1, <1>2, Zenon DEF Got, Parted

LEMMA LastAppended ==
  ASSUME NEW T, NEW a \in Seq(T), NEW e, NEW g, NEW o, o = Append(a, e)
  PROVE  o[Len(o)] = e /\ [o EXCEPT ![Len(o)] = g] = Append(a, g)
<1>1. PICK l \in Nat : l = Len(a)
  OBVIOUS
<1>2. PICK U : U = T \union {e, g}
  OBVIOUS
<1>3. a \in Seq(U) /\ e \in U /\ g \in U
  <2>1. T \subseteq U
    BY <1>2
  <2>2. a \in Seq(U)
    BY <2>1
  <2> QED
    BY <1>2, <2>2
<1>4. o \in Seq(U) /\ Len(o) = l + 1 /\ o[l + 1] = e /\ \A i \in 1..l : o[i] = a[i]
  BY <1>1, <1>3
<1>5. PICK x : x = Append(a, g)
  OBVIOUS
<1>6. x \in Seq(U) /\ Len(x) = l + 1 /\ x[l + 1] = g /\ \A i \in 1..l : x[i] = a[i]
  BY <1>1, <1>3, <1>5
<1>7. PICK y : y = [o EXCEPT ![l + 1] = g]
  OBVIOUS
<1>8. y \in Seq(U) /\ Len(y) = l + 1 /\ y[l + 1] = g /\ \A i \in 1..l : y[i] = o[i]
  <2>1. PICK n \in Nat : n = l + 1 /\ l = n - 1
    OBVIOUS
  <2>2. o \in Seq(U) /\ g \in U /\ Len(o) = n /\ n \in 1..Len(o) /\ y = [o EXCEPT ![n] = g]
    BY <1>3, <1>4, <1>7, <2>1
  <2>3. y \in Seq(U) /\ Len(y) = n /\ y[n] = g /\ \A i \in 1..(n - 1) : y[i] = o[i]
    <3>1. PICK N : N = 1..n
      OBVIOUS
    <3>2. o \in [N -> U] /\ n \in N
      <4>1. \A t \in Seq(U) : t \in [1..Len(t) -> U]
        OBVIOUS
      <4>2. o \in [1..n -> U]
        BY <2>2, <4>1, Zenon
      <4> QED
        BY <2>2, <3>1, <4>2, Zenon
    <3>3. y \in [N -> U] /\ y[n] = g /\ \A i \in N : i # n => y[i] = o[i]
      BY <2>2, <3>2, Zenon
    <3>4. y \in Seq(U) /\ Len(y) = n
      BY <3>1, <3>3
    <3>5. \A i \in 1..(n - 1) : i \in N /\ i # n
      BY <3>1
    <3> QED
      BY <3>3, <3>4, <3>5, Zenon
  <2> QED
    BY <2>1, <2>3, Zenon
<1>9. \A i \in 1..(l + 1) : y[i] = x[i]
  <2> TAKE i \in 1..(l + 1)
  <2>1. i \in 1..l \/ i = l + 1
    OBVIOUS
  <2> QED
    BY <1>4, <1>6, <1>8, <2>1, Zenon
<1>10. y = x
  <2>1. Len(y) = Len(x) /\ \A i \in 1..Len(x) : y[i] = x[i] /\ y \in Seq(U) /\ x \in Seq(U)
    BY <1>6, <1>8, <1>9, Zenon
  <2> QED
    BY <1>6, <1>8, <1>9, SameSequence
<1> QED
  BY <1>4, <1>5, <1>7, <1>10, Zenon

LEMMA GotMore ==
  ASSUME NEW v \in Seq(Item), NEW k \in 0..(Len(v) - 1), NEW j \in 0..k, NEW o, NEW l \in Nat, Got(v, j, k, o, l),
         NEW d \in Nat, l + d <= Len(v[k + 1].content),
         NEW x \in Seq(Letters), PieceOf(x, v[k + 1].content, l, d)
  PROVE  Got(v, j, k, NewContent(o, o[Len(o)].content \o x), l + d)
<1>1. PICK c \in Seq(Letters) : c = v[k + 1].content
  BY ContentOf
<1>2. PICK m \in Item : m = v[k + 1]
  BY PartLayout
<1>3. PICK a \in Seq(Item) : a = SubSeq(v, j + 1, k)
  <2>1. k \in Nat /\ j \in Nat /\ j <= k /\ k <= Len(v)
    BY ItemsAre
  <2> QED
    BY <2>1, Piece
<1>4. l \in Nat /\ l <= Len(c) /\ l + d \in Nat /\ l + d <= Len(c)
  BY <1>1
<1>5. PICK u \in Seq(Letters) : u = SubSeq(c, 1, l) /\ FrontOf(u, c, l)
  BY <1>4, FirstPiece, Zenon
<1>6. PICK h \in Seq(Letters) : h = SubSeq(c, 1, l + d) /\ FrontOf(h, c, l + d)
  BY <1>4, FirstPiece, Zenon
<1>7. u \o x = h
  <2>1. PICK g \in Seq(Letters) : g = u \o x /\ Together(g, u, x)
    BY Glued, Zenon
  <2>2. Together(g, u, x)
    BY <2>1, Zenon
  <2>3. Len(x) = d /\ \A i \in 1..d : x[i] = c[l + i]
    BY <1>1, Zenon DEF PieceOf
  <2>4. Len(u) = l /\ \A i \in 1..l : u[i] = c[i]
    BY <1>5, Zenon DEF FrontOf
  <2>5. Len(h) = l + d /\ \A i \in 1..(l + d) : h[i] = c[i]
    BY <1>6, Zenon DEF FrontOf
  <2>6. /\ Len(g) = l + d /\ \A i \in 1..l : g[i] = u[i]
        /\ \A i \in 1..d : g[l + i] = x[i]
    BY <2>2, <2>3, <2>4, Zenon DEF Together
  <2>7. ASSUME NEW i \in 1..(l + d) PROVE g[i] = h[i]
    <3>1. CASE i <= l
      <4>1. i \in 1..l
        BY <3>1
      <4> QED
        BY <2>4, <2>5, <2>6, <4>1, Zenon
    <3>2. CASE ~(i <= l)
      <4>1. i - l \in 1..d /\ i = l + (i - l)
        BY <3>2
      <4>2. PICK n \in 1..d : i = l + n
        BY <4>1
      <4> QED
        BY <2>3, <2>5, <2>6, <4>2, Zenon
    <3> QED
      BY <3>1, <3>2
  <2>8. Len(g) = Len(h) /\ \A i \in 1..Len(h) : g[i] = h[i]
    BY <2>5, <2>6, <2>7, Zenon
  <2>9. g = h
    BY <2>8, SameSequence
  <2> QED
    BY <2>1, <2>9, Zenon
<1>8. PICK e : e = [m EXCEPT !.content = u] /\ e.content = u /\ [e EXCEPT !.content = h] = [m EXCEPT !.content = h]
  <2>1. PICK e : e = [m EXCEPT !.content = u]
    OBVIOUS
  <2>2. e.content = u /\ [e EXCEPT !.content = h] = [m EXCEPT !.content = h]
    BY <2>1 DEF Item
  <2> QED
    BY <2>1, <2>2, Zenon
<1>9. o = Append(a, e)
  BY <1>1, <1>2, <1>3, <1>5, <1>8, Zenon DEF Got
<1>10. PICK g : g = [m EXCEPT !.content = h]
  OBVIOUS
<1>11. o[Len(o)] = e /\ [o EXCEPT ![Len(o)] = g] = Append(a, g)
  <2>1. ASSUME NEW y, o = Append(a, y) PROVE o[Len(o)] = y /\ [o EXCEPT ![Len(o)] = g] = Append(a, g)
    BY <2>1, LastAppended, ZenonT(60)
  <2> QED
    BY <1>9, <2>1, ZenonT(60)
<1>12. NewContent(o, o[Len(o)].content \o x) = [o EXCEPT ![Len(o)] = g]
  <2>1. o[Len(o)].content \o x = h
    BY <1>7, <1>8, <1>11, Zenon
  <2>2. NewContent(o, h) = [o EXCEPT ![Len(o)] = [o[Len(o)] EXCEPT !.content = h]]
    BY Zenon DEF NewContent
  <2>3. [o[Len(o)] EXCEPT !.content = h] = g
    BY <1>8, <1>10, <1>11, Zenon
  <2> QED
    BY <2>1, <2>2, <2>3, Zenon
<1> QED
  BY <1>1, <1>2, <1>3, <1>6, <1>10, <1>11, <1>12, Zenon DEF Got

LEMMA GotAll ==
  ASSUME NEW v \in Seq(Item), NEW k \in 0..(Len(v) - 1), NEW j \in 0..k, NEW o, Got(v, j, k, o, Len(v[k + 1].content))
  PROVE  Parted(v, j, k + 1, o)
<1>1. PICK c \in Seq(Letters) : c = v[k + 1].content
  BY ContentOf
<1>2. SubSeq(c, 1, Len(c)) = c
  OBVIOUS
<1>3. PICK m \in Item : m = v[k + 1]
  BY PartLayout
<1>4. [m EXCEPT !.content = m.content] = m
  BY DEF Item
<1>5. Append(SubSeq(v, j + 1, k), v[k + 1]) = SubSeq(v, j + 1, k + 1)
  OBVIOUS
<1> QED
  BY <1>1, <1>2, <1>3, <1>4, <1>5, Zenon DEF Got, Parted

LEMMA PartedNone ==
  ASSUME NEW v \in Seq(Item), NEW k \in 0..Len(v)
  PROVE  Parted(v, k, k, <<>>)
<1>1. k \in Nat /\ k <= Len(v) /\ Len(v) \in Nat
  BY ItemsAre
<1>2. SubSeq(v, k + 1, k) = <<>>
  BY <1>1
<1> QED
  BY <1>2 DEF Parted

-----------------------------------------------------------------------------
(* A step of the parser. *)
LEMMA ParsingPart ==
  ASSUME NEW v, NEW p, NEW q, NEW b, NEW r, NEW pr, NEW s, NEW f, NEW va, NEW n, NEW o, NEW j, NEW k \in j..(Len(v) - 1),
         Window(v, p, q, b, r), va = FALSE, Lost(v, j, n), InPart(v, j, k, p, q, pr, s, f, o)
  PROVE  Parsing(v, s, b, r, pr, f, va, n, o)
BY Zenon DEF Parsing

(* The place is the one that belongs to the state. *)
LEMMA PartByState ==
  ASSUME NEW v, NEW j, NEW k, NEW p, NEW q, NEW pr, NEW s, NEW f, NEW o, InPart(v, j, k, p, q, pr, s, f, o)
  PROVE  /\ s # "initial" /\ s # "refused"
         /\ s = "new" => OpensPart(v, j, k, p, q, pr, s, o)
         /\ s = "headers" => \/ ReadsName(v, j, k, p, q, pr, s, f, o) \/ ReadsType(v, j, k, p, q, pr, s, f, o)
                             \/ ReadsEmpty(v, j, k, p, q, pr, s, f, o)
         /\ s = "body" => ReadsContent(v, j, k, p, q, pr, s, o)
         /\ s = "boundary" => EndsPart(v, j, k, p, q, pr, s, o)
<1>1. /\ OpensPart(v, j, k, p, q, pr, s, o) => s = "new"
      /\ ReadsName(v, j, k, p, q, pr, s, f, o) => s = "headers"
      /\ ReadsType(v, j, k, p, q, pr, s, f, o) => s = "headers"
      /\ ReadsEmpty(v, j, k, p, q, pr, s, f, o) => s = "headers"
      /\ ReadsContent(v, j, k, p, q, pr, s, o) => s = "body"
      /\ EndsPart(v, j, k, p, q, pr, s, o) => s = "boundary"
  BY Zenon DEF OpensPart, ReadsName, ReadsType, ReadsEmpty, ReadsContent, EndsPart
<1>2. \/ OpensPart(v, j, k, p, q, pr, s, o) \/ ReadsName(v, j, k, p, q, pr, s, f, o)
      \/ ReadsType(v, j, k, p, q, pr, s, f, o) \/ ReadsEmpty(v, j, k, p, q, pr, s, f, o)
      \/ ReadsContent(v, j, k, p, q, pr, s, o) \/ EndsPart(v, j, k, p, q, pr, s, o)
  BY Zenon DEF InPart
<1> QED
  BY <1>1, <1>2

LEMMA LostIs ==
  ASSUME NEW v \in Seq(Item), NEW j, NEW n, Lost(v, j, n), NEW k \in j..(Len(v) - 1)
  PROVE  /\ j \in Nat /\ k \in Nat /\ j <= k /\ k < Len(v) /\ Len(v) \in Nat /\ k \in 0..(Len(v) - 1)
         /\ j \in 0..k /\ n \in Nat /\ n # 0
<1>1. Len(v) \in Nat
  OBVIOUS
<1>2. j \in 0..(Len(v) - 1) /\ n \in Nat /\ n # 0
  BY Zenon DEF Lost
<1> QED
  BY <1>1, <1>2

LEMMA Positions ==
  ASSUME NEW v \in Seq(Item), NEW k \in 0..(Len(v) - 1)
  PROVE  /\ At(v, k) \in Nat /\ ContentAt(v, k) \in Nat /\ DelimiterAt(v, k) \in Nat /\ Len(Wire(v)) \in Nat
         /\ v[k + 1].type = "" => ContentAt(v, k) = At(v, k) + 10
         /\ v[k + 1].type # "" => ContentAt(v, k) = At(v, k) + 13
         /\ ContentAt(v, k) <= DelimiterAt(v, k) /\ At(v, k + 1) = DelimiterAt(v, k) + 2
         /\ DelimiterAt(v, k) - ContentAt(v, k) = Len(v[k + 1].content)
         /\ DelimiterAt(v, k) + 9 <= Len(Wire(v))
<1>1. PICK a \in Nat, c \in Nat, d \in Nat, l \in Nat : a = At(v, k) /\ c = ContentAt(v, k) /\ d = DelimiterAt(v, k) /\ l = Len(v[k + 1].content)
  BY PartLayout, ContentOf
<1>2. d = c + l
  BY <1>1, ContentOf
<1>3. c = a + (IF v[k + 1].type = "" THEN 10 ELSE 13)
  BY <1>1 DEF ContentAt, HeadOf
<1>4. At(v, k + 1) = d + 2 /\ At(v, k + 1) <= At(v, Len(v))
  BY <1>1, PartLayout
<1>5. PICK z \in Nat, w \in Nat : z = At(v, Len(v)) /\ w = Len(Wire(v)) /\ w = z + 7
  BY WireLayout DEF IsLast
<1>6. (v[k + 1].type = "" => c = a + 10) /\ (v[k + 1].type # "" => c = a + 13)
  BY <1>3
<1>7. c <= d /\ d - c = l /\ d + 9 <= w
  BY <1>2, <1>4, <1>5
<1> QED
  BY <1>1, <1>4, <1>5, <1>6, <1>7, Zenon

(* With nothing in the buffer, the parser waits wherever it is. *)
LEMMA PartPaused ==
  ASSUME NEW v \in Seq(Item), NEW k \in 0..(Len(v) - 1), NEW j, NEW p, NEW q, NEW pr, NEW s, NEW f, NEW o, q \in Nat, p = q,
         InPart(v, j, k, p, q, pr, s, f, o)
  PROVE  InPart(v, j, k, p, q, FALSE, s, f, o)
<1>0. PICK a \in Nat, c \in Nat, d \in Nat : a = At(v, k) /\ c = ContentAt(v, k) /\ d = DelimiterAt(v, k)
  BY Positions
<1>1. CASE OpensPart(v, j, k, p, q, pr, s, o)
  BY <1>1, Zenon DEF OpensPart, InPart
<1>2. CASE ReadsName(v, j, k, p, q, pr, s, f, o)
  <2>1. q < At(v, k) + 8
    BY <1>0, <1>2 DEF ReadsName
  <2> QED
    BY <1>2, <2>1, Zenon DEF ReadsName, InPart
<1>3. CASE ReadsType(v, j, k, p, q, pr, s, f, o)
  <2>1. q < At(v, k) + 11
    <3>1. p = a + 8
      BY <1>0, <1>3, Zenon DEF ReadsType
    <3> QED
      BY <1>0, <3>1
  <2> QED
    BY <1>3, <2>1, Zenon DEF ReadsType, InPart
<1>4. CASE ReadsEmpty(v, j, k, p, q, pr, s, f, o)
  <2>1. q < ContentAt(v, k)
    BY <1>0, <1>4 DEF ReadsEmpty
  <2> QED
    BY <1>4, <2>1, Zenon DEF ReadsEmpty, InPart
<1>5. CASE ReadsContent(v, j, k, p, q, pr, s, o)
  <2>1. q < DelimiterAt(v, k) + 5
    BY <1>0, <1>5 DEF ReadsContent
  <2> QED
    BY <1>5, <2>1, Zenon DEF ReadsContent, InPart
<1>6. CASE EndsPart(v, j, k, p, q, pr, s, o)
  <2>1. q < p + 2
    OBVIOUS
  <2> QED
    BY <1>6, <2>1, Zenon DEF EndsPart, InPart
<1> QED
  BY <1>1, <1>2, <1>3, <1>4, <1>5, <1>6, Zenon DEF InPart

(* A piece arrives: wherever the parser is, it goes on. *)
LEMMA PartResumed ==
  ASSUME NEW v, NEW k, NEW j, NEW p, NEW q, NEW t, NEW pr, NEW s, NEW f, NEW o,
         InPart(v, j, k, p, q, pr, s, f, o)
  PROVE  InPart(v, j, k, p, t, TRUE, s, f, o)
<1>1. CASE OpensPart(v, j, k, p, q, pr, s, o)
  BY <1>1, Zenon DEF OpensPart, InPart
<1>2. CASE ReadsName(v, j, k, p, q, pr, s, f, o)
  BY <1>2, Zenon DEF ReadsName, InPart
<1>3. CASE ReadsType(v, j, k, p, q, pr, s, f, o)
  BY <1>3, Zenon DEF ReadsType, InPart
<1>4. CASE ReadsEmpty(v, j, k, p, q, pr, s, f, o)
  BY <1>4, Zenon DEF ReadsEmpty, InPart
<1>5. CASE ReadsContent(v, j, k, p, q, pr, s, o)
  BY <1>5, Zenon DEF ReadsContent, InPart
<1>6. CASE EndsPart(v, j, k, p, q, pr, s, o)
  BY <1>6, Zenon DEF EndsPart, InPart
<1> QED
  BY <1>1, <1>2, <1>3, <1>4, <1>5, <1>6, Zenon DEF InPart

LEMMA EmptiedParsing ==
  ASSUME NEW v \in Seq(Item), Parsing(v, state, buf, rest, parsing, file, valid, first, out), Emptied, first \in Nat
  PROVE  Parsing(v, state', buf', rest', parsing', file', valid', first', out')
<1>1. /\ parsing /\ buf = <<>> /\ parsing' = FALSE /\ rest' = rest /\ buf' = buf /\ state' = state /\ file' = file
      /\ valid' = valid /\ first' = first /\ out' = out
  BY Zenon DEF Emptied, Waits
<1> SUFFICES Parsing(v, state, buf, rest, FALSE, file, valid, first, out)
  BY <1>1, Zenon
<1>2. CASE state = "refused"
  <2>1. valid = FALSE /\ ~(Named(v) /\ first >= 5)
    <3>1. ASSUME NEW p, NEW j, NEW k, NEW q, InPart(v, j, k, p, q, parsing, state, file, out) PROVE FALSE
      BY <1>2, <3>1, PartByState, Zenon
    <3> QED
      BY <1>2, <3>1 DEF Parsing, Seeks, Misled, Accepted
  <2> QED
    BY <1>2, <2>1, Zenon DEF Parsing
<1>3. CASE state # "refused"
  <2>1. PICK p, q :
           /\ Window(v, p, q, buf, rest)
           /\ \/ valid = FALSE /\ Seeks(p, q, parsing, state, first, out)
              \/ valid = FALSE /\ Misled(v, p, state, first)
              \/ valid = FALSE /\ \E j : Lost(v, j, first) /\ \E k \in j..(Len(v) - 1) : InPart(v, j, k, p, q, parsing, state, file, out)
              \/ valid = TRUE /\ \E j : Lost(v, j, first) /\ Accepted(v, j, p, state, out)
    BY <1>3, Zenon DEF Parsing
  <2>2. p = q /\ p \in Nat /\ q \in Nat
    BY <1>1, <2>1, WindowIs
  <2>3. CASE valid = FALSE /\ Seeks(p, q, parsing, state, first, out)
    <3>1. Seeks(p, q, FALSE, state, first, out)
      BY <1>1, <2>2, <2>3 DEF Seeks
    <3> QED
      BY <2>1, <2>3, <3>1, Zenon DEF Parsing
  <2>4. CASE valid = FALSE /\ \E j : Lost(v, j, first) /\ \E k \in j..(Len(v) - 1) : InPart(v, j, k, p, q, parsing, state, file, out)
    <3>1. PICK j : Lost(v, j, first) /\ \E k \in j..(Len(v) - 1) : InPart(v, j, k, p, q, parsing, state, file, out)
      BY <2>4, Zenon
    <3>2. PICK k \in j..(Len(v) - 1) : InPart(v, j, k, p, q, parsing, state, file, out)
      BY <3>1, Zenon
    <3>3. k \in 0..(Len(v) - 1)
      BY <3>1, LostIs
    <3>4. InPart(v, j, k, p, q, FALSE, state, file, out)
      BY <2>2, <3>2, <3>3, PartPaused, Zenon
    <3> QED
      BY <2>1, <2>4, <3>1, <3>4, ParsingPart, Zenon
  <2>5. CASE (valid = FALSE /\ Misled(v, p, state, first)) \/ (valid = TRUE /\ \E j : Lost(v, j, first) /\ Accepted(v, j, p, state, out))
    BY <2>1, <2>5, Zenon DEF Parsing
  <2> QED
    BY <2>1, <2>3, <2>4, <2>5, Zenon
<1> QED
  BY <1>2, <1>3

LEMMA ParseParsing ==
  ASSUME NEW v \in Seq(Item), Parsing(v, state, buf, rest, parsing, file, valid, first, out), Parse, first \in Nat
  PROVE  first' \in Nat /\ Parsing(v, state', buf', rest', parsing', file', valid', first', out')
<1>1. /\ ~parsing /\ state # "refused" /\ parsing' = TRUE /\ state' = state /\ file' = file /\ valid' = valid /\ out' = out
  BY DEF Parse
<1>2. PICK p, q :
           /\ Window(v, p, q, buf, rest)
           /\ \/ valid = FALSE /\ Seeks(p, q, parsing, state, first, out)
              \/ valid = FALSE /\ Misled(v, p, state, first)
              \/ valid = FALSE /\ \E j : Lost(v, j, first) /\ \E k \in j..(Len(v) - 1) : InPart(v, j, k, p, q, parsing, state, file, out)
              \/ valid = TRUE /\ \E j : Lost(v, j, first) /\ Accepted(v, j, p, state, out)
  BY <1>1, Zenon DEF Parsing
<1>3. Len(rest) \in Nat /\ p \in Nat /\ q \in Nat /\ p <= q
  BY <1>2, WindowIs
<1>4. PICK d \in 1..Len(rest) : /\ buf' = buf \o SubSeq(rest, 1, d) /\ rest' = Drop(rest, d)
                                /\ first' = IF first = 0 THEN d ELSE first
  BY <1>3, Zenon DEF Parse, StreamRead
<1>5. Window(v, p, q + d, buf', rest')
  BY <1>2, <1>4, WindowMore, Zenon
<1>6. first' \in Nat /\ (first # 0 => first' = first) /\ (first = 0 => first' = d)
  BY <1>3, <1>4
<1> SUFFICES Parsing(v, state, buf', rest', TRUE, file, valid, first', out)
  BY <1>1, <1>6, Zenon
<1>7. CASE valid = FALSE /\ Seeks(p, q, parsing, state, first, out)
  <2>1. Seeks(p, q + d, TRUE, state, first', out)
    BY <1>1, <1>3, <1>6, <1>7 DEF Seeks
  <2> QED
    BY <1>5, <1>7, <2>1, Zenon DEF Parsing
<1>8. CASE valid = FALSE /\ Misled(v, p, state, first)
  <2>1. first # 0
    BY <1>8 DEF Misled
  <2> QED
    BY <1>5, <1>6, <1>8, <2>1, Zenon DEF Parsing
<1>9. CASE valid = FALSE /\ \E j : Lost(v, j, first) /\ \E k \in j..(Len(v) - 1) : InPart(v, j, k, p, q, parsing, state, file, out)
  <2>1. PICK j : Lost(v, j, first) /\ \E k \in j..(Len(v) - 1) : InPart(v, j, k, p, q, parsing, state, file, out)
    BY <1>9, Zenon
  <2>2. PICK k \in j..(Len(v) - 1) : InPart(v, j, k, p, q, parsing, state, file, out)
    BY <2>1, Zenon
  <2>3. first' = first
    BY <1>6, <2>1, Zenon DEF Lost
  <2>4. InPart(v, j, k, p, q + d, TRUE, state, file, out)
    BY <2>2, PartResumed, Zenon
  <2> QED
    BY <1>5, <1>9, <2>1, <2>3, <2>4, ParsingPart, Zenon
<1>10. CASE valid = TRUE /\ \E j : Lost(v, j, first) /\ Accepted(v, j, p, state, out)
  <2>1. first' = first
    BY <1>6, <1>10, Zenon DEF Lost
  <2> QED
    BY <1>5, <1>10, <2>1, Zenon DEF Parsing
<1> QED
  BY <1>2, <1>7, <1>8, <1>9, <1>10, Zenon

(* What buf_find finds in the window. *)
LEMMA FindInWindow ==
  ASSUME NEW v \in Seq(Item), NEW p, NEW q, Window(v, p, q, buf, rest), NEW s \in Seq(Letters), NEW m \in Nat, m > 0, Len(s) = m,
         NEW x, FirstAt(Wire(v), s, p, x)
  PROVE  (x + m <= q => Find(s) = x - p) /\ (~(x + m <= q) => Find(s) = q - p)
<1>1. Wire(v) \in Seq(Letters)
  BY WireLayout
<1>2. p \in Nat /\ q \in Nat /\ p <= q /\ q <= Len(Wire(v)) /\ buf = Remaining(Wire(v), p, q)
  BY Zenon DEF Window
<1>3. Len(s) > 0
  OBVIOUS
<1>4. (x + Len(s) <= q => Find(s) = x - p) /\ (~(x + Len(s) <= q) => Find(s) = q - p)
  BY <1>1, <1>2, <1>3, FindKnown
<1> QED
  BY <1>4, Zenon

(* The first boundary is where the body begins, or further on. *)
LEMMA InitialParsing ==
  ASSUME NEW v \in Seq(Item), v # <<>>, Suits(v, first), Parsing(v, state, buf, rest, parsing, file, valid, first, out),
         InitialBoundary
  PROVE  Parsing(v, state', buf', rest', parsing', file', valid', first', out')
<1>1. /\ parsing /\ buf # <<>> /\ state = "initial"
      /\ rest' = rest /\ file' = file /\ valid' = valid /\ first' = first /\ out' = out
  BY DEF InitialBoundary, Loop
<1>2. PICK p, q : Window(v, p, q, buf, rest) /\ valid = FALSE /\ Seeks(p, q, parsing, state, first, out)
  <2>1. ASSUME NEW p, NEW j, NEW k, NEW q, InPart(v, j, k, p, q, parsing, state, file, out) PROVE FALSE
    BY <1>1, <2>1, PartByState, Zenon
  <2> QED
    BY <1>1, <2>1 DEF Parsing, Misled, Accepted
<1>3. first \in Nat /\ first # 0 /\ out = <<>>
  BY <1>1, <1>2 DEF Seeks, Suits
<1>4. PICK w \in Seq(Letters) : w = Wire(v)
  BY WireLayout
<1>5. PICK l \in Nat : /\ l = Len(buf) /\ l = q - p /\ p \in Nat /\ q \in Nat /\ p <= q /\ q <= Len(w) /\ l # 0
                       /\ PieceOf(buf, w, p, l) /\ Len(w) \in Nat
  <2>1. /\ buf \in Seq(Letters) /\ PieceOf(buf, w, p, q - p) /\ Len(buf) = q - p /\ p # q
        /\ p \in Nat /\ q \in Nat /\ p <= q /\ q <= Len(w) /\ Len(w) \in Nat
    <3>1. /\ buf \in Seq(Letters) /\ PieceOf(buf, Wire(v), p, q - p) /\ Len(buf) = q - p /\ (buf = <<>> <=> p = q)
          /\ p \in Nat /\ q \in Nat /\ p <= q /\ q <= Len(Wire(v)) /\ Len(Wire(v)) \in Nat
      BY <1>2, WindowIs
    <3> QED
      BY <1>1, <1>4, <3>1, Zenon
  <2>2. q - p \in Nat /\ q - p # 0
    BY <2>1
  <2> QED
    BY <2>1, <2>2, Zenon
<1>6. PICK d \in Seq(Letters) : d = DashBoundaryCrlf /\ Len(d) = 5 /\ Len(d) > 0 /\ Len(d) \in Nat
  <2>1. DashBoundaryCrlf \in Seq(Letters) /\ Len(DashBoundaryCrlf) = 5
    BY BoundaryLineIs
  <2>2. 5 > 0 /\ 5 \in Nat
    OBVIOUS
  <2> QED
    BY <2>1, <2>2, Zenon
<1>7. buf \in Seq(Letters) /\ buf = Remaining(w, p, q)
  <2>1. buf \in Seq(Letters)
    BY <1>2, WindowIs
  <2> QED
    BY <1>2, <1>4, <2>1, Zenon DEF Window
<1>8. PICK z \in Nat : z = Find(d) /\ z <= l
  BY <1>5, <1>6, <1>7, FindIsNat, Zenon
<1>9. PICK t : t = Drop(buf, z)
  OBVIOUS
<1>10. Window(v, p + z, q, t, rest)
  <2>1. p + z <= q
    BY <1>5, <1>8
  <2> QED
    BY <1>2, <1>9, <2>1, WindowDrop, Zenon
<1>11. \/ t = <<>> /\ buf' = t /\ parsing' = FALSE /\ state' = "initial"
       \/ t # <<>> /\ buf' = Drop(t, 5) /\ state' = "new" /\ parsing' = parsing
  BY <1>1, <1>6, <1>8, <1>9, Zenon DEF InitialBoundary, Waits
<1>12. t = <<>> <=> p + z = q
  BY <1>10, WindowIs
<1>13. Len(v) \in Nat /\ Len(v) # 0 /\ 0 \in 0..(Len(v) - 1) /\ 0 \in 0..Len(v)
  OBVIOUS
<1>14. CASE first >= 5
  <2>1. p = 0 /\ q >= 5
    BY <1>2, <1>14 DEF Seeks
  <2>2. FirstAt(w, d, 0, 0)
    <3>1. IsBoundaryLine(w, 0)
      <4>1. At(v, 0) = 0
        BY WireLayout
      <4>2. BoundaryAt(w, 0) /\ w[0 + 4] = CR /\ w[0 + 5] = LF
        <5>1. 0 < Len(v)
          BY <1>13
        <5> QED
          BY <1>4, <1>13, <4>1, <5>1, BoundaryThere, Zenon
      <4> QED
        BY <4>2, Zenon DEF IsBoundaryLine, BoundaryAt
    <3>2. OccursAt(w, d, 0)
      BY <1>6, <3>1, BoundaryLineAt, Zenon
    <3> QED
      BY <3>2 DEF FirstAt
  <2>3. z = 0
    <3>1. PICK x \in Nat, m \in Nat : x = 0 /\ m = 5 /\ m > 0 /\ x + m <= q
      BY <2>1
    <3>2. FirstAt(Wire(v), d, p, x) /\ Len(d) = m
      BY <1>4, <1>6, <2>1, <2>2, <3>1, Zenon
    <3>3. Find(d) = x - p
      <4>1. Window(v, p, q, buf, rest) /\ m > 0 /\ x + m <= q
        BY <1>2, <3>1, Zenon
      <4> QED
        BY <3>2, <4>1, FindInWindow
    <3> QED
      BY <1>8, <2>1, <3>1, <3>3
  <2>4. t # <<>> /\ p + z = 0 /\ p + z + 5 <= q
    BY <1>5, <1>12, <2>1, <2>3
  <2>5. buf' = Drop(t, 5) /\ state' = "new" /\ parsing' = parsing
    BY <1>11, <2>4, Zenon
  <2>6. Window(v, p + z + 5, q, buf', rest)
    <3>1. 5 \in Nat
      OBVIOUS
    <3> QED
      BY <1>10, <2>4, <2>5, <3>1, WindowDrop, Zenon
  <2>7. p + z + 5 = At(v, 0) + 5
    BY <2>4, WireLayout
  <2>8. Parted(v, 0, 0, out)
    BY <1>3, <1>13, PartedNone, Zenon
  <2>9. parsing = FALSE => q = p + z + 5
    BY <1>1
  <2>10. InPart(v, 0, 0, p + z + 5, q, parsing, "new", file, out)
    BY <2>7, <2>8, <2>9, Zenon DEF InPart, OpensPart
  <2>11. Lost(v, 0, first)
    BY <1>3, <1>13 DEF Lost
  <2> QED
    BY <1>1, <1>2, <1>13, <2>5, <2>6, <2>10, <2>11, ParsingPart, Zenon
<1>15. CASE ~(first >= 5)
  <2>1. Without(v, DashBoundaryCrlf) /\ first \in 1..4
    BY <1>3, <1>15 DEF Suits
  <2>2. CASE t = <<>>
    <3>1. buf' = t /\ parsing' = FALSE /\ state' = "initial"
      BY <1>11, <2>2, Zenon
    <3>2. Seeks(p + z, q, FALSE, "initial", first, out)
      BY <1>3, <1>15 DEF Seeks
    <3> QED
      BY <1>1, <1>2, <1>10, <3>1, <3>2, Zenon DEF Parsing
  <2>3. CASE t # <<>>
    <3>1. buf' = Drop(t, 5) /\ state' = "new" /\ parsing' = parsing
      BY <1>11, <2>3, Zenon
    <3>2. FindsAt(buf, d, z)
      <4>1. FindsNone(buf, d, z) \/ FindsAt(buf, d, z)
        BY <1>6, <1>7, <1>8, FindFinds, Zenon
      <4>2. z # l
        BY <1>5, <1>12, <2>3
      <4> QED
        BY <1>5, <4>1, <4>2, Zenon DEF FindsNone
    <3>3. z + 5 <= l /\ OccursAt(buf, d, z)
      BY <1>5, <1>6, <3>2 DEF FindsAt
    <3>4. PICK x \in Nat : x = p + z /\ x + 5 <= q /\ x + 5 <= Len(w)
      BY <1>5, <3>3
    <3>5. OccursAt(w, d, x)
      <4>1. z + Len(d) <= l
        BY <1>6, <3>3, Zenon
      <4> QED
        BY <1>5, <1>6, <3>3, <3>4, <4>1, Shifted, Zenon
    <3>6. IsBoundaryLine(w, x)
      BY <1>6, <3>5, BoundaryLineAt, Zenon
    <3>7. Window(v, x + 5, q, buf', rest)
      <4>1. 5 \in Nat
        OBVIOUS
      <4> QED
        BY <1>10, <3>1, <3>4, <4>1, WindowDrop, Zenon
    <3>8. (\E k \in 0..(Len(v) - 1) : x = At(v, k)) \/ (\E k \in 1..Len(v) : x + 5 = At(v, k))
      BY <1>4, <2>1, <3>4, <3>6, LinesOnTheWire, Zenon
    <3>9. CASE \E k \in 0..(Len(v) - 1) : x = At(v, k)
      <4>1. PICK k \in 0..(Len(v) - 1) : x = At(v, k)
        BY <3>9, Zenon
      <4>2. k \in 0..Len(v) /\ k \in k..(Len(v) - 1)
        BY <1>13
      <4>3. Parted(v, k, k, out)
        BY <1>3, <4>2, PartedNone, Zenon
      <4>4. parsing = FALSE => q = x + 5
        BY <1>1
      <4>5. InPart(v, k, k, x + 5, q, parsing, "new", file, out)
        BY <4>1, <4>3, <4>4, Zenon DEF InPart, OpensPart
      <4>6. Lost(v, k, first)
        BY <1>3, <1>15, Zenon DEF Lost
      <4> QED
        BY <1>1, <1>2, <3>1, <3>7, <4>2, <4>5, <4>6, ParsingPart, Zenon
    <3>10. CASE \E k \in 1..Len(v) : x + 5 = At(v, k)
      <4>1. Misled(v, x + 5, "new", first)
        BY <2>1, <3>10, Zenon DEF Misled
      <4> QED
        BY <1>1, <1>2, <3>1, <3>7, <4>1, Zenon DEF Parsing
    <3> QED
      BY <3>8, <3>9, <3>10, Zenon
  <2> QED
    BY <2>2, <2>3
<1> QED
  BY <1>14, <1>15

LEMMA EntryParsing ==
  ASSUME NEW v \in Seq(Item), Parsing(v, state, buf, rest, parsing, file, valid, first, out), NewEntry
  PROVE  Parsing(v, state', buf', rest', parsing', file', valid', first', out')
<1>1. /\ parsing /\ buf # <<>> /\ state = "new" /\ state' = "headers" /\ file' = NoFile
      /\ rest' = rest /\ buf' = buf /\ parsing' = parsing /\ valid' = valid /\ first' = first /\ out' = out
  BY DEF NewEntry, Loop
<1>2. PICK p, q :
           /\ Window(v, p, q, buf, rest)
           /\ \/ valid = FALSE /\ Seeks(p, q, parsing, state, first, out)
              \/ valid = FALSE /\ Misled(v, p, state, first)
              \/ valid = FALSE /\ \E j : Lost(v, j, first) /\ \E k \in j..(Len(v) - 1) : InPart(v, j, k, p, q, parsing, state, file, out)
              \/ valid = TRUE /\ \E j : Lost(v, j, first) /\ Accepted(v, j, p, state, out)
  BY <1>1, Zenon DEF Parsing
<1>3. ~Seeks(p, q, parsing, state, first, out)
  BY <1>1, Zenon DEF Seeks
<1>4. CASE valid = FALSE /\ Misled(v, p, state, first)
  <2>1. Misled(v, p, "headers", first)
    BY <1>4 DEF Misled
  <2> QED
    BY <1>1, <1>2, <1>4, <2>1, Zenon DEF Parsing
<1>5. CASE valid = FALSE /\ \E j : Lost(v, j, first) /\ \E k \in j..(Len(v) - 1) : InPart(v, j, k, p, q, parsing, state, file, out)
  <2>1. PICK j : Lost(v, j, first) /\ \E k \in j..(Len(v) - 1) : InPart(v, j, k, p, q, parsing, state, file, out)
    BY <1>5, Zenon
  <2>2. PICK k \in j..(Len(v) - 1) : InPart(v, j, k, p, q, parsing, state, file, out)
    BY <2>1, Zenon
  <2>3. OpensPart(v, j, k, p, q, parsing, state, out)
    BY <1>1, <2>2, PartByState, Zenon
  <2>4. parsing = FALSE => q < At(v, k) + 8
    BY <1>1
  <2>5. InPart(v, j, k, p, q, parsing, "headers", NoFile, out)
    BY <2>3, <2>4, Zenon DEF OpensPart, ReadsName, InPart
  <2> QED
    BY <1>1, <1>2, <1>5, <2>1, <2>5, ParsingPart, Zenon
<1>6. CASE valid = TRUE /\ \E j : Lost(v, j, first) /\ Accepted(v, j, p, state, out)
  <2>1. p = Len(Wire(v))
    BY <1>1, <1>6, Zenon DEF Accepted
  <2>2. p # q /\ p <= q /\ q <= Len(Wire(v)) /\ p \in Nat /\ q \in Nat
    BY <1>1, <1>2, WindowIs
  <2> QED
    BY <2>1, <2>2
<1> QED
  BY <1>2, <1>3, <1>4, <1>5, <1>6, Zenon

(* A line of the headers: the parser waits for its end, opens the part,    *)
(* takes the header, or refuses the body.                                  *)
LineWaits == parsing' = FALSE /\ buf' = buf /\ state' = state /\ file' = file /\ valid' = valid /\ out' = out
LineEmpty == state' = "body" /\ out' = Append(out, file) /\ parsing' = parsing /\ file' = file /\ valid' = valid
LineKnown(c) ==
  /\ c \in Names \union Types
  /\ file' = IF c \in Types THEN [file EXCEPT !.type = c] ELSE [file EXCEPT !.name = c]
  /\ parsing' = parsing /\ state' = state /\ valid' = valid /\ out' = out
LineRefused == state' = "refused" /\ valid' = FALSE

LEMMA HeaderTakes ==
  ASSUME NEW v \in Seq(Item), NEW p, NEW q, Window(v, p, q, buf, rest), NEW x \in Nat, FirstAt(Wire(v), Crlf, p, x), Header
  PROVE  \/ q < x + 2 /\ LineWaits
         \/ x = p /\ Window(v, x + 2, q, buf', rest) /\ LineEmpty
         \/ x = p + 1 /\ Window(v, x + 2, q, buf', rest) /\ LineKnown(Wire(v)[x])
         \/ x # p /\ ~(x = p + 1 /\ Wire(v)[x] \in Names \union Types) /\ LineRefused
<1>1. PICK l \in Nat : /\ l = Len(buf) /\ l = q - p /\ p \in Nat /\ q \in Nat /\ p <= q /\ l # 0
                       /\ PieceOf(buf, Wire(v), p, l) /\ buf \in Seq(Letters)
  <2>1. /\ buf \in Seq(Letters) /\ PieceOf(buf, Wire(v), p, q - p) /\ Len(buf) = q - p /\ (buf = <<>> <=> p = q)
        /\ p \in Nat /\ q \in Nat /\ p <= q
    BY WindowIs
  <2>2. buf # <<>>
    BY DEF Header, Loop
  <2>3. q - p \in Nat /\ q - p # 0
    BY <2>1, <2>2
  <2> QED
    BY <2>1, <2>3, Zenon
<1>2. PICK s \in Seq(Letters), m \in Nat : s = Crlf /\ Len(s) = m /\ m = 2 /\ m > 0
  <2>1. 2 > 0 /\ 2 \in Nat
    OBVIOUS
  <2> QED
    BY <2>1, CrlfIsLine, Zenon
<1>3. p <= x
  BY Zenon DEF FirstAt
<1>4. PICK n : n = Find(s)
  OBVIOUS
<1>5. (x + m <= q => n = x - p) /\ (~(x + m <= q) => n = q - p)
  <2>1. FirstAt(Wire(v), s, p, x) /\ m > 0 /\ Len(s) = m
    BY <1>2, Zenon
  <2> QED
    BY <1>4, <2>1, FindInWindow
<1>6. PICK line : line = SubSeq(buf, 1, n)
  OBVIOUS
<1>7. \/ n = Len(buf) /\ LineWaits
      \/ n = 0 /\ buf' = Drop(buf, m) /\ LineEmpty
      \/ n \in 1..(Len(buf) - 1) /\ Len(line) = 1 /\ LineKnown(line[1]) /\ buf' = Drop(buf, n + m)
      \/ n \in 1..(Len(buf) - 1) /\ (Len(line) # 1 \/ line[1] \notin Names \union Types) /\ LineRefused
  <2>1. /\ s = Crlf /\ Len(s) = m
    BY <1>2, Zenon
  <2> QED
    BY <1>4, <1>6, <2>1, Zenon DEF Header, Waits, Refuses, LineWaits, LineEmpty, LineKnown, LineRefused
<1>8. CASE ~(x + m <= q)
  <2>1. n = l /\ q < x + 2
    BY <1>1, <1>2, <1>5, <1>8
  <2>2. n # 0 /\ n \notin 1..(Len(buf) - 1)
    BY <1>1, <2>1
  <2> QED
    BY <1>7, <2>1, <2>2, Zenon
<1>9. CASE x + m <= q
  <2>1. n \in Nat /\ n = x - p /\ n + 2 <= l /\ n <= l
    BY <1>1, <1>2, <1>3, <1>5, <1>9
  <2>2. n # Len(buf)
    BY <1>1, <2>1
  <2>3. n = 0 => x = p
    BY <1>1, <2>1
  <2>4. n \in 1..(Len(buf) - 1) => Len(line) = n /\ line[1] = Wire(v)[p + 1]
    <3>1. SUFFICES ASSUME n \in 1..(Len(buf) - 1) PROVE Len(line) = n /\ line[1] = Wire(v)[p + 1]
      OBVIOUS
    <3>2. PICK u \in Seq(Letters) : u = SubSeq(buf, 1, n) /\ FrontOf(u, buf, n)
      BY <1>1, <2>1, FirstPiece, Zenon
    <3>3. 1 \in 1..n /\ 1 \in 1..l
      BY <1>1, <2>1, <3>1
    <3>4. Len(u) = n /\ u[1] = buf[1]
      BY <3>2, <3>3, Zenon DEF FrontOf
    <3>5. buf[1] = Wire(v)[p + 1]
      BY <1>1, <3>3, Zenon DEF PieceOf
    <3> QED
      BY <1>6, <3>2, <3>4, <3>5, Zenon
  <2>5. n \in 1..(Len(buf) - 1) => x # p /\ (n = 1 <=> x = p + 1)
    BY <1>1, <2>1
  <2>6. Window(v, p + (n + m), q, Drop(buf, n + m), rest) /\ p + (n + m) = x + 2
    <3>1. PICK d \in Nat : d = n + m /\ p + d <= q /\ p + d = x + 2
      BY <1>1, <1>2, <2>1
    <3>2. Window(v, p + d, q, Drop(buf, d), rest)
      BY <3>1, WindowDrop, Zenon
    <3> QED
      BY <3>1, <3>2, Zenon
  <2>7. n = 0 => n + m = m
    BY <1>2
  <2>8. CASE n = 0 /\ buf' = Drop(buf, m) /\ LineEmpty
    BY <2>3, <2>6, <2>7, <2>8, Zenon
  <2>9. CASE n \in 1..(Len(buf) - 1) /\ Len(line) = 1 /\ LineKnown(line[1]) /\ buf' = Drop(buf, n + m)
    BY <2>4, <2>5, <2>6, <2>9, Zenon
  <2>10. CASE n \in 1..(Len(buf) - 1) /\ (Len(line) # 1 \/ line[1] \notin Names \union Types) /\ LineRefused
    BY <2>4, <2>5, <2>10, Zenon
  <2> QED
    BY <1>7, <2>2, <2>8, <2>9, <2>10, Zenon
<1> QED
  BY <1>8, <1>9

(* Where the header line behind a boundary stands and ends: it is one symbol. *)
LEMMA ShortSpan5 ==
  ASSUME NEW a \in Nat
  PROVE  \E p \in Nat, x \in Nat : p = a + 5 /\ x = a + 6 /\ p <= x /\ x + 1 = a + 7 /\ x + 2 = a + 8 /\ p..(x - 1) = {p} /\ p + 2 = a + 7
<1>1. PICK p \in Nat : p = a + 5
  OBVIOUS
<1>2. PICK x \in Nat : x = a + 6
  OBVIOUS
<1>3. p <= x /\ x + 1 = a + 7 /\ x + 2 = a + 8 /\ p + 2 = a + 7 /\ x - 1 = p
  BY <1>1, <1>2
<1>4. p..p = {p}
  OBVIOUS
<1>5. p..(x - 1) = {p}
  BY <1>3, <1>4, Zenon
<1> QED
  BY <1>1, <1>2, <1>3, <1>5, Zenon

(* The same of the second line of a header. *)
LEMMA ShortSpan8 ==
  ASSUME NEW a \in Nat
  PROVE  \E p \in Nat, x \in Nat : p = a + 8 /\ x = a + 9 /\ p <= x /\ x + 1 = a + 10 /\ x + 2 = a + 11 /\ p..(x - 1) = {p} /\ p + 2 = a + 10
<1>1. PICK p \in Nat : p = a + 8
  OBVIOUS
<1>2. PICK x \in Nat : x = a + 9
  OBVIOUS
<1>3. p <= x /\ x + 1 = a + 10 /\ x + 2 = a + 11 /\ p + 2 = a + 10 /\ x - 1 = p
  BY <1>1, <1>2
<1>4. p..p = {p}
  OBVIOUS
<1>5. p..(x - 1) = {p}
  BY <1>3, <1>4, Zenon
<1> QED
  BY <1>1, <1>2, <1>3, <1>5, Zenon

(* Where the lines end. *)
LEMMA LineEnd ==
  ASSUME NEW w, NEW p \in Nat, NEW x \in Nat, p <= x, w[x + 1] = CR, w[x + 2] = LF,
         \A y \in p..(x - 1) : w[y + 1] # CR \/ w[y + 2] # LF
  PROVE  FirstAt(w, Crlf, p, x)
<1>1. \A y : OccursAt(w, Crlf, y) <=> w[y + 1] = CR /\ w[y + 2] = LF
  <2> TAKE y
  <2>1. OccursAt(w, Crlf, y) <=> \A i \in 1..2 : w[y + i] = Crlf[i]
    BY CrlfIsLine, Zenon DEF OccursAt
  <2>2. \A i : i \in 1..2 <=> i = 1 \/ i = 2
    OBVIOUS
  <2> QED
    BY <2>1, <2>2, CrlfIsLine, Zenon
<1> QED
  BY <1>1, Zenon DEF FirstAt

LEMMA HeadLines ==
  ASSUME NEW v \in Seq(Item), NEW k \in 0..(Len(v) - 1), NEW a \in Nat, a = At(v, k), NEW w, w = Wire(v)
  PROVE  /\ FirstAt(w, Crlf, a + 5, a + 6) /\ w[a + 6] = v[k + 1].name
         /\ v[k + 1].type # "" => FirstAt(w, Crlf, a + 8, a + 9) /\ w[a + 9] = v[k + 1].type
         /\ \A c \in Nat : c + 2 = ContentAt(v, k) => FirstAt(w, Crlf, c, c)
<1>1. IsHead(w, a, v[k + 1])
  BY PartLayout, Zenon DEF ItemAt
<1>2. CR # LF
  BY DEF CR, LF
<1>3. w[a + 6] = v[k + 1].name /\ w[a + 7] = CR /\ w[a + 8] = LF
  BY <1>1, Zenon DEF IsHead
<1>4. FirstAt(w, Crlf, a + 5, a + 6)
  <2>1. PICK p \in Nat, x \in Nat : p = a + 5 /\ x = a + 6 /\ p <= x /\ x + 1 = a + 7 /\ x + 2 = a + 8 /\ p..(x - 1) = {p} /\ p + 2 = a + 7
    BY ShortSpan5, Zenon
  <2>2. \A y \in p..(x - 1) : w[y + 1] # CR \/ w[y + 2] # LF
    BY <1>2, <1>3, <2>1, Zenon
  <2>3. FirstAt(w, Crlf, p, x)
    BY <1>3, <2>1, <2>2, LineEnd, Zenon
  <2> QED
    BY <2>1, <2>3, Zenon
<1>5. ASSUME v[k + 1].type # "" PROVE FirstAt(w, Crlf, a + 8, a + 9) /\ w[a + 9] = v[k + 1].type
  <2>1. w[a + 9] = v[k + 1].type /\ w[a + 10] = CR /\ w[a + 11] = LF
    BY <1>1, <1>5, Zenon DEF IsHead
  <2>2. PICK p \in Nat, x \in Nat : p = a + 8 /\ x = a + 9 /\ p <= x /\ x + 1 = a + 10 /\ x + 2 = a + 11 /\ p..(x - 1) = {p} /\ p + 2 = a + 10
    BY ShortSpan8, Zenon
  <2>3. \A y \in p..(x - 1) : w[y + 1] # CR \/ w[y + 2] # LF
    BY <1>2, <2>1, <2>2, Zenon
  <2>4. FirstAt(w, Crlf, p, x)
    BY <2>1, <2>2, <2>3, LineEnd, Zenon
  <2> QED
    BY <2>1, <2>2, <2>4, Zenon
<1>6. ASSUME NEW c \in Nat, c + 2 = ContentAt(v, k) PROVE FirstAt(w, Crlf, c, c)
  <2>1. w[c + 1] = CR /\ w[c + 2] = LF
    <3>1. CASE v[k + 1].type = ""
      <4>1. w[a + 9] = CR /\ w[a + 10] = LF
        BY <1>1, <3>1, Zenon DEF IsHead
      <4>2. c + 1 = a + 9 /\ c + 2 = a + 10
        <5>1. ContentAt(v, k) = a + 10
          BY <3>1, Positions, Zenon
        <5> QED
          BY <1>6, <5>1
      <4> QED
        BY <4>1, <4>2, Zenon
    <3>2. CASE v[k + 1].type # ""
      <4>1. w[a + 12] = CR /\ w[a + 13] = LF
        BY <1>1, <3>2, Zenon DEF IsHead
      <4>2. c + 1 = a + 12 /\ c + 2 = a + 13
        <5>1. ContentAt(v, k) = a + 13
          BY <3>2, Positions, Zenon
        <5> QED
          BY <1>6, <5>1
      <4> QED
        BY <4>1, <4>2, Zenon
    <3> QED
      BY <3>1, <3>2
  <2>2. c <= c /\ c..(c - 1) = {}
    BY <1>6
  <2> QED
    BY <1>6, <2>1, <2>2, LineEnd, Zenon
<1> QED
  BY <1>3, <1>4, <1>5, <1>6

LEMMA WithinThree ==
  ASSUME NEW p \in Nat, NEW x, x = p + 3, NEW y \in p..(x - 1)
  PROVE  y + 1 = p + 1 \/ y + 1 = p + 2 \/ y + 1 = p + 3
OBVIOUS
LEMMA WithinFive ==
  ASSUME NEW p \in Nat, NEW x, x = p + 5, NEW y \in p..(x - 1)
  PROVE  y + 1 = p + 1 \/ y + 1 = p + 2 \/ y + 1 = p + 3 \/ y + 1 = p + 4 \/ y + 1 = p + 5
OBVIOUS
LEMMA BoundaryEnds ==
  ASSUME NEW v \in Seq(Item), NEW k \in 0..Len(v), NEW p \in Nat, p = At(v, k)
  PROVE  FirstAt(Wire(v), Crlf, p, p + 3) \/ FirstAt(Wire(v), Crlf, p, p + 5)
<1>1. PICK w : w = Wire(v)
  OBVIOUS
<1>2. w[p + 1] = "-" /\ w[p + 2] = "-" /\ w[p + 3] = "b"
  BY <1>1, BoundaryThere, Zenon DEF BoundaryAt
<1>3. "-" # CR /\ "b" # CR
  BY DEF CR
<1>4. CASE k < Len(v)
  <2>1. w[p + 4] = CR /\ w[p + 5] = LF
    BY <1>1, <1>4, BoundaryThere, Zenon
  <2>2. PICK x \in Nat : x = p + 3 /\ p <= x /\ x + 1 = p + 4 /\ x + 2 = p + 5
    OBVIOUS
  <2>3. \A y \in p..(x - 1) : y + 1 = p + 1 \/ y + 1 = p + 2 \/ y + 1 = p + 3
    BY <2>2, WithinThree, Zenon
  <2>4. FirstAt(w, Crlf, p, x)
    BY <1>2, <1>3, <2>1, <2>2, <2>3, LineEnd, Zenon
  <2> QED
    BY <1>1, <2>2, <2>4, Zenon
<1>5. CASE k = Len(v)
  <2>1. w[p + 4] = "-" /\ w[p + 5] = "-" /\ w[p + 6] = CR /\ w[p + 7] = LF
    BY <1>1, <1>5, BoundaryThere, Zenon DEF IsLast
  <2>2. PICK x \in Nat : x = p + 5 /\ p <= x /\ x + 1 = p + 6 /\ x + 2 = p + 7
    OBVIOUS
  <2>3. \A y \in p..(x - 1) : y + 1 = p + 1 \/ y + 1 = p + 2 \/ y + 1 = p + 3 \/ y + 1 = p + 4 \/ y + 1 = p + 5
    BY <2>2, WithinFive, Zenon
  <2>4. FirstAt(w, Crlf, p, x)
    BY <1>2, <1>3, <2>1, <2>2, <2>3, LineEnd, Zenon
  <2> QED
    BY <1>1, <2>2, <2>4, Zenon
<1>6. k < Len(v) \/ k = Len(v)
  OBVIOUS
<1> QED
  BY <1>4, <1>5, <1>6

LEMMA HeadersAre ==
  ASSUME NEW m \in Item
  PROVE  [m EXCEPT !.content = <<>>] = [name |-> m.name, type |-> m.type, content |-> <<>>]
<1>1. PICK a, b, c : m = [name |-> a, type |-> b, content |-> c]
  BY DEF Item
<1> QED
  BY <1>1
LEMMA TypeSet ==
  ASSUME NEW a, NEW b, NEW c, NEW d, NEW f, f = [name |-> a, type |-> c, content |-> d]
  PROVE  [f EXCEPT !.type = b] = [name |-> a, type |-> b, content |-> d]
OBVIOUS
LEMMA FileIs ==
  ASSUME NEW a, NEW b
  PROVE  /\ [NoFile EXCEPT !.name = a] = [name |-> a, type |-> "", content |-> <<>>]
         /\ [[NoFile EXCEPT !.name = a] EXCEPT !.type = b] = [name |-> a, type |-> b, content |-> <<>>]
<1>1. PICK f : f = [NoFile EXCEPT !.name = a]
  OBVIOUS
<1>2. f = [name |-> a, type |-> "", content |-> <<>>]
  BY <1>1 DEF NoFile
<1>3. [f EXCEPT !.type = b] = [name |-> a, type |-> b, content |-> <<>>]
  <2>1. PICK c, d : c = "" /\ d = <<>>
    OBVIOUS
  <2>2. f = [name |-> a, type |-> c, content |-> d]
    BY <1>2, <2>1, Zenon
  <2>3. [f EXCEPT !.type = b] = [name |-> a, type |-> b, content |-> d]
    BY <2>2, TypeSet
  <2> QED
    BY <2>1, <2>3, Zenon
<1> QED
  BY <1>1, <1>2, <1>3, Zenon

LEMMA NameTaken ==
  ASSUME NEW v \in Seq(Item), NEW j, Lost(v, j, first), NEW k \in j..(Len(v) - 1), NEW p, NEW q,
         Window(v, p, q, buf, rest), valid = FALSE, parsing = TRUE, Header, ReadsName(v, j, k, p, q, parsing, state, file, out)
  PROVE  Parsing(v, state', buf', rest', parsing', file', valid', first', out')
<1>1. rest' = rest /\ first' = first
  BY Zenon DEF Header
<1>2. k \in 0..(Len(v) - 1)
  BY LostIs
<1>3. PICK a \in Nat : a = At(v, k)
  BY <1>2, Positions, Zenon
<1>4. state = "headers" /\ p = a + 5 /\ Parted(v, j, k, out) /\ file = NoFile
  BY <1>3, Zenon DEF ReadsName
<1>5. PICK m \in Item : m = v[k + 1]
  BY <1>2, PartLayout
<1>6. FirstAt(Wire(v), Crlf, a + 5, a + 6) /\ Wire(v)[a + 6] = m.name
  BY <1>2, <1>3, <1>5, HeadLines, Zenon
<1>7. PICK x \in Nat : x = a + 6 /\ x # p /\ x = p + 1 /\ x + 2 = a + 8 /\ FirstAt(Wire(v), Crlf, p, x) /\ Wire(v)[x] = m.name
  <2>1. a + 6 \in Nat /\ a + 6 # p /\ a + 6 = p + 1 /\ a + 6 + 2 = a + 8
    BY <1>4
  <2> QED
    BY <1>4, <1>6, <2>1, Zenon
<1>8. \/ q < x + 2 /\ LineWaits
      \/ x = p /\ Window(v, x + 2, q, buf', rest) /\ LineEmpty
      \/ x = p + 1 /\ Window(v, x + 2, q, buf', rest) /\ LineKnown(Wire(v)[x])
      \/ x # p /\ ~(x = p + 1 /\ Wire(v)[x] \in Names \union Types) /\ LineRefused
  BY <1>7, HeaderTakes, Zenon
<1>9. CASE q < x + 2 /\ LineWaits
  <2>1. q < At(v, k) + 8
    BY <1>3, <1>7, <1>9, Zenon
  <2>2. InPart(v, j, k, p, q, FALSE, state, file, out)
    BY <2>1, Zenon DEF InPart, ReadsName
  <2>3. Parsing(v, state, buf, rest, FALSE, file, valid, first, out)
    BY <2>2, ParsingPart, Zenon
  <2> QED
    BY <1>1, <1>9, <2>3, Zenon DEF LineWaits
<1>10. CASE Window(v, x + 2, q, buf', rest) /\ LineKnown(Wire(v)[x])
  <2>1. m.name \in Names \union Types /\ m.name \notin Types
    BY <1>5, <1>7, <1>10 DEF LineKnown, Item
  <2>2. /\ file' = [NoFile EXCEPT !.name = m.name]
        /\ parsing' = TRUE /\ state' = "headers" /\ valid' = FALSE /\ out' = out
    BY <1>4, <1>7, <1>10, <2>1, Zenon DEF LineKnown
  <2>3. Window(v, At(v, k) + 8, q, buf', rest)
    BY <1>3, <1>7, <1>10, Zenon
  <2>4. InPart(v, j, k, At(v, k) + 8, q, TRUE, "headers", [NoFile EXCEPT !.name = m.name], out)
    <3>1. CASE m.type # ""
      BY <1>4, <1>5, <3>1, Zenon DEF InPart, ReadsType
    <3>2. CASE m.type = ""
      <4>1. At(v, k) + 8 + 2 = ContentAt(v, k)
        <5>1. ContentAt(v, k) = a + 10
          BY <1>2, <1>3, <1>5, <3>2, Positions, Zenon
        <5> QED
          BY <1>3, <5>1
      <4>2. [NoFile EXCEPT !.name = m.name] = [m EXCEPT !.content = <<>>]
        BY <3>2, HeadersAre, FileIs, Zenon
      <4>3. ReadsEmpty(v, j, k, At(v, k) + 8, q, TRUE, "headers", [NoFile EXCEPT !.name = m.name], out)
        BY <1>4, <1>5, <4>1, <4>2, Zenon DEF ReadsEmpty
      <4> QED
        BY <4>3, Zenon DEF InPart
    <3> QED
      BY <3>1, <3>2
  <2>5. Parsing(v, "headers", buf', rest, TRUE, [NoFile EXCEPT !.name = m.name], FALSE, first, out)
    BY <2>3, <2>4, ParsingPart, Zenon
  <2> QED
    BY <1>1, <2>2, <2>5, Zenon
<1>11. CASE ~(x = p + 1 /\ Wire(v)[x] \in Names \union Types) /\ LineRefused
  <2>1. m.name \notin Names
    BY <1>7, <1>11
  <2>2. ~Named(v)
    <3>1. k + 1 \in DOMAIN v
      BY <1>2, ContentOf, Zenon
    <3> QED
      BY <1>5, <2>1, <3>1, Zenon DEF Named
  <2> QED
    BY <1>11, <2>2, Zenon DEF LineRefused, Parsing
<1> QED
  BY <1>7, <1>8, <1>9, <1>10, <1>11, Zenon

LEMMA TypeTaken ==
  ASSUME NEW v \in Seq(Item), NEW j, Lost(v, j, first), NEW k \in j..(Len(v) - 1), NEW p, NEW q,
         Window(v, p, q, buf, rest), valid = FALSE, parsing = TRUE, Header, ReadsType(v, j, k, p, q, parsing, state, file, out)
  PROVE  Parsing(v, state', buf', rest', parsing', file', valid', first', out')
<1>1. rest' = rest /\ first' = first
  BY Zenon DEF Header
<1>2. k \in 0..(Len(v) - 1)
  BY LostIs
<1>3. PICK a \in Nat : a = At(v, k)
  BY <1>2, Positions, Zenon
<1>4. PICK m \in Item : m = v[k + 1]
  BY <1>2, PartLayout
<1>5. /\ state = "headers" /\ m.type # "" /\ p = a + 8 /\ Parted(v, j, k, out)
      /\ file = [NoFile EXCEPT !.name = m.name]
  BY <1>3, <1>4, Zenon DEF ReadsType
<1>6. FirstAt(Wire(v), Crlf, a + 8, a + 9) /\ Wire(v)[a + 9] = m.type
  BY <1>2, <1>3, <1>5, <1>4, HeadLines, Zenon
<1>7. PICK x \in Nat : x = a + 9 /\ x # p /\ x = p + 1 /\ x + 2 = a + 11 /\ FirstAt(Wire(v), Crlf, p, x) /\ Wire(v)[x] = m.type
  <2>0. p = a + 8
    BY <1>5, Zenon
  <2>1. a + 9 \in Nat /\ a + 9 # p /\ a + 9 = p + 1 /\ a + 9 + 2 = a + 11
    BY <2>0
  <2> QED
    BY <1>5, <1>6, <2>1, Zenon
<1>8. \/ q < x + 2 /\ LineWaits
      \/ x = p /\ Window(v, x + 2, q, buf', rest) /\ LineEmpty
      \/ x = p + 1 /\ Window(v, x + 2, q, buf', rest) /\ LineKnown(Wire(v)[x])
      \/ x # p /\ ~(x = p + 1 /\ Wire(v)[x] \in Names \union Types) /\ LineRefused
  BY <1>7, HeaderTakes, Zenon
<1>9. CASE q < x + 2 /\ LineWaits
  <2>1. q < At(v, k) + 11
    BY <1>3, <1>7, <1>9, Zenon
  <2>2. InPart(v, j, k, p, q, FALSE, state, file, out)
    BY <2>1, Zenon DEF InPart, ReadsType
  <2>3. Parsing(v, state, buf, rest, FALSE, file, valid, first, out)
    BY <2>2, ParsingPart, Zenon
  <2> QED
    BY <1>1, <1>9, <2>3, Zenon DEF LineWaits
<1>10. m.type \in Types
  BY <1>5, <1>4 DEF Item
<1>11. CASE Window(v, x + 2, q, buf', rest) /\ LineKnown(Wire(v)[x])
  <2>1. PICK g : g = [m EXCEPT !.content = <<>>] /\ g = [[NoFile EXCEPT !.name = m.name] EXCEPT !.type = m.type]
    <3>1. [[NoFile EXCEPT !.name = m.name] EXCEPT !.type = m.type] = [name |-> m.name, type |-> m.type, content |-> <<>>]
      BY FileIs, Zenon
    <3>2. [m EXCEPT !.content = <<>>] = [name |-> m.name, type |-> m.type, content |-> <<>>]
      BY HeadersAre, Zenon
    <3> QED
      BY <3>1, <3>2, Zenon
  <2>2. file' = g /\ parsing' = TRUE /\ state' = "headers" /\ valid' = FALSE /\ out' = out
    BY <1>5, <1>7, <1>10, <1>11, <2>1, Zenon DEF LineKnown
  <2>3. Window(v, a + 11, q, buf', rest)
    BY <1>7, <1>11, Zenon
  <2>4. a + 11 + 2 = ContentAt(v, k)
    <3>1. ContentAt(v, k) = a + 13
      BY <1>2, <1>3, <1>5, <1>4, Positions, Zenon
    <3> QED
      BY <3>1
  <2>5. ReadsEmpty(v, j, k, a + 11, q, TRUE, "headers", g, out)
    BY <1>5, <1>4, <2>1, <2>4, Zenon DEF ReadsEmpty
  <2>6. InPart(v, j, k, a + 11, q, TRUE, "headers", g, out)
    BY <2>5, Zenon DEF InPart
  <2>7. Parsing(v, "headers", buf', rest, TRUE, g, FALSE, first, out)
    BY <2>3, <2>6, ParsingPart, Zenon
  <2> QED
    BY <1>1, <2>2, <2>7, Zenon
<1>12. x = p + 1 /\ Wire(v)[x] \in Names \union Types
  BY <1>7, <1>10
<1> QED
  BY <1>7, <1>8, <1>9, <1>11, <1>12, Zenon

LEMMA EmptyTaken ==
  ASSUME NEW v \in Seq(Item), NEW j, Lost(v, j, first), NEW k \in j..(Len(v) - 1), NEW p, NEW q,
         Window(v, p, q, buf, rest), valid = FALSE, parsing = TRUE, Header, ReadsEmpty(v, j, k, p, q, parsing, state, file, out)
  PROVE  Parsing(v, state', buf', rest', parsing', file', valid', first', out')
<1>1. rest' = rest /\ first' = first
  BY Zenon DEF Header
<1>2. k \in 0..(Len(v) - 1)
  BY LostIs
<1>3. PICK a \in Nat, c \in Nat, d \in Nat : a = At(v, k) /\ c = ContentAt(v, k) /\ d = DelimiterAt(v, k) /\ c <= d
  BY <1>2, Positions, Zenon
<1>4. /\ state = "headers" /\ p + 2 = c /\ Parted(v, j, k, out) /\ file = [v[k + 1] EXCEPT !.content = <<>>]
  BY <1>3, Zenon DEF ReadsEmpty
<1>5. p \in Nat
  BY Zenon DEF Window
<1>6. FirstAt(Wire(v), Crlf, p, p)
  BY <1>2, <1>3, <1>4, <1>5, HeadLines, Zenon
<1>7. p # p + 1
  BY <1>5
<1>8. \/ q < p + 2 /\ LineWaits
      \/ Window(v, p + 2, q, buf', rest) /\ LineEmpty
  BY <1>5, <1>6, <1>7, HeaderTakes, Zenon
<1>9. CASE q < p + 2 /\ LineWaits
  <2>1. q < ContentAt(v, k)
    BY <1>3, <1>4, <1>9, Zenon
  <2>2. InPart(v, j, k, p, q, FALSE, state, file, out)
    BY <2>1, Zenon DEF InPart, ReadsEmpty
  <2>3. Parsing(v, state, buf, rest, FALSE, file, valid, first, out)
    BY <2>2, ParsingPart, Zenon
  <2> QED
    BY <1>1, <1>9, <2>3, Zenon DEF LineWaits
<1>10. CASE Window(v, p + 2, q, buf', rest) /\ LineEmpty
  <2>1. PICK o : o = Append(out, [v[k + 1] EXCEPT !.content = <<>>])
    OBVIOUS
  <2>2. out' = o /\ state' = "body" /\ parsing' = TRUE /\ file' = file /\ valid' = FALSE
    BY <1>4, <1>10, <2>1, Zenon DEF LineEmpty
  <2>3. Got(v, j, k, o, 0)
    BY <1>2, <1>4, <2>1, GotNone, Zenon
  <2>4. c - c = 0 /\ c >= c
    OBVIOUS
  <2>5. ReadsContent(v, j, k, c, q, TRUE, "body", o)
    BY <1>3, <2>3, <2>4, Zenon DEF ReadsContent
  <2>6. InPart(v, j, k, c, q, TRUE, "body", file, o)
    BY <2>5, Zenon DEF InPart
  <2>7. Window(v, c, q, buf', rest)
    BY <1>4, <1>10, Zenon
  <2>8. Parsing(v, "body", buf', rest, TRUE, file, FALSE, first, o)
    BY <2>6, <2>7, ParsingPart, Zenon
  <2> QED
    BY <1>1, <2>2, <2>8, Zenon
<1> QED
  BY <1>8, <1>9, <1>10, Zenon

LEMMA MisledTaken ==
  ASSUME NEW v \in Seq(Item), NEW p, NEW q,
         Window(v, p, q, buf, rest), valid = FALSE, Header, Misled(v, p, state, first)
  PROVE  Parsing(v, state', buf', rest', parsing', file', valid', first', out')
<1>1. rest' = rest /\ first' = first
  BY Zenon DEF Header
<1>2. PICK k \in 1..Len(v) : p = At(v, k)
  BY Zenon DEF Misled
<1>3. first \in 1..4
  BY Zenon DEF Misled
<1>4. p \in Nat
  BY Zenon DEF Window
<1>5. k \in 0..Len(v)
  OBVIOUS
<1>6. PICK x \in Nat : FirstAt(Wire(v), Crlf, p, x) /\ (x = p + 3 \/ x = p + 5)
  <2>1. p + 3 \in Nat /\ p + 5 \in Nat
    BY <1>4
  <2> QED
    BY <1>2, <1>4, <1>5, <2>1, BoundaryEnds, Zenon
<1>7. x # p /\ x # p + 1
  BY <1>4, <1>6
<1>8. LineWaits \/ LineRefused
  BY <1>6, <1>7, HeaderTakes, Zenon
<1>9. CASE LineWaits
  <2>1. Parsing(v, state, buf, rest, FALSE, file, valid, first, out)
    BY Zenon DEF Parsing
  <2> QED
    BY <1>1, <1>9, <2>1, Zenon DEF LineWaits
<1>10. CASE LineRefused
  <2>1. ~(first >= 5)
    BY <1>3
  <2> QED
    BY <1>1, <1>10, <2>1, Zenon DEF LineRefused, Parsing
<1> QED
  BY <1>8, <1>9, <1>10

LEMMA HeaderParsing ==
  ASSUME NEW v \in Seq(Item), Parsing(v, state, buf, rest, parsing, file, valid, first, out), parsing = TRUE, Header
  PROVE  Parsing(v, state', buf', rest', parsing', file', valid', first', out')
<1>1. state = "headers"
  BY DEF Header, Loop
<1>2. PICK p, q :
           /\ Window(v, p, q, buf, rest)
           /\ \/ valid = FALSE /\ Seeks(p, q, parsing, state, first, out)
              \/ valid = FALSE /\ Misled(v, p, state, first)
              \/ valid = FALSE /\ \E j : Lost(v, j, first) /\ \E k \in j..(Len(v) - 1) : InPart(v, j, k, p, q, parsing, state, file, out)
              \/ valid = TRUE /\ \E j : Lost(v, j, first) /\ Accepted(v, j, p, state, out)
  BY <1>1, Zenon DEF Parsing
<1>3. ~Seeks(p, q, parsing, state, first, out) /\ \A j : ~Accepted(v, j, p, state, out)
  BY <1>1, Zenon DEF Seeks, Accepted
<1>4. CASE valid = FALSE /\ Misled(v, p, state, first)
  BY <1>2, <1>4, MisledTaken, Zenon
<1>5. CASE valid = FALSE /\ \E j : Lost(v, j, first) /\ \E k \in j..(Len(v) - 1) : InPart(v, j, k, p, q, parsing, state, file, out)
  <2>1. PICK j : Lost(v, j, first) /\ \E k \in j..(Len(v) - 1) : InPart(v, j, k, p, q, parsing, state, file, out)
    BY <1>5, Zenon
  <2>2. PICK k \in j..(Len(v) - 1) : InPart(v, j, k, p, q, parsing, state, file, out)
    BY <2>1, Zenon
  <2>3. \/ ReadsName(v, j, k, p, q, parsing, state, file, out) \/ ReadsType(v, j, k, p, q, parsing, state, file, out)
        \/ ReadsEmpty(v, j, k, p, q, parsing, state, file, out)
    BY <1>1, <2>2, PartByState, Zenon
  <2>4. Lost(v, j, first) /\ Window(v, p, q, buf, rest) /\ valid = FALSE
    BY <1>2, <1>5, <2>1, Zenon
  <2> QED
    BY <2>3, <2>4, NameTaken, TypeTaken, EmptyTaken, Zenon
<1> QED
  BY <1>2, <1>3, <1>4, <1>5, Zenon

(* The first d bytes of the buffer are bytes of the content. *)
LEMMA ContentTaken ==
  ASSUME NEW v \in Seq(Item), NEW k \in 0..(Len(v) - 1), NEW j \in 0..k, NEW p, NEW q, Window(v, p, q, buf, rest),
         p >= ContentAt(v, k), Got(v, j, k, out, p - ContentAt(v, k)),
         NEW d \in Nat, p + d <= q, p + d <= DelimiterAt(v, k), Content(d)
  PROVE  Got(v, j, k, out', (p + d) - ContentAt(v, k))
<1>1. PICK c \in Nat, e \in Nat : c = ContentAt(v, k) /\ e = DelimiterAt(v, k) /\ e - c = Len(v[k + 1].content)
  BY Positions, Zenon
<1>2. PICK t \in Seq(Letters) : t = v[k + 1].content /\ \A i \in 1..Len(t) : Wire(v)[c + i] = t[i]
  BY <1>1, ContentOf, Zenon
<1>3. /\ buf \in Seq(Letters) /\ PieceOf(buf, Wire(v), p, q - p) /\ Len(buf) = q - p
      /\ p \in Nat /\ q \in Nat /\ p <= q
  BY WindowIs
<1>4. PICK l \in Nat, n \in Nat : l = p - c /\ n = q - p /\ d <= n /\ l + d <= Len(t) /\ l + d = (p + d) - c /\ Len(t) \in Nat
  <2>1. Len(t) = e - c
    BY <1>1, <1>2, Zenon
  <2>2. p >= c /\ p + d <= e
    BY <1>1, Zenon
  <2>3. p - c \in Nat /\ q - p \in Nat /\ d <= q - p /\ (p - c) + d <= e - c /\ (p - c) + d = (p + d) - c
    BY <1>3, <2>2
  <2>4. Len(t) \in Nat
    OBVIOUS
  <2> QED
    BY <2>1, <2>3, <2>4, Zenon
<1>5. PICK x \in Seq(Letters) : x = SubSeq(buf, 1, d) /\ FrontOf(x, buf, d)
  BY <1>3, <1>4, FirstPiece, Zenon
<1>6. PieceOf(x, t, l, d)
  <2>1. Len(x) = d /\ \A i \in 1..d : x[i] = buf[i]
    BY <1>5, Zenon DEF FrontOf
  <2>2. \A i \in 1..n : buf[i] = Wire(v)[p + i]
    BY <1>3, <1>4, Zenon DEF PieceOf
  <2>3. ASSUME NEW i \in 1..d PROVE x[i] = t[l + i]
    <3>1. i \in 1..n /\ l + i \in 1..Len(t) /\ c + (l + i) = p + i
      BY <1>3, <1>4
    <3> QED
      BY <1>2, <2>1, <2>2, <3>1, Zenon
  <2> QED
    BY <2>1, <2>3, Zenon DEF PieceOf
<1>7. Got(v, j, k, NewContent(out, out[Len(out)].content \o x), l + d)
  <2>1. Got(v, j, k, out, l)
    BY <1>1, <1>4, Zenon
  <2>2. PieceOf(x, v[k + 1].content, l, d) /\ l + d <= Len(v[k + 1].content)
    BY <1>2, <1>4, <1>6, Zenon
  <2> QED
    BY <2>1, <2>2, GotMore, Zenon
<1>8. out' = NewContent(out, out[Len(out)].content \o x)
  BY <1>5, ContentIs, Zenon
<1> QED
  BY <1>1, <1>4, <1>7, <1>8, Zenon

LEMMA BodyParsing ==
  ASSUME NEW v \in Seq(Item), Without(v, CrlfDashBoundary),
         Parsing(v, state, buf, rest, parsing, file, valid, first, out), parsing = TRUE, Body
  PROVE  Parsing(v, state', buf', rest', parsing', file', valid', first', out')
<1>1. state = "body" /\ rest' = rest /\ file' = file /\ valid' = valid /\ first' = first
  BY DEF Body, Loop
<1>2. PICK p, q :
           /\ Window(v, p, q, buf, rest)
           /\ \/ valid = FALSE /\ Seeks(p, q, parsing, state, first, out)
              \/ valid = FALSE /\ Misled(v, p, state, first)
              \/ valid = FALSE /\ \E j : Lost(v, j, first) /\ \E k \in j..(Len(v) - 1) : InPart(v, j, k, p, q, parsing, state, file, out)
              \/ valid = TRUE /\ \E j : Lost(v, j, first) /\ Accepted(v, j, p, state, out)
  BY <1>1, Zenon DEF Parsing
<1>3. ~Seeks(p, q, parsing, state, first, out) /\ ~Misled(v, p, state, first) /\ \A j : ~Accepted(v, j, p, state, out)
  BY <1>1 DEF Seeks, Misled, Accepted
<1>4. PICK j : Lost(v, j, first) /\ \E k \in j..(Len(v) - 1) : InPart(v, j, k, p, q, parsing, state, file, out)
  BY <1>2, <1>3, Zenon
<1>5. PICK k \in j..(Len(v) - 1) : ReadsContent(v, j, k, p, q, parsing, state, out)
  BY <1>1, <1>4, PartByState, Zenon
<1>6. Window(v, p, q, buf, rest) /\ valid = FALSE /\ Lost(v, j, first)
  BY <1>2, <1>3, <1>4, Zenon
<1>7. k \in 0..(Len(v) - 1) /\ j \in 0..k
  BY <1>6, LostIs
<1>8. PICK c \in Nat, e \in Nat : c = ContentAt(v, k) /\ e = DelimiterAt(v, k) /\ c <= e /\ e - c = Len(v[k + 1].content)
  BY <1>7, Positions, Zenon
<1>9. p >= c /\ p <= e /\ Got(v, j, k, out, p - c)
  BY <1>5, <1>8, Zenon DEF ReadsContent
<1>10. PICK l \in Nat : l = q - p /\ l = Len(buf) /\ p \in Nat /\ q \in Nat /\ p <= q
  <2>1. Len(buf) = q - p /\ p \in Nat /\ q \in Nat /\ p <= q
    BY <1>6, WindowIs
  <2>2. q - p \in Nat
    BY <2>1
  <2> QED
    BY <2>1, <2>2, Zenon
<1>11. PICK s \in Seq(Letters), m \in Nat : s = CrlfDashBoundary /\ Len(s) = m /\ m = 5 /\ m > 0
  <2>1. 5 \in Nat /\ 5 > 0
    OBVIOUS
  <2> QED
    BY <2>1, DelimiterIs, Zenon
<1>12. PICK n : n = Find(s)
  OBVIOUS
<1>13. (e + m <= q => n = e - p) /\ (~(e + m <= q) => n = q - p)
  <2>1. c <= p
    BY <1>9, <1>10
  <2>2. FirstAt(Wire(v), s, p, e) /\ m > 0 /\ Len(s) = m
    BY <1>7, <1>8, <1>9, <1>10, <1>11, <2>1, DelimiterFirst, Zenon
  <2>3. Window(v, p, q, buf, rest)
    BY <1>6, Zenon
  <2> QED
    BY <1>12, <2>2, <2>3, FindInWindow
<1>14. \/ l - m < 0 /\ parsing' = FALSE /\ buf' = buf /\ state' = state /\ out' = out
       \/ n < l /\ Content(n) /\ buf' = Drop(buf, n + m) /\ state' = "boundary" /\ parsing' = parsing
       \/ l - m >= 0 /\ n = l /\ Content(l - m) /\ buf' = Drop(buf, l - m) /\ parsing' = FALSE /\ state' = state
  <2>1. s = CrlfDashBoundary /\ Len(s) = m /\ l = Len(buf)
    BY <1>10, <1>11, Zenon
  <2> QED
    BY <1>12, <2>1, Zenon DEF Body, Waits
<1>15. CASE l - m < 0 /\ parsing' = FALSE /\ buf' = buf /\ state' = state /\ out' = out
  <2>1. q < e + 5
    BY <1>9, <1>10, <1>11, <1>15
  <2>2. ReadsContent(v, j, k, p, q, FALSE, state, out)
    BY <1>5, <1>8, <2>1, Zenon DEF ReadsContent
  <2>3. InPart(v, j, k, p, q, FALSE, state, file, out)
    BY <2>2, Zenon DEF InPart
  <2>4. Parsing(v, state, buf, rest, FALSE, file, valid, first, out)
    BY <1>6, <2>3, ParsingPart, Zenon
  <2> QED
    BY <1>1, <1>15, <2>4, Zenon
<1>16. CASE n < l /\ Content(n) /\ buf' = Drop(buf, n + m) /\ state' = "boundary" /\ parsing' = parsing
  <2>1. e + m <= q /\ n = e - p
    BY <1>8, <1>10, <1>11, <1>13, <1>16
  <2>2. PICK d \in Nat : d = n /\ p + d = e /\ p + d <= q /\ p + d <= e /\ p + (d + m) <= q /\ p + (d + m) = e + 5 /\ d + m \in Nat
    <3>1. n \in Nat /\ p + n = e /\ p + n <= q /\ p + n <= e /\ p + (n + m) <= q /\ p + (n + m) = e + 5 /\ n + m \in Nat
      <4>1. m = 5 /\ p <= e /\ p \in Nat /\ q \in Nat
        BY <1>9, <1>10, <1>11, Zenon
      <4> QED
        BY <2>1, <4>1
    <3> QED
      BY <3>1, Zenon
  <2>3. Got(v, j, k, out', (p + d) - c)
    <3>1. p + d <= DelimiterAt(v, k) /\ p >= ContentAt(v, k) /\ Got(v, j, k, out, p - ContentAt(v, k)) /\ Content(d)
      BY <1>8, <1>9, <1>16, <2>2, Zenon
    <3> QED
      BY <1>6, <1>7, <1>8, <2>2, <3>1, ContentTaken, Zenon
  <2>4. Parted(v, j, k + 1, out')
    <3>1. (p + d) - c = Len(v[k + 1].content)
      <4>1. p + d = e /\ e - c = Len(v[k + 1].content) /\ p \in Nat
        BY <1>8, <1>10, <2>2, Zenon
      <4> QED
        BY <4>1
    <3> QED
      BY <1>7, <2>3, <3>1, GotAll, Zenon
  <2>5. Window(v, e + 5, q, buf', rest)
    <3>1. Window(v, p + (d + m), q, Drop(buf, d + m), rest)
      BY <1>6, <2>2, WindowDrop, Zenon
    <3> QED
      BY <1>16, <2>2, <3>1, Zenon
  <2>6. EndsPart(v, j, k, e + 5, q, TRUE, "boundary", out')
    BY <1>8, <2>4, Zenon DEF EndsPart
  <2>7. InPart(v, j, k, e + 5, q, TRUE, "boundary", file, out')
    BY <2>6, Zenon DEF InPart
  <2>8. Parsing(v, "boundary", buf', rest, TRUE, file, valid, first, out')
    BY <1>6, <2>5, <2>7, ParsingPart, Zenon
  <2> QED
    BY <1>1, <1>16, <2>8, Zenon
<1>17. CASE l - m >= 0 /\ n = l /\ Content(l - m) /\ buf' = Drop(buf, l - m) /\ parsing' = FALSE /\ state' = state
  <2>1. ~(e + m <= q)
    BY <1>8, <1>10, <1>11, <1>13, <1>17, SMTT(40)
  <2>2. PICK d \in Nat : d = l - m /\ p + d <= q /\ p + d <= e /\ q < e + 5 /\ p + d >= c
    <3>1. l - m \in Nat /\ p + (l - m) <= q /\ p + (l - m) <= e /\ q < e + 5 /\ p + (l - m) >= c
      <4>1. m = 5 /\ c <= e /\ p >= c /\ p <= e /\ p \in Nat /\ q \in Nat /\ l = q - p /\ l - m >= 0
        BY <1>8, <1>9, <1>10, <1>11, <1>17, Zenon
      <4> QED
        BY <2>1, <4>1
    <3> QED
      BY <3>1, Zenon
  <2>3. Got(v, j, k, out', (p + d) - c)
    <3>1. p + d <= DelimiterAt(v, k) /\ p >= ContentAt(v, k) /\ Got(v, j, k, out, p - ContentAt(v, k)) /\ Content(d)
      BY <1>8, <1>9, <1>17, <2>2, Zenon
    <3> QED
      BY <1>6, <1>7, <1>8, <2>2, <3>1, ContentTaken, Zenon
  <2>4. Window(v, p + d, q, buf', rest)
    <3>1. Window(v, p + d, q, Drop(buf, d), rest)
      BY <1>6, <2>2, WindowDrop, Zenon
    <3> QED
      BY <1>17, <2>2, <3>1, Zenon
  <2>5. ReadsContent(v, j, k, p + d, q, FALSE, "body", out')
    BY <1>8, <2>2, <2>3, Zenon DEF ReadsContent
  <2>6. InPart(v, j, k, p + d, q, FALSE, "body", file, out')
    BY <2>5, Zenon DEF InPart
  <2>7. Parsing(v, "body", buf', rest, FALSE, file, valid, first, out')
    BY <1>6, <2>4, <2>6, ParsingPart, Zenon
  <2> QED
    BY <1>1, <1>17, <2>7, Zenon
<1> QED
  BY <1>14, <1>15, <1>16, <1>17, Zenon

LEMMA StartsWithTwo ==
  ASSUME buf \in Seq(Letters), NEW s \in Seq(Letters), Len(s) = 2
  PROVE  StartsWith(s) <=> Len(buf) >= 2 /\ buf[1] = s[1] /\ buf[2] = s[2]
<1>1. StartsWith(s) <=> Len(s) <= Len(buf) /\ SubSeq(s, 1, Len(s)) = SubSeq(buf, 1, Len(s))
  BY DEF StartsWith, IsPrefix
<1>2. SubSeq(s, 1, 2) = s
  OBVIOUS
<1>3. ASSUME Len(buf) >= 2 PROVE SubSeq(buf, 1, 2) = s <=> buf[1] = s[1] /\ buf[2] = s[2]
  <2>1. PICK u \in Seq(Letters) : u = SubSeq(buf, 1, 2) /\ FrontOf(u, buf, 2)
    <3>1. 2 \in Nat /\ 2 <= Len(buf)
      BY <1>3
    <3> QED
      BY <3>1, FirstPiece, Zenon
  <2>2. Len(u) = 2 /\ u[1] = buf[1] /\ u[2] = buf[2]
    BY <2>1 DEF FrontOf
  <2>3. (u[1] = s[1] /\ u[2] = s[2]) => u = s
    BY <2>2
  <2> QED
    BY <2>1, <2>2, <2>3, Zenon
<1> QED
  BY <1>1, <1>2, <1>3

LEMMA BoundaryParsing ==
  ASSUME NEW v \in Seq(Item), Parsing(v, state, buf, rest, parsing, file, valid, first, out), parsing = TRUE, BoundaryEnd
  PROVE  Parsing(v, state', buf', rest', parsing', file', valid', first', out')
<1>1. state = "boundary" /\ rest' = rest /\ file' = file /\ first' = first /\ out' = out
  BY DEF BoundaryEnd, Loop
<1>2. PICK p, q :
           /\ Window(v, p, q, buf, rest)
           /\ \/ valid = FALSE /\ Seeks(p, q, parsing, state, first, out)
              \/ valid = FALSE /\ Misled(v, p, state, first)
              \/ valid = FALSE /\ \E j : Lost(v, j, first) /\ \E k \in j..(Len(v) - 1) : InPart(v, j, k, p, q, parsing, state, file, out)
              \/ valid = TRUE /\ \E j : Lost(v, j, first) /\ Accepted(v, j, p, state, out)
  BY <1>1, Zenon DEF Parsing
<1>3. ~Seeks(p, q, parsing, state, first, out) /\ ~Misled(v, p, state, first)
  BY <1>1 DEF Seeks, Misled
<1>4. PICK l \in Nat : /\ l = q - p /\ l = Len(buf) /\ p \in Nat /\ q \in Nat /\ p <= q /\ q <= Len(Wire(v)) /\ Len(Wire(v)) \in Nat
                       /\ PieceOf(buf, Wire(v), p, l) /\ buf \in Seq(Letters)
  <2>1. /\ Len(buf) = q - p /\ p \in Nat /\ q \in Nat /\ p <= q /\ q <= Len(Wire(v)) /\ Len(Wire(v)) \in Nat
        /\ PieceOf(buf, Wire(v), p, q - p) /\ buf \in Seq(Letters)
    BY <1>2, WindowIs
  <2>2. q - p \in Nat
    BY <2>1
  <2> QED
    BY <2>1, <2>2, Zenon
<1>5. /\ StartsWith(Crlf) <=> l >= 2 /\ buf[1] = CR /\ buf[2] = LF
      /\ StartsWith(Dash) <=> l >= 2 /\ buf[1] = "-" /\ buf[2] = "-"
  <2>1. Dash \in Seq(Letters) /\ Len(Dash) = 2 /\ Dash[1] = "-" /\ Dash[2] = "-"
    BY LettersHave DEF Dash
  <2> QED
    BY <1>4, <2>1, CrlfIsLine, StartsWithTwo, Zenon
<1>6. \/ l < 2 /\ parsing' = FALSE /\ buf' = buf /\ state' = state /\ valid' = valid
      \/ StartsWith(Crlf) /\ buf' = Drop(buf, 2) /\ state' = "new" /\ parsing' = parsing /\ valid' = valid
      \/ StartsWith(Dash) /\ buf' = <<>> /\ valid' = TRUE /\ parsing' = parsing /\ state' = state
      \/ /\ l >= 2 /\ ~StartsWith(Crlf) /\ ~StartsWith(Dash)
         /\ parsing' = FALSE /\ buf' = buf /\ state' = state /\ valid' = valid
  BY <1>4, CrlfIsLine, Zenon DEF BoundaryEnd, Waits
<1>7. l >= 2 => buf[1] = Wire(v)[p + 1] /\ buf[2] = Wire(v)[p + 2]
  BY <1>4 DEF PieceOf
<1>8. p + 2 <= q => Window(v, p + 2, q, Drop(buf, 2), rest)
  <2>1. 2 \in Nat
    OBVIOUS
  <2> QED
    BY <1>2, <2>1, WindowDrop, Zenon
<1>9. Window(v, q, q, <<>>, rest)
  BY <1>2, WindowEmpty, Zenon
<1>10. l >= 2 => p + 2 <= q
  BY <1>4
<1>11. CASE valid = FALSE /\ \E j : Lost(v, j, first) /\ \E k \in j..(Len(v) - 1) : InPart(v, j, k, p, q, parsing, state, file, out)
  <2>1. PICK j : Lost(v, j, first) /\ \E k \in j..(Len(v) - 1) : InPart(v, j, k, p, q, parsing, state, file, out)
    BY <1>11, Zenon
  <2>2. PICK k \in j..(Len(v) - 1) : EndsPart(v, j, k, p, q, parsing, state, out)
    BY <1>1, <2>1, PartByState, Zenon
  <2>3. k \in 0..(Len(v) - 1) /\ j \in 0..k /\ k \in Nat /\ j \in Nat /\ Len(v) \in Nat
    BY <2>1, LostIs
  <2>4. PICK e \in Nat : e = DelimiterAt(v, k) /\ p = e + 5 /\ Parted(v, j, k + 1, out) /\ At(v, k + 1) = e + 2
    BY <2>2, <2>3, Positions, Zenon DEF EndsPart
  <2>5. PICK a \in Nat : a = At(v, k + 1) /\ p = a + 3 /\ p + 1 = a + 4 /\ p + 2 = a + 5
    <3>1. e + 2 \in Nat /\ p = (e + 2) + 3 /\ p + 1 = (e + 2) + 4 /\ p + 2 = (e + 2) + 5
      BY <2>4
    <3> QED
      BY <2>4, <3>1, Zenon
  <2>6. k + 1 \in 0..Len(v) /\ (k + 1 < Len(v) \/ k + 1 = Len(v)) /\ (k + 1 < Len(v) => k + 1 \in j..(Len(v) - 1))
    BY <2>3
  <2>7. CASE l < 2 /\ parsing' = FALSE /\ buf' = buf /\ state' = state /\ valid' = valid
    <3>1. q < p + 2
      BY <1>4, <2>7
    <3>2. InPart(v, j, k, p, q, FALSE, state, file, out)
      BY <2>2, <3>1, Zenon DEF InPart, EndsPart
    <3>3. Parsing(v, state, buf, rest, FALSE, file, valid, first, out)
      BY <1>2, <1>11, <2>1, <3>2, ParsingPart, Zenon
    <3> QED
      BY <1>1, <2>7, <3>3, Zenon
  <2>8. CASE k + 1 < Len(v) /\ l >= 2
    <3>1. Wire(v)[p + 1] = CR /\ Wire(v)[p + 2] = LF
      BY <2>5, <2>6, <2>8, BoundaryThere, Zenon
    <3>2. CR # "-"
      BY DEF CR
    <3>3. buf[1] = CR /\ buf[2] = LF
      BY <1>7, <2>8, <3>1, Zenon
    <3>4. ~(l < 2)
      BY <2>8
    <3>5. buf' = Drop(buf, 2) /\ state' = "new" /\ parsing' = parsing /\ valid' = valid
      BY <1>5, <1>6, <2>8, <3>2, <3>3, <3>4, Zenon
    <3>6. Window(v, p + 2, q, buf', rest)
      BY <1>8, <1>10, <2>8, <3>5, Zenon
    <3>7. OpensPart(v, j, k + 1, p + 2, q, TRUE, "new", out)
      BY <2>4, <2>5, Zenon DEF OpensPart
    <3>8. InPart(v, j, k + 1, p + 2, q, TRUE, "new", file, out)
      BY <3>7, Zenon DEF InPart
    <3>9. Parsing(v, "new", buf', rest, TRUE, file, valid, first, out)
      BY <1>11, <2>1, <2>6, <2>8, <3>6, <3>8, ParsingPart, Zenon
    <3> QED
      BY <1>1, <3>5, <3>9, Zenon
  <2>9. CASE k + 1 = Len(v) /\ l >= 2
    <3>1. Wire(v)[p + 1] = "-" /\ Wire(v)[p + 2] = "-" /\ Len(Wire(v)) = a + 7
      BY <2>5, <2>6, <2>9, BoundaryThere, ZenonT(60) DEF IsLast
    <3>2. CR # "-"
      BY DEF CR
    <3>3. buf[1] = "-" /\ buf[2] = "-"
      BY <1>7, <2>9, <3>1, Zenon
    <3>4. ~(l < 2)
      BY <2>9
    <3>5. buf' = <<>> /\ valid' = TRUE /\ parsing' = parsing /\ state' = state
      BY <1>5, <1>6, <2>9, <3>2, <3>3, <3>4, Zenon
    <3>6. q + 2 >= Len(Wire(v))
      <4>1. l = q - p /\ p \in Nat /\ q \in Nat /\ l >= 2 /\ p = a + 3 /\ Len(Wire(v)) = a + 7
        BY <1>4, <2>5, <2>9, <3>1, Zenon
      <4>2. q + 2 >= a + 7
        BY <4>1
      <4> QED
        BY <4>1, <4>2, Zenon
    <3>7. Accepted(v, j, q, state, out)
      BY <1>1, <2>4, <2>9, <3>6, Zenon DEF Accepted
    <3>8. Parsing(v, state, <<>>, rest, parsing, file, TRUE, first, out)
      BY <1>9, <2>1, <3>7, Zenon DEF Parsing
    <3> QED
      BY <1>1, <3>5, <3>8, Zenon
  <2>10. l < 2 \/ l >= 2
    BY <1>4
  <2>11. l < 2 => ~(l >= 2)
    BY <1>4
  <2>12. CASE l < 2
    BY <1>5, <1>6, <2>7, <2>11, <2>12, Zenon
  <2> QED
    BY <2>6, <2>8, <2>9, <2>10, <2>12, Zenon
<1>12. CASE valid = TRUE /\ \E j : Lost(v, j, first) /\ Accepted(v, j, p, state, out)
  <2>1. PICK j : Lost(v, j, first) /\ Accepted(v, j, p, state, out)
    BY <1>12, Zenon
  <2>2. p + 2 >= Len(Wire(v)) /\ Parted(v, j, Len(v), out)
    BY <1>1, <2>1 DEF Accepted
  <2>3. CASE parsing' = FALSE /\ buf' = buf /\ state' = state /\ valid' = valid
    <3>1. Parsing(v, state, buf, rest, FALSE, file, valid, first, out)
      BY <1>2, <1>12, Zenon DEF Parsing
    <3> QED
      BY <1>1, <2>3, <3>1, Zenon
  <2>4. CASE StartsWith(Crlf) /\ buf' = Drop(buf, 2) /\ state' = "new" /\ parsing' = parsing /\ valid' = valid
    <3>1. l >= 2
      BY <1>5, <2>4, Zenon
    <3>2. p + 2 = Len(Wire(v))
      BY <1>4, <2>2, <3>1
    <3>3. Accepted(v, j, p + 2, "new", out)
      BY <2>2, <3>2, Zenon DEF Accepted
    <3>4. Window(v, p + 2, q, buf', rest)
      BY <1>8, <1>10, <2>4, <3>1, Zenon
    <3>5. Parsing(v, "new", buf', rest, parsing, file, valid, first, out)
      BY <1>12, <2>1, <3>3, <3>4, Zenon DEF Parsing
    <3> QED
      BY <1>1, <2>4, <3>5, Zenon
  <2>5. CASE StartsWith(Dash) /\ buf' = <<>> /\ valid' = TRUE /\ parsing' = parsing /\ state' = state
    <3>1. q + 2 >= Len(Wire(v))
      BY <1>4, <2>2
    <3>2. Accepted(v, j, q, state, out)
      BY <1>1, <2>2, <3>1, Zenon DEF Accepted
    <3>3. Parsing(v, state, <<>>, rest, parsing, file, TRUE, first, out)
      BY <1>9, <2>1, <3>2, Zenon DEF Parsing
    <3> QED
      BY <1>1, <2>5, <3>3, Zenon
  <2> QED
    BY <1>6, <2>3, <2>4, <2>5, Zenon
<1> QED
  BY <1>2, <1>3, <1>11, <1>12, Zenon

-----------------------------------------------------------------------------
(* The invariant of the parser. *)
LEMMA ItemsGiven ==
  ASSUME NEW i \in Inputs, i.kind = "multipart"
  PROVE  i.value \in Seq(Item) /\ i.value # <<>>
BY FormatInputs, Zenon DEF Item

LEMMA MultipartInit == Init => MultipartInv /\ MultipartOut
<1>1. SUFFICES ASSUME Init, input.kind = "multipart"
               PROVE  /\ first \in Nat /\ parsing \in BOOLEAN
                      /\ Parsing(input.value, state, buf, rest, parsing, file, valid, first, out)
                      /\ Handing(state, buf, rest, file, out)
  BY Zenon DEF Init, MultipartInv, MultipartOut
<1>2. /\ input \in Inputs /\ rest = Wire(input.value) /\ state = "initial"
      /\ buf = <<>> /\ parsing = FALSE /\ file = NoFile /\ valid = FALSE /\ first = 0 /\ out = <<>>
  BY <1>1 DEF Init, Wire
<1>3. PICK v \in Seq(Item) : v = input.value
  BY <1>1, <1>2, ItemsGiven, Zenon
<1>4. PICK w \in Seq(Letters) : w = Wire(v)
  BY WireLayout
<1>5. 0 \in Nat /\ 0 <= 0 /\ 0 <= Len(w)
  OBVIOUS
<1>6. Remaining(w, 0, 0) = <<>> /\ Remaining(w, 0, Len(w)) = w
  BY DEF Remaining
<1>7. Window(v, 0, 0, <<>>, w)
  BY <1>4, <1>5, <1>6, Zenon DEF Window
<1>8. Seeks(0, 0, FALSE, "initial", 0, <<>>)
  BY DEF Seeks
<1>9. Parsing(v, "initial", <<>>, w, FALSE, NoFile, FALSE, 0, <<>>)
  BY <1>7, <1>8, Zenon DEF Parsing
<1>10. Handing("initial", <<>>, w, NoFile, <<>>)
  <2>1. NoFile \in Heads
    BY DEF NoFile, Heads, Letters
  <2>2. Clean(<<>>, Len(<<>>))
    BY DEF Clean
  <2>3. <<>> \in Seq(Letters) /\ <<>> \in Seq(Parts)
    OBVIOUS
  <2> QED
    BY <2>1, <2>2, <2>3, Zenon DEF Handing
<1> QED
  BY <1>2, <1>3, <1>4, <1>5, <1>9, <1>10, Zenon

LEMMA ParsingStep ==
  ASSUME NEW v \in Seq(Item), v # <<>>, first \in Nat, parsing \in BOOLEAN, Suits(v, first'),
         Suits(v, first) => Parsing(v, state, buf, rest, parsing, file, valid, first, out),
         \/ Parse \/ Emptied \/ InitialBoundary \/ NewEntry \/ Header \/ Body \/ BoundaryEnd
  PROVE  Parsing(v, state', buf', rest', parsing', file', valid', first', out')
<1>1. Suits(v, first)
  <2>1. CASE Parse
    <3>1. first = 0 \/ first' = first
      BY <2>1, Zenon DEF Parse
    <3> QED
      BY <3>1, Zenon DEF Suits
  <2>2. CASE ~Parse
    <3>1. first' = first
      BY <2>2, Zenon DEF Emptied, InitialBoundary, NewEntry, Header, Body, BoundaryEnd
    <3> QED
      BY <3>1, Zenon
  <2> QED
    BY <2>1, <2>2
<1>2. Parsing(v, state, buf, rest, parsing, file, valid, first, out)
  BY <1>1, Zenon
<1>3. CASE Parse
  BY <1>2, <1>3, ParseParsing, Zenon
<1>4. CASE Emptied
  BY <1>2, <1>4, EmptiedParsing, Zenon
<1>5. CASE InitialBoundary
  BY <1>1, <1>2, <1>5, InitialParsing, Zenon
<1>6. CASE NewEntry
  BY <1>2, <1>6, EntryParsing, Zenon
<1>7. CASE Header
  <2>1. parsing = TRUE
    BY <1>7 DEF Header, Loop
  <2> QED
    BY <1>2, <1>7, <2>1, HeaderParsing, Zenon
<1>8. CASE Body
  <2>1. parsing = TRUE
    BY <1>8 DEF Body, Loop
  <2>2. Without(v, CrlfDashBoundary)
    BY <1>1, Zenon DEF Suits
  <2> QED
    BY <1>2, <1>8, <2>1, <2>2, BodyParsing, Zenon
<1>9. CASE BoundaryEnd
  <2>1. parsing = TRUE
    BY <1>9 DEF BoundaryEnd, Loop
  <2> QED
    BY <1>2, <1>9, <2>1, BoundaryParsing, Zenon
<1> QED
  BY <1>3, <1>4, <1>5, <1>6, <1>7, <1>8, <1>9, Zenon

LEMMA HandingStep ==
  ASSUME Handing(state, buf, rest, file, out),
         \/ Parse \/ Emptied \/ InitialBoundary \/ NewEntry \/ Header \/ Body \/ BoundaryEnd
  PROVE  Handing(state, buf, rest, file, out)'
<1>1. CASE Parse
  BY <1>1, ParseHanding, Zenon
<1>2. CASE InitialBoundary \/ NewEntry
  BY <1>2, InitialHanding, Zenon
<1>3. CASE Header
  BY <1>3, HeaderHanding, Zenon
<1>4. CASE Body
  BY <1>4, BodyHanding, Zenon
<1>5. CASE BoundaryEnd \/ Emptied
  BY <1>5, BoundaryHanding, Zenon
<1> QED
  BY <1>1, <1>2, <1>3, <1>4, <1>5, Zenon

LEMMA MultipartStep == MultipartInv /\ MultipartOut /\ [Next]_vars => MultipartInv' /\ MultipartOut'
<1> SUFFICES ASSUME MultipartInv, MultipartOut, [Next]_vars
             PROVE  MultipartInv' /\ MultipartOut'
  OBVIOUS
<1>1. CASE UNCHANGED vars
  <2>1. /\ input' = input /\ rest' = rest /\ buf' = buf /\ state' = state /\ parsing' = parsing /\ file' = file
        /\ valid' = valid /\ first' = first /\ out' = out
    BY <1>1 DEF vars
  <2>2. MultipartOut'
    BY <2>1, Zenon DEF MultipartOut
  <2>3. MultipartInv'
    BY <2>1, Zenon DEF MultipartInv
  <2> QED
    BY <2>2, <2>3
<1>2. CASE Next
  <2>1. input' = input /\ input \in Inputs
    BY <1>2, Zenon DEF MultipartInv, Next, Parse, Emptied, InitialBoundary, NewEntry, Header, Body, BoundaryEnd,
                       ChunkSize, ChunkData, ChunkEnd, Trailer
  <2>2. CASE input.kind # "multipart"
    BY <2>1, <2>2, Zenon DEF MultipartInv, MultipartOut
  <2>3. CASE input.kind = "multipart"
    <3>1. Parse \/ Emptied \/ InitialBoundary \/ NewEntry \/ Header \/ Body \/ BoundaryEnd
      BY <1>2, <2>3 DEF Next, ChunkSize, ChunkData, ChunkEnd, Trailer, Getline
    <3>2. /\ first \in Nat /\ parsing \in BOOLEAN /\ Handing(state, buf, rest, file, out)
          /\ Suits(input.value, first) => Parsing(input.value, state, buf, rest, parsing, file, valid, first, out)
      BY <2>3, Zenon DEF MultipartInv, MultipartOut
    <3>3. PICK v \in Seq(Item) : v = input.value /\ v # <<>>
      BY <2>1, <2>3, ItemsGiven, Zenon
    <3>4. Handing(state, buf, rest, file, out)'
      BY <3>1, <3>2, HandingStep, Zenon
    <3>5. parsing' \in BOOLEAN
      BY <3>1, <3>2 DEF Parse, Emptied, InitialBoundary, NewEntry, Header, Body, BoundaryEnd, Waits, Refuses
    <3>6. first' \in Nat
      BY <3>1, <3>2 DEF Parse, Emptied, InitialBoundary, NewEntry, Header, Body, BoundaryEnd, StreamRead
    <3>7. Suits(v, first') => Parsing(v, state', buf', rest', parsing', file', valid', first', out')
      BY <3>1, <3>2, <3>3, ParsingStep, Zenon
    <3>8. MultipartOut'
      BY <3>4, Zenon DEF MultipartOut
    <3>9. MultipartInv'
      BY <2>1, <3>3, <3>5, <3>6, <3>7, Zenon DEF MultipartInv
    <3> QED
      BY <3>8, <3>9
  <2> QED
    BY <2>2, <2>3
<1> QED
  BY <1>1, <1>2

(* Contents without the delimiter: the last one has it not even with what  *)
(* is held back in front of it.                                            *)
LEMMA HandedClean ==
  ASSUME NEW s, NEW b, NEW r, NEW f, NEW o, Handing(s, b, r, f, o)
  PROVE  Without(o, CrlfDashBoundary)
<1>1. b \in Seq(Letters) /\ o \in Seq(Parts)
  BY Zenon DEF Handing
<1>2. DOMAIN o = 1..Len(o) /\ Len(o) \in Nat /\ \A i \in 1..Len(o) : o[i] \in Parts
  BY <1>1
<1>3. CASE s # "body"
  <2>1. Clean(o, Len(o))
    BY <1>3, Zenon DEF Handing
  <2> QED
    BY <1>2, <2>1, Zenon DEF Clean, Without
<1>4. CASE s = "body"
  <2>1. o # <<>> /\ Clean(o, Len(o) - 1) /\ HeldBack(o[Len(o)].content, b, CrlfDashBoundary)
    BY <1>4, Zenon DEF Handing
  <2>2. o[Len(o)] \in Parts
    BY <1>1, <2>1
  <2>3. PICK c \in Seq(Letters) : c = o[Len(o)].content
    BY <2>2 DEF Parts
  <2>4. CrlfDashBoundary \notin SubSeqs(c)
    BY <1>1, <2>1, <2>3, DelimiterIs, HeldClean, Zenon
  <2>5. ASSUME NEW i \in 1..Len(o) PROVE CrlfDashBoundary \notin SubSeqs(o[i].content)
    <3>1. i = Len(o) \/ i \in 1..(Len(o) - 1)
      <4>1. PICK l \in Nat : l = Len(o) /\ i \in 1..l
        BY <1>2, Zenon
      <4>2. i = l \/ i \in 1..(l - 1)
        BY <4>1
      <4> QED
        BY <4>1, <4>2, Zenon
    <3> QED
      BY <2>1, <2>3, <2>4, <3>1, Zenon DEF Clean
  <2> QED
    BY <1>2, <2>5, Zenon DEF Without
<1> QED
  BY <1>3, <1>4

(* When all has been read, the parser waits for nothing in a part. *)
LEMMA PartNotLast ==
  ASSUME NEW v \in Seq(Item), NEW k \in 0..(Len(v) - 1), NEW j, NEW p, NEW q, NEW s, NEW f, NEW o, q \in Nat,
         InPart(v, j, k, p, q, FALSE, s, f, o)
  PROVE  q # Len(Wire(v))
<1>1. PICK a \in Nat, c \in Nat, d \in Nat, w \in Nat : a = At(v, k) /\ c = ContentAt(v, k) /\ d = DelimiterAt(v, k) /\ w = Len(Wire(v))
  BY Positions, Zenon
<1>2. c <= d /\ d + 9 <= w
  BY <1>1, Positions
<1>3. c = a + 10 \/ c = a + 13
  BY <1>1, Positions
<1>4. (q = p /\ p = a + 5) \/ q < a + 8 \/ q < a + 11 \/ q < c \/ q < d + 5 \/ (p = d + 5 /\ q < p + 2)
  BY <1>1, Zenon DEF InPart, OpensPart, ReadsName, ReadsType, ReadsEmpty, ReadsContent, EndsPart
<1>5. q < w
  BY <1>2, <1>3, <1>4
<1> QED
  BY <1>1, <1>5

LEMMA MultipartInvAnyPieces == MultipartInv /\ MultipartOut => MultipartInAnyPieces
<1> SUFFICES ASSUME MultipartInv, MultipartOut, input.kind = "multipart" PROVE MultipartInAnyPieces
  BY Zenon DEF MultipartInAnyPieces
<1>1. /\ input \in Inputs /\ first \in Nat /\ parsing \in BOOLEAN /\ Handing(state, buf, rest, file, out)
      /\ Suits(input.value, first) => Parsing(input.value, state, buf, rest, parsing, file, valid, first, out)
  BY Zenon DEF MultipartInv, MultipartOut
<1>2. Without(out, CrlfDashBoundary)
  BY <1>1, HandedClean, Zenon
<1>3. PICK v \in Seq(Item) : v = input.value /\ v # <<>>
  BY <1>1, ItemsGiven, Zenon
<1>4. ASSUME ~parsing, rest = <<>> \/ state = "refused", first >= 5, Named(v), Without(v, CrlfDashBoundary)
      PROVE  valid /\ out = v
  <2>1. Suits(v, first)
    BY <1>1, <1>3, <1>4, Zenon DEF Suits
  <2>2. Parsing(v, state, buf, rest, FALSE, file, valid, first, out)
    <3>1. parsing = FALSE
      BY <1>1, <1>4
    <3> QED
      BY <1>1, <1>3, <2>1, <3>1, Zenon
  <2>3. PICK p, q :
           /\ Window(v, p, q, buf, rest)
           /\ \/ valid = FALSE /\ Seeks(p, q, FALSE, state, first, out)
              \/ valid = FALSE /\ Misled(v, p, state, first)
              \/ valid = FALSE /\ \E j : Lost(v, j, first) /\ \E k \in j..(Len(v) - 1) : InPart(v, j, k, p, q, FALSE, state, file, out)
              \/ valid = TRUE /\ \E j : Lost(v, j, first) /\ Accepted(v, j, p, state, out)
    BY <1>4, <2>2, Zenon DEF Parsing
  <2>4. ~Seeks(p, q, FALSE, state, first, out)
    BY <1>4 DEF Seeks
  <2>5. ~Misled(v, p, state, first)
    <3>1. first \notin 1..4
      BY <1>4
    <3> QED
      BY <3>1, Zenon DEF Misled
  <2>6. q \in Nat /\ (rest = <<>> => q = Len(Wire(v)))
    BY <2>3, WindowIs
  <2>7. \A j : Lost(v, j, first) => \A k \in j..(Len(v) - 1) : ~InPart(v, j, k, p, q, FALSE, state, file, out)
    <3>1. SUFFICES ASSUME NEW j, Lost(v, j, first), NEW k \in j..(Len(v) - 1), InPart(v, j, k, p, q, FALSE, state, file, out)
                   PROVE  FALSE
      BY Zenon
    <3>2. k \in 0..(Len(v) - 1)
      BY <3>1, LostIs
    <3>3. q # Len(Wire(v)) /\ state # "refused"
      BY <2>6, <3>1, <3>2, PartNotLast, PartByState, Zenon
    <3> QED
      BY <1>4, <2>6, <3>3, Zenon
  <2>8. PICK j : valid = TRUE /\ Lost(v, j, first) /\ Accepted(v, j, p, state, out)
    BY <2>3, <2>4, <2>5, <2>7, Zenon
  <2>9. j = 0 /\ out = SubSeq(v, j + 1, Len(v))
    BY <1>4, <2>8, Zenon DEF Lost, Accepted, Parted
  <2>10. SubSeq(v, 0 + 1, Len(v)) = v
    OBVIOUS
  <2> QED
    BY <2>8, <2>9, <2>10, Zenon
<1>5. ASSUME valid, Without(v, CrlfDashBoundary), first >= 5 \/ Without(v, DashBoundaryCrlf)
      PROVE  \E k \in 0..(Len(v) - 1) : out = Drop(v, k)
  <2>1. Suits(v, first)
    BY <1>1, <1>3, <1>5, Zenon DEF Suits
  <2>2. Parsing(v, state, buf, rest, parsing, file, valid, first, out)
    BY <1>1, <1>3, <2>1, Zenon
  <2>3. PICK p, j : Lost(v, j, first) /\ Accepted(v, j, p, state, out)
    BY <1>5, <2>2, Zenon DEF Parsing
  <2>4. j \in 0..(Len(v) - 1) /\ out = SubSeq(v, j + 1, Len(v))
    BY <2>3, Zenon DEF Lost, Accepted, Parted
  <2> QED
    BY <2>4, Zenon DEF Drop
<1>6. Len(DashBoundaryCrlf) = 5
  BY BoundaryLineIs, Zenon
<1> QED
  BY <1>2, <1>3, <1>4, <1>5, <1>6, Zenon DEF MultipartInAnyPieces

(* A multipart body is read into the parts that were sent, whatever pieces *)
(* the socket delivers it in; when the first piece does not hold all of    *)
(* the first boundary, the parser drops its beginning (httplib.cpp:2130)   *)
(* and only whole parts are lost; a part with a bad header is never        *)
(* accepted, and no content that is handed over has the delimiter in it.   *)
THEOREM FormatsMultipartInAnyPieces == Spec => []MultipartInAnyPieces
<1>1. Init => MultipartInv /\ MultipartOut
  BY MultipartInit
<1>2. MultipartInv /\ MultipartOut /\ [Next]_vars => MultipartInv' /\ MultipartOut'
  BY MultipartStep
<1>3. MultipartInv /\ MultipartOut => MultipartInAnyPieces
  BY MultipartInvAnyPieces
<1> QED
  BY <1>1, <1>2, <1>3, PTL DEF Spec
=============================================================================
