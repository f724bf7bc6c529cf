---------------------------- MODULE FramingProofs ----------------------------
(***************************************************************************)
(* For any messages, buffers and limits: the readers never run past what   *)
(* has been received, a reader that collects has the data of the message   *)
(* and stops where it ends, a forwarder passes on the units as they came,  *)
(* none of them asks for more than the message has or gives it up without  *)
(* a cause, and the request that goes upstream announces the length of the *)
(* body that goes with it.                                                 *)
(*                                                                         *)
(* A text is looked at through two predicates, Sits and Ends, and what has *)
(* been taken from it through a third, Copy: the lemmas of the first part  *)
(* say how they go through concatenation and SubSeq, those of the second   *)
(* where the lines and chunks of a sound message are in the stream.  The   *)
(* invariant Sure then says, for each read that may come next, at which of *)
(* these places the reader is and what it has so far.                      *)
(***************************************************************************)
EXTENDS Framing, SequenceTheorems, WellFoundedInduction, TLAPS

Types ==
    /\ op \in Ops /\ msg \in Messages
    /\ peer \in {"open", "closed", "reset"} /\ dst \in {"open", "gone"}
    /\ at \in {"head", "size", "exact", "crlf", "trailer", "fixed", "close", "done", "failed"}
    /\ pos \in Nat /\ got \in Nat /\ pos <= got /\ got <= Len(stream) /\ need \in Nat
    /\ part \in Seq(Units) /\ body \in Seq(Units) /\ out \in Seq(Units)

\* The invariant that the proof goes by: io.rs, read_client_request and its like.
IInv == Types /\ Counted

-----------------------------------------------------------------------------
(* Least and greatest numbers, parts of sequences *)

Less == {p \in Nat \X Nat : p[1] < p[2]}

\* The library's fact about <, for the relation as a set.
LEMMA LessIsWellFounded == IsWellFoundedOn(Less, Nat)
  BY NatLessThanWellFounded DEF OpToRel, Less

\* The first place of a mark is one of its places.
LEMMA MinIn ==
  ASSUME NEW S \in SUBSET Nat, S # {}
  PROVE  Min(S) \in S /\ \A n \in S : Min(S) <= n
<1>1. PICK m \in S : \A n \in S : <<n, m>> \notin Less
  BY LessIsWellFounded, WFMin
<1>2. ASSUME NEW n \in S PROVE m <= n
  <2>1. <<n, m>> \in Nat \X Nat
    OBVIOUS
  <2>2. ~ (n < m)
    BY <1>1, <2>1 DEF Less
  <2> QED BY <2>2
<1> QED BY <1>1, <1>2 DEF Min

\* The lesser and the greater of two numbers.
LEMMA MinMaxOfTwo ==
  ASSUME NEW a \in Int, NEW b \in Int
  PROVE  /\ Min({a, b}) = IF a <= b THEN a ELSE b
         /\ Max({a, b}) = IF a >= b THEN a ELSE b
<1>1. CASE a <= b
  <2>1. a \in {a, b} /\ \A y \in {a, b} : a <= y
    BY <1>1
  <2>2. \A x \in {a, b} : (\A y \in {a, b} : x <= y) => x = a
    BY <1>1
  <2>3. b \in {a, b} /\ \A y \in {a, b} : b >= y
    BY <1>1
  <2>4. \A x \in {a, b} : (\A y \in {a, b} : x >= y) => x = b
    BY <1>1
  <2> QED BY <1>1, <2>1, <2>2, <2>3, <2>4 DEF Min, Max
<1>2. CASE b < a
  <2>1. b \in {a, b} /\ \A y \in {a, b} : b <= y
    BY <1>2
  <2>2. \A x \in {a, b} : (\A y \in {a, b} : x <= y) => x = b
    BY <1>2
  <2>3. a \in {a, b} /\ \A y \in {a, b} : a >= y
    BY <1>2
  <2>4. \A x \in {a, b} : (\A y \in {a, b} : x >= y) => x = a
    BY <1>2
  <2> QED BY <1>2, <2>1, <2>2, <2>3, <2>4 DEF Min, Max
<1> QED BY <1>1, <1>2

\* A part of a sequence is one, of the length its bounds give.
LEMMA PartOf ==
  ASSUME NEW s \in Seq(Units), NEW m \in Nat, NEW n \in Nat, m <= n, n <= Len(s)
  PROVE  /\ SubSeq(s, m + 1, n) \in Seq(Units) /\ Len(SubSeq(s, m + 1, n)) = n - m
         /\ \A k \in 1 .. n - m : SubSeq(s, m + 1, n)[k] = s[m + k]
<1> DEFINE t == SubSeq(s, m + 1, n)
<1>1. \A i \in m + 1 .. n : s[i] \in Units
  BY ElementOfSeq
<1>2. /\ t \in Seq(Units)
      /\ Len(t) = IF m + 1 <= n THEN n - (m + 1) + 1 ELSE 0
      /\ \A k \in 1 .. n - (m + 1) + 1 : t[k] = s[(m + 1) + k - 1]
  BY <1>1, SubSeqProperties
<1> HIDE DEF t
<1>3. Len(t) = n - m
  BY <1>2
<1>4. ASSUME NEW k \in 1 .. n - m PROVE t[k] = s[m + k]
  <2>1. k \in 1 .. n - (m + 1) + 1 /\ (m + 1) + k - 1 = m + k
    OBVIOUS
  <2> QED BY <1>2, <2>1
<1> QED BY <1>2, <1>3, <1>4 DEF t

\* What a text has behind e units begins with s.
Copy(s, text, e) == \A k \in 1 .. Len(s) : s[k] = text[e + k]

\* Two copies in a row are one.
LEMMA Joined ==
  ASSUME NEW text, NEW a \in Seq(Units), NEW u \in Seq(Units), NEW e \in Nat,
         Copy(a, text, e), Copy(u, text, e + Len(a))
  PROVE  a \o u \in Seq(Units) /\ Len(a \o u) = Len(a) + Len(u) /\ Copy(a \o u, text, e)
<1> DEFINE A == Len(a)
           U == Len(u)
           z == a \o u
<1>1. A \in Nat /\ U \in Nat
  BY LenProperties
<1>2. z \in Seq(Units) /\ Len(z) = A + U /\ \A i \in 1 .. A + U : z[i] = IF i <= A THEN a[i] ELSE u[i - A]
  BY ConcatProperties
<1>3. (\A k \in 1 .. A : a[k] = text[e + k]) /\ (\A k \in 1 .. U : u[k] = text[e + A + k])
  BY DEF Copy
<1> HIDE DEF A, U, z
<1>4. ASSUME NEW k \in 1 .. A + U PROVE z[k] = text[e + k]
  <2>1. CASE k <= A
    <3>1. k \in 1 .. A
      BY <1>1, <2>1
    <3> QED BY <1>2, <1>3, <2>1, <3>1
  <2>2. CASE ~(k <= A)
    <3> DEFINE j == k - A
    <3>1. j \in 1 .. U /\ e + A + j = e + k
      BY <1>1, <2>2
    <3>2. z[k] = u[j]
      BY <1>2, <2>2
    <3> HIDE DEF j
    <3> QED BY <1>3, <3>1, <3>2
  <2> QED BY <2>1, <2>2
<1>5. Copy(z, text, e)
  BY <1>2, <1>4 DEF Copy
<1> QED BY <1>2, <1>5 DEF A, U, z

\* Two sequences of one length that are copies of one place are equal.
LEMMA SameCopy ==
  ASSUME NEW text \in Seq(Units), NEW s \in Seq(Units), Len(s) = Len(text), Copy(s, text, 0)
  PROVE  s = text
<1>1. \A k \in 1 .. Len(s) : s[k] = text[k]
  BY LenProperties DEF Copy
<1> QED BY <1>1, SeqEqual

\* Nothing is a copy of nothing, a part is a copy of its place.
LEMMA Copies ==
  /\ \A text, e : Copy(<<>>, text, e)
  /\ \A text \in Seq(Units), m \in Nat, n \in Nat :
        m <= n /\ n <= Len(text) =>
            /\ SubSeq(text, m + 1, n) \in Seq(Units) /\ Len(SubSeq(text, m + 1, n)) = n - m
            /\ Copy(SubSeq(text, m + 1, n), text, m)
<1>1. \A text, e : Copy(<<>>, text, e)
  BY DEF Copy
<1>2. ASSUME NEW text \in Seq(Units), NEW m \in Nat, NEW n \in Nat, m <= n, n <= Len(text)
      PROVE  /\ SubSeq(text, m + 1, n) \in Seq(Units) /\ Len(SubSeq(text, m + 1, n)) = n - m
             /\ Copy(SubSeq(text, m + 1, n), text, m)
  <2> DEFINE t == SubSeq(text, m + 1, n)
  <2>1. t \in Seq(Units) /\ Len(t) = n - m /\ \A k \in 1 .. n - m : t[k] = text[m + k]
    BY <1>2, PartOf
  <2> HIDE DEF t
  <2>2. Copy(t, text, m)
    BY <2>1 DEF Copy
  <2> QED BY <2>1, <2>2 DEF t
<1> QED BY <1>1, <1>2

\* The stream, leftover and the marks are sequences of units.
LEMMA Texts ==
  ASSUME Types
  PROVE  /\ stream \in Seq(Units)
         /\ leftover \in Seq(Units) /\ Len(leftover) = got - pos
         /\ Mark \in Seq(Units) /\ Len(Mark) \in Nat \ {0}
<1>1. msg \in Message
  BY FramingAssumption DEF Types
<1>2. stream \in Seq(Units)
  BY <1>1, ConcatProperties DEF stream, Message
<1>3. leftover \in Seq(Units) /\ Len(leftover) = got - pos
  BY <1>2, PartOf DEF leftover, Types
<1>4. CRLF \in Seq(Units) /\ Len(CRLF) = 2
  BY DEF CRLF, CR, LF, Units
<1>5. CRLF \o CRLF \in Seq(Units) /\ Len(CRLF \o CRLF) = 4
  <2>1. /\ CRLF \o CRLF \in Seq(Units)
        /\ Len(CRLF \o CRLF) = Len(CRLF) + Len(CRLF)
    BY <1>4, ConcatProperties
  <2> QED BY <1>4, <2>1
<1> QED BY <1>2, <1>3, <1>4, <1>5 DEF Mark

\* A line that is found is part of what has been received.
LEMMA LineFound ==
  ASSUME Types, Found # {}
  PROVE  Past \in Nat /\ pos <= Past /\ Past <= got /\ Line \in Seq(Units)
<1>1. Found \subseteq 0 .. Len(leftover) - Len(Mark)
  BY DEF Found
<1>2. Min(Found) \in Found
  BY <1>1, Texts, MinIn
<1>3. Min(Found) \in Nat /\ Min(Found) + Len(Mark) <= got - pos
  <2>1. Min(Found) \in 0 .. Len(leftover) - Len(Mark)
    BY <1>1, <1>2
  <2>2. Len(leftover) = got - pos /\ Len(Mark) \in Nat /\ pos \in Nat /\ got \in Nat
    BY Texts DEF Types
  <2> HIDE DEF Found
  <2> QED BY <2>1, <2>2
<1>4. Line \in Seq(Units)
  <2>1. SubSeq(leftover, 0 + 1, Min(Found)) \in Seq(Units)
    BY <1>3, Texts, PartOf DEF Types
  <2> QED BY <2>1 DEF Line
<1> QED BY <1>3, <1>4, Texts, SMTT(30) DEF Past, Types

-----------------------------------------------------------------------------
(* Marks *)

\* A mark is in a text: its units are, one by one.
LEMMA SitsMeans ==
  ASSUME NEW text \in Seq(Units), NEW i \in Nat, NEW mark \in Seq(Units)
  PROVE  Sits(text, i, mark)
           <=> /\ i + Len(mark) <= Len(text)
               /\ \A k \in 1 .. Len(mark) : text[i + k] = mark[k]
<1> DEFINE there == SubSeq(text, i + 1, i + Len(mark))
<1>0. Len(mark) \in Nat /\ Len(text) \in Nat
  BY LenProperties
<1> SUFFICES ASSUME i + Len(mark) <= Len(text)
             PROVE  there = mark <=> \A k \in 1 .. Len(mark) : text[i + k] = mark[k]
  BY <1>0 DEF Sits
<1>1. \A j \in i + 1 .. i + Len(mark) : text[j] \in Units
  BY <1>0, ElementOfSeq
<1>2. /\ there \in Seq(Units)
      /\ Len(there) = IF i + 1 <= i + Len(mark) THEN (i + Len(mark)) - (i + 1) + 1 ELSE 0
      /\ \A j \in 1 .. (i + Len(mark)) - (i + 1) + 1 : there[j] = text[(i + 1) + j - 1]
  BY <1>0, <1>1, SubSeqProperties
<1> HIDE DEF there
<1>3. Len(there) = Len(mark) /\ \A k \in 1 .. Len(mark) : there[k] = text[i + k]
  BY <1>0, <1>2
<1>4. ASSUME \A k \in 1 .. Len(mark) : text[i + k] = mark[k] PROVE there = mark
  <2>1. \A k \in 1 .. Len(there) : there[k] = mark[k]
    BY <1>3, <1>4
  <2> QED BY <1>2, <1>3, <2>1, SeqEqual
<1> QED BY <1>3, <1>4

\* What marks are made of.
LEMMA Marks ==
  /\ CRLF \in Seq(Units) /\ Len(CRLF) = 2 /\ CRLF[1] = CR /\ CRLF[2] = LF
  /\ CRLF \o CRLF \in Seq(Units) /\ Len(CRLF \o CRLF) = 4
  /\ (CRLF \o CRLF)[1] = CR /\ (CRLF \o CRLF)[2] = LF
  /\ (CRLF \o CRLF)[3] = CR /\ (CRLF \o CRLF)[4] = LF
  /\ CR # LF
<1>1. CRLF \in Seq(Units) /\ Len(CRLF) = 2 /\ CRLF[1] = CR /\ CRLF[2] = LF
  BY DEF CRLF, CR, LF, Units
<1>2. /\ CRLF \o CRLF \in Seq(Units)
      /\ Len(CRLF \o CRLF) = Len(CRLF) + Len(CRLF)
      /\ \A i \in 1 .. Len(CRLF) + Len(CRLF) :
            (CRLF \o CRLF)[i] = IF i <= Len(CRLF) THEN CRLF[i] ELSE CRLF[i - Len(CRLF)]
  BY <1>1, ConcatProperties
<1>3. CR # LF
  BY DEF CR, LF
<1> QED BY <1>1, <1>2, <1>3

\* A line end, unit by unit.
LEMMA LineEnd ==
  ASSUME NEW text \in Seq(Units), NEW i \in Nat
  PROVE  Sits(text, i, CRLF) <=> i + 2 <= Len(text) /\ text[i + 1] = CR /\ text[i + 2] = LF
<1>1. Sits(text, i, CRLF)
        <=> i + Len(CRLF) <= Len(text) /\ \A k \in 1 .. Len(CRLF) : text[i + k] = CRLF[k]
  BY SitsMeans, Marks
<1>2. Len(CRLF) = 2 /\ CRLF[1] = CR /\ CRLF[2] = LF
  BY Marks
<1> HIDE DEF CRLF
<1>3. 1 \in 1 .. Len(CRLF) /\ 2 \in 1 .. Len(CRLF) /\ \A k \in 1 .. Len(CRLF) : k = 1 \/ k = 2
  BY <1>2
<1>4. ASSUME \A k \in 1 .. Len(CRLF) : text[i + k] = CRLF[k]
      PROVE  text[i + 1] = CRLF[1] /\ text[i + 2] = CRLF[2]
  BY <1>3, <1>4, Zenon
<1>5. ASSUME text[i + 1] = CRLF[1], text[i + 2] = CRLF[2], NEW k \in 1 .. Len(CRLF)
      PROVE  text[i + k] = CRLF[k]
  BY <1>3, <1>5
<1> QED BY <1>1, <1>2, <1>4, <1>5

\* An empty line behind another one is two line ends in a row.
LEMMA TwoLineEnds ==
  ASSUME NEW text \in Seq(Units), NEW i \in Nat
  PROVE  Sits(text, i, CRLF \o CRLF) <=> Sits(text, i, CRLF) /\ Sits(text, i + 2, CRLF)
<1> DEFINE two == CRLF \o CRLF
           n   == i + 2
           L   == Len(text)
<1>0. L \in Nat
  BY LenProperties
<1>1. Sits(text, i, two)
        <=> i + Len(two) <= L /\ \A k \in 1 .. Len(two) : text[i + k] = two[k]
  BY SitsMeans, Marks
<1>2. Len(two) = 4 /\ two[1] = CR /\ two[2] = LF /\ two[3] = CR /\ two[4] = LF
  BY Marks
<1>3. Sits(text, i, CRLF) <=> i + 2 <= L /\ text[i + 1] = CR /\ text[i + 2] = LF
  BY LineEnd
<1>4. n \in Nat
  OBVIOUS
<1>5. Sits(text, n, CRLF) <=> n + 2 <= L /\ text[n + 1] = CR /\ text[n + 2] = LF
  BY <1>4, LineEnd
<1>6. n + 1 = i + 3 /\ n + 2 = i + 4
  OBVIOUS
<1> HIDE DEF two, L
<1>7. /\ 1 \in 1 .. Len(two) /\ 2 \in 1 .. Len(two) /\ 3 \in 1 .. Len(two) /\ 4 \in 1 .. Len(two)
      /\ \A k \in 1 .. Len(two) : k = 1 \/ k = 2 \/ k = 3 \/ k = 4
  BY <1>2
<1>8. ASSUME \A k \in 1 .. Len(two) : text[i + k] = two[k]
      PROVE  text[i + 1] = two[1] /\ text[i + 2] = two[2] /\ text[i + 3] = two[3] /\ text[i + 4] = two[4]
  BY <1>7, <1>8, Zenon
<1>9. ASSUME text[i + 1] = two[1], text[i + 2] = two[2], text[i + 3] = two[3], text[i + 4] = two[4],
             NEW k \in 1 .. Len(two)
      PROVE  text[i + k] = two[k]
  BY <1>7, <1>9
<1>10. Sits(text, n, CRLF) <=> i + 4 <= L /\ text[i + 3] = CR /\ text[i + 4] = LF
  BY <1>5, <1>6
<1> HIDE DEF n
<1>11. Sits(text, i, two) <=> Sits(text, i, CRLF) /\ Sits(text, n, CRLF)
  BY <1>0, <1>1, <1>2, <1>3, <1>8, <1>9, <1>10
<1> QED BY <1>11 DEF two, n

\* The units of three texts in a row.
LEMMA InARow ==
  ASSUME NEW h \in Seq(Units), NEW b \in Seq(Units), NEW a \in Seq(Units)
  PROVE  /\ h \o b \o a \in Seq(Units)
         /\ Len(h \o b \o a) = Len(h) + Len(b) + Len(a)
         /\ \A k \in 1 .. Len(h) : (h \o b \o a)[k] = h[k]
         /\ \A k \in 1 .. Len(b) : (h \o b \o a)[Len(h) + k] = b[k]
<1> DEFINE H == Len(h)
           B == Len(b)
           A == Len(a)
           hb == h \o b
<1>1. H \in Nat /\ B \in Nat /\ A \in Nat
  BY LenProperties
<1>2. /\ hb \in Seq(Units)
      /\ Len(hb) = H + B
      /\ \A i \in 1 .. H + B : hb[i] = IF i <= H THEN h[i] ELSE b[i - H]
  BY ConcatProperties
<1>3. \A hh \in Seq(Units) :
        /\ hh \o a \in Seq(Units)
        /\ Len(hh \o a) = Len(hh) + A
        /\ \A i \in 1 .. Len(hh) + A : (hh \o a)[i] = IF i <= Len(hh) THEN hh[i] ELSE a[i - Len(hh)]
  BY ConcatProperties
<1> SUFFICES /\ hb \o a \in Seq(Units)
             /\ Len(hb \o a) = H + B + A
             /\ \A k \in 1 .. H : (hb \o a)[k] = h[k]
             /\ \A k \in 1 .. B : (hb \o a)[H + k] = b[k]
  OBVIOUS
<1> HIDE DEF hb, H, B, A
<1>4. /\ hb \o a \in Seq(Units)
      /\ Len(hb \o a) = (H + B) + A
      /\ \A i \in 1 .. (H + B) + A : (hb \o a)[i] = IF i <= H + B THEN hb[i] ELSE a[i - (H + B)]
  BY <1>2, <1>3
<1>5. ASSUME NEW k \in 1 .. H PROVE (hb \o a)[k] = h[k]
  BY <1>1, <1>2, <1>4
<1>6. ASSUME NEW k \in 1 .. B PROVE (hb \o a)[H + k] = b[k]
  <2> DEFINE i == H + k
  <2>1. i \in 1 .. H + B /\ i \in 1 .. (H + B) + A /\ i <= H + B /\ ~(i <= H) /\ i - H = k
    BY <1>1
  <2> HIDE DEF i
  <2>2. hb[i] = b[i - H] /\ (hb \o a)[i] = hb[i]
    BY <1>2, <1>4, <2>1
  <2> QED BY <2>1, <2>2 DEF i
<1> QED BY <1>1, <1>4, <1>5, <1>6

\* A mark in the head is at the same place in the stream.
LEMMA InHead ==
  ASSUME NEW h \in Seq(Units), NEW b \in Seq(Units), NEW a \in Seq(Units),
         NEW i \in Nat, NEW mark \in Seq(Units), i + Len(mark) <= Len(h)
  PROVE  Sits(h \o b \o a, i, mark) <=> Sits(h, i, mark)
<1> DEFINE all == h \o b \o a
           H == Len(h)
           M == Len(mark)
<1>0. M \in Nat /\ H \in Nat /\ Len(b) \in Nat /\ Len(a) \in Nat /\ i + M <= H
  BY LenProperties
<1>1. all \in Seq(Units) /\ Len(all) = H + Len(b) + Len(a) /\ \A k \in 1 .. H : all[k] = h[k]
  BY InARow
<1>2. Sits(h, i, mark) <=> i + M <= H /\ \A k \in 1 .. M : h[i + k] = mark[k]
  BY SitsMeans
<1> HIDE DEF all
<1>3. Sits(all, i, mark) <=> i + M <= Len(all) /\ \A k \in 1 .. M : all[i + k] = mark[k]
  BY <1>1, SitsMeans
<1> HIDE DEF H, M
<1>4. \A k \in 1 .. M : i + k \in 1 .. H
  BY <1>0
<1>5. \A k \in 1 .. M : all[i + k] = h[i + k]
  BY <1>1, <1>4
<1>6. Sits(all, i, mark) <=> Sits(h, i, mark)
  BY <1>0, <1>1, <1>2, <1>3, <1>5
<1> QED BY <1>6 DEF all

\* A mark in the body is behind the head in the stream.
LEMMA InBody ==
  ASSUME NEW h \in Seq(Units), NEW b \in Seq(Units), NEW a \in Seq(Units),
         NEW i \in Nat, NEW mark \in Seq(Units), i + Len(mark) <= Len(b)
  PROVE  Sits(h \o b \o a, Len(h) + i, mark) <=> Sits(b, i, mark)
<1> DEFINE all == h \o b \o a
           H == Len(h)
           B == Len(b)
           M == Len(mark)
           n == H + i
<1>0. M \in Nat /\ H \in Nat /\ B \in Nat /\ Len(a) \in Nat /\ i + M <= B
  BY LenProperties
<1>1. all \in Seq(Units) /\ Len(all) = H + B + Len(a) /\ \A k \in 1 .. B : all[H + k] = b[k]
  BY InARow
<1>2. Sits(b, i, mark) <=> i + M <= B /\ \A k \in 1 .. M : b[i + k] = mark[k]
  BY SitsMeans
<1> HIDE DEF all, H, B, M
<1>3. n \in Nat /\ n + M <= Len(all)
  BY <1>0, <1>1, SMTT(30)
<1>4. \A k \in 1 .. M : i + k \in 1 .. B /\ n + k = H + (i + k)
  BY <1>0
<1>5. \A k \in 1 .. M : all[n + k] = b[i + k]
  BY <1>1, <1>4
<1> HIDE DEF n
<1>6. Sits(all, n, mark) <=> n + M <= Len(all) /\ \A k \in 1 .. M : all[n + k] = mark[k]
  BY <1>1, <1>3, SitsMeans DEF M
<1>7. Sits(all, n, mark) <=> Sits(b, i, mark)
  BY <1>0, <1>2, <1>3, <1>5, <1>6
<1> QED BY <1>7 DEF all, n, H

\* Where a line of the body ends, it ends in the stream.
LEMMA EndsInBody ==
  ASSUME NEW h \in Seq(Units), NEW b \in Seq(Units), NEW a \in Seq(Units),
         NEW from \in Nat, NEW i \in Nat, NEW mark \in Seq(Units),
         Ends(b, from, i, mark)
  PROVE  Ends(h \o b \o a, Len(h) + from, Len(h) + i, mark)
<1> DEFINE all == h \o b \o a
           H == Len(h)
           M == Len(mark)
<1>0. M \in Nat /\ H \in Nat /\ Len(b) \in Nat
  BY LenProperties
<1>1. /\ from <= i /\ i + M <= Len(b) /\ Sits(b, i, mark)
      /\ \A j \in from .. i - 1 : ~Sits(b, j, mark)
  BY DEF Ends, Sits
<1>2. Sits(all, H + i, mark)
  BY <1>1, InBody
<1>3. \A k \in Nat : k + M <= Len(b) => (Sits(all, H + k, mark) <=> Sits(b, k, mark))
  BY InBody
<1> HIDE DEF H, M, all
<1>4. ASSUME NEW j \in H + from .. (H + i) - 1 PROVE ~Sits(all, j, mark)
  <2> DEFINE k == j - H
  <2>1. k \in Nat /\ k \in from .. i - 1 /\ k + M <= Len(b) /\ H + k = j
    BY <1>0, <1>1
  <2> HIDE DEF k
  <2> QED BY <1>1, <1>3, <2>1
<1>5. Ends(all, H + from, H + i, mark)
  BY <1>0, <1>1, <1>2, <1>4 DEF Ends
<1> QED BY <1>5 DEF all, H

-----------------------------------------------------------------------------
(* What the readers find *)

\* The marks in a part of a text are those of the text that the part has in full.
LEMMA InPart ==
  ASSUME NEW text \in Seq(Units), NEW p \in Nat, NEW g \in Nat, p <= g, g <= Len(text),
         NEW i \in Nat, NEW mark \in Seq(Units)
  PROVE  Sits(SubSeq(text, p + 1, g), i, mark) <=> p + i + Len(mark) <= g /\ Sits(text, p + i, mark)
<1> DEFINE M  == Len(mark)
           n  == p + i
           pt == SubSeq(text, p + 1, g)
<1>1. pt \in Seq(Units) /\ Len(pt) = g - p /\ M \in Nat /\ Len(text) \in Nat /\ n \in Nat
  BY PartOf, LenProperties
<1>2. \A k \in 1 .. g - p : pt[k] = text[p + k]
  BY PartOf
<1> HIDE DEF pt, M
<1>3. Sits(pt, i, mark) <=> i + M <= g - p /\ \A k \in 1 .. M : pt[i + k] = mark[k]
  BY <1>1, SitsMeans DEF M
<1> HIDE DEF n
<1>4. Sits(text, n, mark) <=> n + M <= Len(text) /\ \A k \in 1 .. M : text[n + k] = mark[k]
  BY <1>1, SitsMeans DEF M
<1>5. ASSUME i + M <= g - p
      PROVE  \A k \in 1 .. M : pt[i + k] = text[n + k]
  <2> TAKE k \in 1 .. M
  <2> DEFINE j == i + k
  <2>1. j \in 1 .. g - p /\ p + j = n + k
    BY <1>1, <1>5 DEF n
  <2> HIDE DEF j
  <2>2. pt[j] = text[p + j]
    BY <1>2, <2>1
  <2> QED BY <2>1, <2>2 DEF j
<1>6. i + M <= g - p <=> n + M <= g
  BY <1>1 DEF n
<1>7. ASSUME i + M <= g - p
      PROVE  (\A k \in 1 .. M : pt[i + k] = mark[k]) <=> (\A k \in 1 .. M : text[n + k] = mark[k])
  BY <1>5, <1>7, Zenon
<1>8. n + M <= g => n + M <= Len(text)
  BY <1>1
<1>9. Sits(pt, i, mark) <=> n + M <= g /\ Sits(text, n, mark)
  BY <1>3, <1>4, <1>6, <1>7, <1>8, Zenon
<1> QED BY <1>9 DEF n, M, pt

\* The places of the mark in leftover are those in the stream, as far as it has
\* been received.
LEMMA FoundMeans ==
  ASSUME Types, NEW i \in Nat
  PROVE  i \in Found <=> pos + i + Len(Mark) <= got /\ Sits(stream, pos + i, Mark)
<1>1. /\ stream \in Seq(Units) /\ Len(leftover) = got - pos /\ Mark \in Seq(Units) /\ Len(Mark) \in Nat
      /\ pos \in Nat /\ got \in Nat /\ pos <= got /\ got <= Len(stream)
  BY Texts DEF Types
<1>2. i \in Found <=> Sits(leftover, i, Mark)
  BY <1>1 DEF Found, Sits
<1>3. Sits(leftover, i, Mark) <=> pos + i + Len(Mark) <= got /\ Sits(stream, pos + i, Mark)
  BY <1>1, InPart DEF leftover
<1> QED BY <1>2, <1>3

\* The front of a part is a part.
LEMMA FrontOf ==
  ASSUME NEW text \in Seq(Units), NEW i \in 1 .. Len(text), NEW j \in 1 .. Len(text),
         NEW n \in 1 .. j - i + 1
  PROVE  SubSeq(SubSeq(text, i, j), 1, n) = SubSeq(text, i, i + n - 1)
<1>1. 1 \in 1 .. j - i + 1 /\ i + 1 - 1 = i
  BY LenProperties
<1>2. \A m \in 1 .. j - i + 1 :
        SubSeq(SubSeq(text, i, j), m, n) = SubSeq(text, i + m - 1, i + n - 1)
  BY SubSeqOfSubSeq
<1> QED BY <1>1, <1>2

\* A reader finds the line that begins where it is once it has been received.
LEMMA LineIs ==
  ASSUME Types, NEW n \in Nat, Ends(stream, pos, n, Mark)
  PROVE  /\ Found # {} <=> n + Len(Mark) <= got
         /\ Found # {} => Past = n + Len(Mark) /\ Line = SubSeq(stream, pos + 1, n)
<1> DEFINE M == Len(Mark)
           i == n - pos
<1>1. pos \in Nat /\ got \in Nat /\ M \in Nat
  BY Texts DEF Types
<1>2. pos <= n /\ Sits(stream, n, Mark) /\ \A j \in pos .. n - 1 : ~Sits(stream, j, Mark)
  BY DEF Ends
<1>3. i \in Nat /\ pos + i = n
  BY <1>1, <1>2
<1>4. Found \subseteq Nat
  BY DEF Found
<1>5. \A j \in Nat : j \in Found <=> pos + j + M <= got /\ Sits(stream, pos + j, Mark)
  BY FoundMeans
<1> HIDE DEF M, i, Found
<1>6. i \in Found <=> n + M <= got
  BY <1>2, <1>3, <1>5
<1>7. ASSUME NEW j \in Found PROVE i <= j
  <2>1. j \in Nat /\ Sits(stream, pos + j, Mark)
    BY <1>4, <1>5
  <2>2. CASE pos + j < n
    <3>1. pos + j \in pos .. n - 1
      BY <1>1, <2>1, <2>2
    <3> QED BY <1>2, <2>1, <3>1
  <2> QED BY <1>1, <1>3, <2>1, <2>2
<1>8. Found # {} <=> i \in Found
  <2>1. ASSUME NEW j \in Found PROVE i \in Found
    <3>1. j \in Nat /\ i <= j /\ pos + j + M <= got
      BY <1>4, <1>5, <1>7
    <3> QED BY <1>1, <1>3, <1>6, <3>1
  <2> QED BY <2>1
<1>9. ASSUME Found # {} PROVE Min(Found) = i
  <2>1. i \in Found /\ Min(Found) \in Found /\ \A j \in Found : Min(Found) <= j
    BY <1>4, <1>8, <1>9, MinIn
  <2>2. Min(Found) <= i /\ i <= Min(Found) /\ Min(Found) \in Nat
    BY <1>4, <1>7, <2>1
  <2> QED BY <1>3, <2>2
<1>10. ASSUME Found # {} PROVE Past = n + M
  BY <1>1, <1>3, <1>9, <1>10 DEF Past, M
<1>11. ASSUME Found # {} PROVE Line = SubSeq(stream, pos + 1, n)
  <2>1. Line = SubSeq(SubSeq(stream, pos + 1, got), 1, i)
    BY <1>9, <1>11 DEF Line, leftover
  <2>2. n <= got /\ got <= Len(stream) /\ stream \in Seq(Units) /\ Len(stream) \in Nat
    BY <1>1, <1>3, <1>6, <1>8, <1>11, Texts, LenProperties DEF Types
  <2>3. CASE i = 0
    <3>1. SubSeq(SubSeq(stream, pos + 1, got), 1, i) = <<>>
      BY <1>3, <2>3, SubSeqEmpty
    <3>2. SubSeq(stream, pos + 1, n) = <<>>
      <4>1. pos + 1 \in Int /\ n \in Int /\ n < pos + 1
        BY <1>1, <1>3, <2>3
      <4> QED BY <4>1, SubSeqEmpty
    <3> QED BY <2>1, <3>1, <3>2
  <2>4. CASE i # 0
    <3> HIDE DEF stream
    <3>1. /\ pos + 1 \in 1 .. Len(stream) /\ got \in 1 .. Len(stream)
          /\ 1 \in 1 .. got - (pos + 1) + 1 /\ i \in 1 .. got - (pos + 1) + 1
      BY <1>1, <1>3, <2>2, <2>4
    <3>2. SubSeq(SubSeq(stream, pos + 1, got), 1, i) = SubSeq(stream, pos + 1, (pos + 1) + i - 1)
      BY <2>2, <3>1, FrontOf
    <3>3. (pos + 1) + i - 1 = n
      BY <1>1, <1>3
    <3> QED BY <2>1, <3>2, <3>3
  <2> QED BY <2>3, <2>4
<1> QED BY <1>6, <1>8, <1>10, <1>11 DEF M

-----------------------------------------------------------------------------
(* Sound messages *)

HeadEnd == Len(msg.head)

\* Where the data of a chunk begins in the stream.
Data(c) == HeadEnd + c.from + c.line + 2

\* A position at the beginning of a line of the trailer.
InTrailer(p) ==
    /\ p + 2 <= FrameEnd /\ Sits(stream, FrameEnd - 2, CRLF)
    /\ Sits(stream, p, CRLF) => p = FrameEnd - 2
    /\ p # FrameEnd - 2 => p + 4 <= FrameEnd /\ Sits(stream, FrameEnd - 4, CRLF)
    /\ \A i \in p .. FrameEnd - 5 : ~Sits(stream, i, CRLF \o CRLF)

\* The sequences of a message, and their lengths.
LEMMA Parts ==
  ASSUME Types
  PROVE  /\ msg.head \in Seq(Units) /\ msg.body \in Seq(Units) /\ msg.after \in Seq(Units)
         /\ msg.data \in Seq(Units) /\ stream \in Seq(Units)
         /\ HeadEnd \in Nat /\ Len(msg.body) \in Nat /\ Len(msg.after) \in Nat /\ Len(msg.data) \in Nat
         /\ FrameEnd \in Nat /\ HeadEnd <= FrameEnd /\ FrameEnd <= Len(stream)
         /\ framing # "none" => FrameEnd = HeadEnd + Len(msg.body)
         /\ framing = "none" => FrameEnd = HeadEnd
         /\ \A k \in 1 .. Len(msg.body) : stream[HeadEnd + k] = msg.body[k]
<1>1. msg \in Message
  BY FramingAssumption DEF Types
<1>2. /\ msg.head \in Seq(Units) /\ msg.body \in Seq(Units) /\ msg.after \in Seq(Units)
      /\ msg.data \in Seq(Units)
  BY <1>1 DEF Message
<1>3. HeadEnd \in Nat /\ Len(msg.body) \in Nat /\ Len(msg.after) \in Nat /\ Len(msg.data) \in Nat
  BY <1>2, LenProperties DEF HeadEnd
<1>4. /\ stream \in Seq(Units) /\ Len(stream) = HeadEnd + Len(msg.body) + Len(msg.after)
      /\ \A k \in 1 .. Len(msg.body) : stream[HeadEnd + k] = msg.body[k]
  <2> DEFINE h == msg.head
             b == msg.body
             a == msg.after
  <2> HIDE DEF h, b, a
  <2>1. h \in Seq(Units) /\ b \in Seq(Units) /\ a \in Seq(Units)
    BY <1>2 DEF h, b, a
  <2>2. /\ h \o b \o a \in Seq(Units)
        /\ Len(h \o b \o a) = Len(h) + Len(b) + Len(a)
        /\ \A k \in 1 .. Len(b) : (h \o b \o a)[Len(h) + k] = b[k]
    BY <2>1, InARow
  <2>3. stream = h \o b \o a /\ HeadEnd = Len(h)
    BY DEF stream, HeadEnd, h, b, a
  <2> QED BY <2>2, <2>3, Zenon DEF b, a
<1>5. Len(stream) = HeadEnd + Len(msg.body) + Len(msg.after)
  BY <1>4, Zenon
<1>6. CASE framing = "none"
  <2>1. FrameEnd = Len(msg.head) + 0
    BY <1>6 DEF FrameEnd
  <2>2. FrameEnd = HeadEnd
    BY <1>3, <2>1 DEF HeadEnd
  <2>3. HeadEnd <= FrameEnd /\ FrameEnd <= Len(stream) /\ FrameEnd \in Nat
    <3> DEFINE H == HeadEnd
               B == Len(msg.body)
               A == Len(msg.after)
               L == Len(stream)
               F == FrameEnd
    <3>1. H \in Nat /\ B \in Nat /\ A \in Nat /\ L = H + B + A /\ F = H
      BY <1>3, <1>5, <2>2
    <3> HIDE DEF H, B, A, L, F
    <3>2. H <= F /\ F <= L /\ F \in Nat
      BY <3>1
    <3> QED BY <3>2 DEF H, F, L
  <2> QED BY <1>2, <1>3, <1>4, <1>6, <2>2, <2>3, Zenon
<1>7. CASE framing # "none"
  <2>1. FrameEnd = HeadEnd + Len(msg.body)
    BY <1>7 DEF FrameEnd, HeadEnd
  <2>2. HeadEnd <= FrameEnd /\ FrameEnd <= Len(stream) /\ FrameEnd \in Nat
    <3> DEFINE H == HeadEnd
               B == Len(msg.body)
               A == Len(msg.after)
               L == Len(stream)
               F == FrameEnd
    <3>1. H \in Nat /\ B \in Nat /\ A \in Nat /\ L = H + B + A /\ F = H + B
      BY <1>3, <1>5, <2>1
    <3> HIDE DEF H, B, A, L, F
    <3>2. H <= F /\ F <= L /\ F \in Nat
      BY <3>1
    <3> QED BY <3>2 DEF H, F, L
  <2> QED BY <1>2, <1>3, <1>4, <1>7, <2>1, <2>2, Zenon
<1> QED BY <1>6, <1>7

\* The head ends with the first empty line of the stream.
LEMMA HeadIs ==
  ASSUME Types, msg.sound
  PROVE  HeadEnd >= 4 /\ Ends(stream, 0, HeadEnd - 4, CRLF \o CRLF)
<1> DEFINE two == CRLF \o CRLF
           n   == HeadEnd - 4
<1>1. HeadEnd >= 4 /\ Ends(msg.head, 0, n, two)
  BY FramingAssumption DEF Types, Sound, HeadEnd
<1>2. two \in Seq(Units) /\ Len(two) = 4
  BY Marks
<1>3. n \in Nat /\ HeadEnd \in Nat /\ n + 4 = HeadEnd
  BY <1>1, Parts
<1> HIDE DEF two, n
<1>4. Sits(msg.head, n, two) /\ \A j \in 0 .. n - 1 : ~Sits(msg.head, j, two)
  BY <1>1 DEF Ends
<1>5. \A j \in Nat : j + 4 <= HeadEnd => (Sits(stream, j, two) <=> Sits(msg.head, j, two))
  BY <1>2, Parts, InHead DEF stream, HeadEnd
<1>6. Sits(stream, n, two)
  BY <1>3, <1>4, <1>5
<1>7. ASSUME NEW j \in 0 .. n - 1 PROVE ~Sits(stream, j, two)
  BY <1>3, <1>4, <1>5
<1>8. Ends(stream, 0, n, two)
  BY <1>3, <1>6, <1>7 DEF Ends
<1> QED BY <1>1, <1>8 DEF two, n

\* What a sound message says of its chunks.
LEMMA Chunked ==
  ASSUME Types, msg.sound, framing = "chunked", msg.connect => op = "request"
  PROVE  /\ msg.chunks \subseteq Chunk /\ msg.trailing \in Nat
         /\ \E c \in msg.chunks : c.from = 0 /\ c.before = 0
         /\ \A c \in msg.chunks : SoundChunk(msg, c)
<1>1. msg \in Message /\ Sound(msg)
  BY FramingAssumption DEF Types
<1>2. msg.te /\ ~msg.connect
  BY DEF framing
<1> QED BY <1>1, <1>2 DEF Sound, Message

\* The body of a message with a length.
LEMMA Measured ==
  ASSUME Types, msg.sound, framing = "length", msg.connect => op = "request"
  PROVE  msg.data = msg.body /\ Len(msg.body) = msg.cl /\ msg.cl \in Nat
<1>1. msg \in Message /\ Sound(msg)
  BY FramingAssumption DEF Types
<1>2. ~msg.te /\ ~msg.connect /\ msg.cl >= 0
  BY DEF framing
<1> QED BY <1>1, <1>2 DEF Sound, Message, NoLength, BadLength

\* The line of a chunk, in the stream.
LEMMA ChunkLine ==
  ASSUME Types, msg.sound, framing = "chunked", msg.connect => op = "request",
         NEW c \in msg.chunks
  PROVE  /\ c \in Chunk /\ Data(c) \in Nat /\ Data(c) <= FrameEnd
         /\ HeadEnd + c.from \in Nat /\ Data(c) - 2 \in Nat
         /\ Ends(stream, HeadEnd + c.from, Data(c) - 2, CRLF)
         /\ SizeOf(SubSeq(stream, HeadEnd + c.from + 1, Data(c) - 2)) = c.size
<1> DEFINE b   == msg.body
           n   == c.from
           end == c.from + c.line
           L   == Len(b)
<1>1. c \in Chunk /\ SoundChunk(msg, c)
  BY Chunked
<1>2. n \in Nat /\ end \in Nat /\ n <= end /\ c.size \in Nat
  BY <1>1 DEF Chunk
<1>3. Ends(b, n, end, CRLF) /\ SizeOf(SubSeq(b, n + 1, end)) = c.size
  BY <1>1 DEF SoundChunk
<1>4. CRLF \in Seq(Units) /\ Len(CRLF) = 2
  BY Marks
<1>5. /\ msg.head \in Seq(Units) /\ b \in Seq(Units) /\ msg.after \in Seq(Units) /\ stream \in Seq(Units)
      /\ HeadEnd \in Nat /\ L \in Nat /\ FrameEnd = HeadEnd + L
  BY Parts
<1>6. end + 2 <= L
  BY <1>3, <1>4 DEF Ends, Sits
<1>7. Ends(stream, HeadEnd + n, HeadEnd + end, CRLF)
  <2> HIDE DEF end, n, b
  <2>1. Ends(msg.head \o b \o msg.after, Len(msg.head) + n, Len(msg.head) + end, CRLF)
    BY <1>2, <1>3, <1>4, <1>5, EndsInBody
  <2> QED BY <2>1 DEF stream, HeadEnd, b
<1>8. \A k \in 1 .. L : stream[HeadEnd + k] = b[k]
  BY Parts
<1>9. Data(c) = HeadEnd + end + 2 /\ Data(c) - 2 = HeadEnd + end
  BY <1>1, <1>5, SMTT(30) DEF Data, Chunk
<1>10. Len(stream) \in Nat /\ FrameEnd <= Len(stream)
  BY Parts, LenProperties
<1> HIDE DEF n, end, b, L
<1>11. SubSeq(stream, HeadEnd + n + 1, HeadEnd + end) = SubSeq(b, n + 1, end)
  <2> DEFINE s == SubSeq(stream, HeadEnd + n + 1, HeadEnd + end)
             t == SubSeq(b, n + 1, end)
  <2>1. t \in Seq(Units) /\ Len(t) = end - n /\ \A k \in 1 .. end - n : t[k] = b[n + k]
    <3>1. end <= Len(b)
      BY <1>2, <1>5, <1>6 DEF L
    <3> QED BY <1>2, <1>5, <3>1, PartOf
  <2> DEFINE f == HeadEnd + n
             g == HeadEnd + end
  <2>2. f \in Nat /\ g \in Nat /\ f <= g /\ g <= Len(stream) /\ g - f = end - n
    BY <1>2, <1>5, <1>6, <1>10
  <2> HIDE DEF f, g
  <2>3. /\ SubSeq(stream, f + 1, g) \in Seq(Units) /\ Len(SubSeq(stream, f + 1, g)) = g - f
        /\ \A k \in 1 .. g - f : SubSeq(stream, f + 1, g)[k] = stream[f + k]
    BY <1>5, <2>2, PartOf
  <2>4. s = SubSeq(stream, f + 1, g)
    BY DEF f, g
  <2> HIDE DEF s, t
  <2>5. s \in Seq(Units) /\ t \in Seq(Units) /\ Len(s) = Len(t)
    BY <2>1, <2>2, <2>3, <2>4
  <2>6. ASSUME NEW k \in 1 .. Len(s) PROVE s[k] = t[k]
    <3> DEFINE j == n + k
    <3>1. k \in 1 .. g - f /\ k \in 1 .. end - n
      BY <1>2, <2>2, <2>3, <2>4
    <3>2. j \in 1 .. L /\ f + k = HeadEnd + j
      BY <1>2, <1>5, <1>6, <3>1 DEF f
    <3>3. t[k] = b[j] /\ s[k] = stream[f + k]
      BY <2>1, <2>3, <2>4, <3>1
    <3> HIDE DEF j
    <3> QED BY <1>8, <3>2, <3>3
  <2>7. s = t
    BY <2>5, <2>6, SeqEqual
  <2> QED BY <2>7 DEF s, t
<1>12. Data(c) \in Nat /\ Data(c) <= FrameEnd /\ HeadEnd + n \in Nat /\ HeadEnd + end \in Nat
  BY <1>2, <1>5, <1>6, <1>9
<1> QED BY <1>1, <1>3, <1>7, <1>9, <1>11, <1>12 DEF n, end, b

\* The data of a chunk, the line end behind it and the next chunk.
LEMMA ChunkData ==
  ASSUME Types, msg.sound, framing = "chunked", msg.connect => op = "request",
         NEW c \in msg.chunks, c.size # 0
  PROVE  /\ c.size \in Nat /\ c.before \in Nat
         /\ c.before + c.size <= Len(msg.data)
         /\ Data(c) + c.size + 2 <= FrameEnd
         /\ \A k \in 1 .. c.size : stream[Data(c) + k] = msg.data[c.before + k]
         /\ Sits(stream, Data(c) + c.size, CRLF)
         /\ \E d \in msg.chunks : /\ HeadEnd + d.from = Data(c) + c.size + 2
                                  /\ d.before = c.before + c.size
<1> DEFINE b    == msg.body
           data == msg.data
           n    == c.from + c.line + 2
           size == c.size
           bef  == c.before
           some == SubSeq(data, bef + 1, bef + size)
           L    == Len(b)
           D    == Len(data)
<1>1. c \in Chunk /\ SoundChunk(msg, c)
  BY Chunked
<1>2. n \in Nat /\ size \in Nat /\ bef \in Nat /\ c.from \in Nat /\ c.line \in Nat
  BY <1>1 DEF Chunk
<1>3. /\ bef + size <= D
      /\ Sits(b, n, some \o CRLF)
      /\ \E d \in msg.chunks : d.from = c.from + c.line + 2 + size + 2 /\ d.before = bef + size
  BY <1>1 DEF SoundChunk
<1>4. CRLF \in Seq(Units) /\ Len(CRLF) = 2 /\ CRLF[1] = CR /\ CRLF[2] = LF
  BY Marks
<1>5. /\ b \in Seq(Units) /\ data \in Seq(Units) /\ stream \in Seq(Units) /\ Len(stream) \in Nat
      /\ HeadEnd \in Nat /\ L \in Nat /\ D \in Nat /\ FrameEnd = HeadEnd + L /\ FrameEnd <= Len(stream)
      /\ \A k \in 1 .. L : stream[HeadEnd + k] = b[k]
  BY Parts, LenProperties
<1>6. Data(c) = HeadEnd + n
  BY <1>2, <1>5, SMTT(30) DEF Data
<1> HIDE DEF b, data, n, size, bef, L, D
<1>7. some \in Seq(Units) /\ Len(some) = size /\ \A k \in 1 .. size : some[k] = data[bef + k]
  <2> DEFINE g == bef + size
  <2>1. g \in Nat /\ bef <= g /\ g <= D /\ g - bef = size
    BY <1>2, <1>3, <1>5
  <2> HIDE DEF g
  <2>2. /\ SubSeq(data, bef + 1, g) \in Seq(Units) /\ Len(SubSeq(data, bef + 1, g)) = g - bef
        /\ \A k \in 1 .. g - bef : SubSeq(data, bef + 1, g)[k] = data[bef + k]
    BY <1>2, <1>5, <2>1, PartOf DEF D
  <2>3. SubSeq(data, bef + 1, g) = some
    BY DEF g
  <2> HIDE DEF some
  <2> QED BY <2>1, <2>2, <2>3
<1> HIDE DEF some
<1> DEFINE mark == some \o CRLF
<1>8. /\ mark \in Seq(Units) /\ Len(mark) = size + 2
      /\ \A i \in 1 .. size + 2 : mark[i] = IF i <= size THEN some[i] ELSE CRLF[i - size]
  <2>1. /\ some \o CRLF \in Seq(Units)
        /\ Len(some \o CRLF) = Len(some) + Len(CRLF)
        /\ \A i \in 1 .. Len(some) + Len(CRLF) :
              (some \o CRLF)[i] = IF i <= Len(some) THEN some[i] ELSE CRLF[i - Len(some)]
    BY <1>4, <1>7, ConcatProperties
  <2>2. Len(some) = size /\ Len(CRLF) = 2
    BY <1>4, <1>7
  <2> QED BY <2>1, <2>2, Zenon
<1> HIDE DEF mark
<1>9. n + (size + 2) <= L /\ \A k \in 1 .. size + 2 : b[n + k] = mark[k]
  <2>1. n + Len(mark) <= Len(b) /\ \A k \in 1 .. Len(mark) : b[n + k] = mark[k]
    <3>1. Sits(b, n, mark) /\ mark \in Seq(Units) /\ b \in Seq(Units) /\ n \in Nat
      BY <1>2, <1>3, <1>5, <1>8 DEF mark
    <3> QED BY <3>1, SitsMeans
  <2> QED BY <1>8, <2>1, Zenon DEF L
<1> DEFINE p == Data(c)
<1>10. p \in Nat /\ p = HeadEnd + n /\ p + size + 2 <= FrameEnd
  <2>1. HeadEnd \in Nat /\ L \in Nat /\ FrameEnd = HeadEnd + L /\ p = HeadEnd + n /\ n + (size + 2) <= L
    BY <1>5, <1>6, <1>9
  <2> HIDE DEF p
  <2> QED BY <1>2, <2>1
<1> HIDE DEF p
<1>11. ASSUME NEW k \in 1 .. size + 2 PROVE stream[p + k] = mark[k]
  <2> DEFINE j == n + k
  <2>1. j \in 1 .. L /\ HeadEnd + j = p + k
    BY <1>2, <1>5, <1>9, <1>10
  <2> HIDE DEF j
  <2>2. stream[HeadEnd + j] = b[j]
    BY <1>5, <2>1
  <2>3. b[j] = mark[k]
    BY <1>9 DEF j
  <2> QED BY <2>1, <2>2, <2>3
<1>12. ASSUME NEW k \in 1 .. size PROVE stream[p + k] = data[bef + k]
  <2>1. k \in 1 .. size + 2 /\ k <= size
    BY <1>2
  <2> QED BY <1>7, <1>8, <1>11, <2>1
<1> DEFINE e == p + size
<1>13. Sits(stream, e, CRLF)
  <2> DEFINE k1 == size + 1
             k2 == size + 2
  <2>1. /\ k1 \in 1 .. size + 2 /\ ~(k1 <= size) /\ k1 - size = 1 /\ p + k1 = e + 1
        /\ k2 \in 1 .. size + 2 /\ ~(k2 <= size) /\ k2 - size = 2 /\ p + k2 = e + 2
        /\ e \in Nat /\ e + 2 <= Len(stream)
    BY <1>2, <1>5, <1>10
  <2> HIDE DEF k1, k2, e
  <2>2. stream[p + k1] = CR /\ stream[p + k2] = LF
    BY <1>4, <1>8, <1>11, <2>1
  <2> QED BY <1>5, <2>1, <2>2, LineEnd
<1>14. PICK d \in msg.chunks : d.from = n + size + 2 /\ d.before = bef + size
  BY <1>2, <1>3 DEF n, size, bef
<1>15. HeadEnd + d.from = p + size + 2
  BY <1>2, <1>5, <1>10, <1>14
<1> QED BY <1>2, <1>3, <1>10, <1>12, <1>13, <1>14, <1>15 DEF p, size, bef, data, D

\* A trailer, or the empty line that stands for it.
LEMMA TrailerIs ==
  ASSUME Types, msg.sound, framing = "chunked", msg.connect => op = "request",
         NEW c \in msg.chunks, c.size = 0
  PROVE  /\ c.before = Len(msg.data)
         /\ msg.trailing \in Nat /\ FrameEnd - msg.trailing - 2 \in Nat
         /\ Ends(stream, Data(c), FrameEnd - msg.trailing - 2, CRLF)
         /\ InTrailer(Data(c))
<1> DEFINE b     == msg.body
           L     == Len(b)
           n     == c.from + c.line + 2
           t     == msg.trailing
           first == L - t - 2
           last  == L - 4
           two   == CRLF \o CRLF
           F     == FrameEnd
           H     == HeadEnd
<1>1. c \in Chunk /\ SoundChunk(msg, c) /\ msg.trailing \in Nat
  BY Chunked
<1>2. n \in Nat
  BY <1>1 DEF Chunk
<1>3. c.before = Len(msg.data) /\ SoundTrailer(msg, n)
  BY <1>1 DEF SoundChunk
<1>4. /\ Ends(b, n, first, CRLF)
      /\ IF msg.trailing = 0 THEN n = first ELSE n < first /\ Ends(b, n, last, two)
  BY <1>3 DEF SoundTrailer
<1>5. /\ msg.head \in Seq(Units) /\ b \in Seq(Units) /\ msg.after \in Seq(Units) /\ stream \in Seq(Units)
      /\ Len(stream) \in Nat
      /\ H \in Nat /\ L \in Nat /\ F = H + L /\ F <= Len(stream)
  BY Parts, LenProperties
<1>6. CRLF \in Seq(Units) /\ Len(CRLF) = 2 /\ two \in Seq(Units) /\ Len(two) = 4 /\ CR # LF
  BY Marks
<1>7. Data(c) = H + n
  BY <1>1, <1>5 DEF Data, Chunk
<1> HIDE DEF two, n, L, b, F, t
<1>8. first \in Nat /\ n <= first /\ \A j \in n .. first - 1 : ~Sits(b, j, CRLF)
  <2>1. t \in Nat
    BY <1>1 DEF t
  <2>2. n <= first /\ \A j \in n .. first - 1 : ~Sits(b, j, CRLF)
    BY <1>4 DEF Ends
  <2> QED BY <1>2, <1>5, <2>1, <2>2
<1>9. \A m \in Nat, i \in Nat, mark \in Seq(Units) :
        Ends(b, m, i, mark) => Ends(stream, H + m, H + i, mark)
  BY <1>5, EndsInBody DEF stream, HeadEnd, b
<1> HIDE DEF H
<1>10. Ends(stream, H + n, H + first, CRLF)
  BY <1>2, <1>4, <1>6, <1>8, <1>9
<1>11. H + first = F - t - 2 /\ H + first \in Nat
  <2>1. t \in Nat /\ H \in Nat /\ L \in Nat /\ F = H + L /\ first \in Nat
    BY <1>1, <1>5, <1>8 DEF t
  <2> QED BY <2>1
<1> DEFINE p == Data(c)
<1>12. p \in Nat /\ p = H + n /\ p <= H + first
  BY <1>2, <1>5, <1>7, <1>8
<1> HIDE DEF p
<1>13. CASE t = 0
  <2>1. p = F - 2 /\ p + 2 <= F
    BY <1>2, <1>4, <1>5, <1>12, <1>13 DEF t
  <2>2. Sits(stream, p, CRLF)
    BY <1>10, <1>4, <1>12, <1>13 DEF Ends, t
  <2>3. p .. F - 5 = {}
    BY <1>5, <1>12, <2>1
  <2>4. InTrailer(p)
    BY <2>1, <2>2, <2>3 DEF InTrailer, F
  <2> QED BY <1>1, <1>3, <1>10, <1>11, <1>12, <2>4 DEF p, F, t
<1>14. CASE t # 0
  <2>1. n < first /\ Ends(b, n, last, two)
    BY <1>4, <1>14 DEF t
  <2>2. last \in Nat
    BY <1>2, <1>5, <2>1 DEF Ends
  <2> DEFINE z == H + last
  <2>3. Ends(stream, H + n, H + last, two)
    BY <1>2, <1>6, <1>9, <2>1, <2>2
  <2>4. z \in Nat /\ z = F - 4 /\ z + 2 = F - 2
    BY <1>5, <2>2
  <2> HIDE DEF z
  <2>5. /\ p <= z /\ Sits(stream, z, two)
        /\ \A j \in p .. z - 1 : ~Sits(stream, j, two)
    BY <1>12, <2>3 DEF Ends, z
  <2>6. Sits(stream, z, CRLF) /\ Sits(stream, z + 2, CRLF)
    BY <1>5, <2>4, <2>5, TwoLineEnds DEF two
  <2>7. ~Sits(stream, p, CRLF)
    <3>1. p \in H + n .. (H + first) - 1
      BY <1>2, <1>5, <1>8, <1>12, <2>1
    <3> QED BY <1>10, <3>1 DEF Ends
  <2>8. z - 1 = F - 5 /\ p + 2 <= F /\ p + 4 <= F
    BY <1>5, <1>12, <2>4, <2>5
  <2>9. InTrailer(p)
    BY <2>4, <2>5, <2>6, <2>7, <2>8 DEF InTrailer, F, two
  <2> QED BY <1>1, <1>3, <1>10, <1>11, <1>12, <2>9 DEF p, F, t
<1> QED BY <1>13, <1>14

-----------------------------------------------------------------------------
(* The invariant *)

\* Only an answer is read until its connection closes, and a length is a number.
LEMMA Framings ==
  ASSUME Types
  PROVE  /\ op \in {"request", "discard", "forward"} /\ msg \in Message
         /\ framing \in {"none", "chunked", "length", "close"}
         /\ framing = "close" => op = "forward"
         /\ framing = "length" => msg.cl \in Nat
<1>1. op \in {"request", "discard", "forward"} /\ msg \in Message
  BY FramingAssumption DEF Types
<1>2. msg.cl \in Nat \/ msg.cl < 0
  BY <1>1 DEF Message, NoLength, BadLength
<1> QED BY <1>1, <1>2 DEF framing, Message, NoLength, BadLength

\* A call begins with nothing read and nothing collected.
LEMMA InitIInv == Init => IInv
<1> SUFFICES ASSUME Init PROVE IInv
  OBVIOUS
<1>1. op \in Ops /\ msg \in Messages
  BY DEF Init, Calls
<1>2. stream \in Seq(Units)
  BY <1>1, FramingAssumption, ConcatProperties DEF stream, Message
<1>3. Types
  BY <1>1, <1>2, FramingAssumption DEF Init, Types
<1>4. Counted
  BY <1>3, Framings DEF Init, Counted
<1> QED BY <1>3, <1>4 DEF IInv

\* The next call finds the connection of another message.
LEMMA NextCallKeeps == IInv /\ NextCall => IInv'
<1> SUFFICES ASSUME NextCall PROVE IInv'
  OBVIOUS
<1>1. op' \in Ops /\ msg' \in Messages
  BY DEF NextCall, Calls
<1>2. stream' \in Seq(Units)
  BY <1>1, FramingAssumption, ConcatProperties DEF stream, Message
<1>3. Types'
  BY <1>1, <1>2, FramingAssumption DEF NextCall, Types
<1>4. Counted'
  BY DEF NextCall, Counted
<1> QED BY <1>3, <1>4 DEF IInv

\* While a message is read, what it is and how it is framed stay.
LEMMA Same == ASSUME UNCHANGED <<op, msg>>
              PROVE  stream' = stream /\ framing' = framing
  BY DEF stream, framing

\* Reads of the socket, failures and what the peers do.
LEMMA ReadsKeep ==
  ASSUME IInv, More \/ HeadTooLarge \/ EndOfStream \/ ReadFails \/ WriteFails \/ PeerEnds \/ DstLeaves
  PROVE  IInv'
<1> USE Same DEF IInv, around
<1>1. CASE More
  <2>1. Types'
    BY <1>1, FramingAssumption DEF More, Types
  <2>2. at' \in {at, "failed"} /\ UNCHANGED <<op, msg, need, part, body>>
    BY <1>1 DEF More
  <2> QED BY <2>1, <2>2 DEF Counted
<1>2. CASE HeadTooLarge
  BY <1>2 DEF HeadTooLarge, Types, Counted
<1>3. CASE EndOfStream
  <2>1. Types'
    BY <1>3 DEF EndOfStream, Types
  <2>2. op = "request" => at' = "failed"
    BY <1>3 DEF EndOfStream, Counted
  <2> QED BY <1>3, <2>1, <2>2 DEF EndOfStream, Counted
<1>4. CASE ReadFails
  BY <1>4 DEF ReadFails, Types, Counted
<1>5. CASE WriteFails
  BY <1>5 DEF WriteFails, Types, Counted
<1>6. CASE PeerEnds
  BY <1>6 DEF PeerEnds, Types, Counted
<1>7. CASE DstLeaves
  BY <1>7 DEF DstLeaves, Types, Counted
<1> QED BY <1>1, <1>2, <1>3, <1>4, <1>5, <1>6, <1>7

\* How much is taken is there, and no more than is needed.
LEMMA Amount ==
  ASSUME Types, NEW n \in HowMany
  PROVE  /\ n \in Nat /\ pos + n <= Len(stream)
         /\ at # "close" => n <= need
<1>1. CASE leftover # <<>>
  <2>1. n \in {IF at = "close" THEN Len(leftover) ELSE Min({Len(leftover), need})}
    BY <1>1 DEF HowMany
  <2>2. Len(leftover) = got - pos /\ Len(leftover) \in Nat
    BY Texts DEF Types
  <2>3. Min({Len(leftover), need}) = IF Len(leftover) <= need THEN Len(leftover) ELSE need
    BY <2>2, MinMaxOfTwo DEF Types
  <2> QED BY <2>1, <2>2, <2>3 DEF Types
<1>2. CASE leftover = <<>>
  BY <1>2, FramingAssumption DEF HowMany
<1> QED BY <1>1, <1>2

\* What is taken off the length is added to the part.
LEMMA TakeKeeps == ASSUME IInv, Take PROVE IInv'
<1> USE Same DEF IInv, around
<1>1. PICK n \in HowMany :
        /\ pos' = pos + n
        /\ got' = Max({got, pos + n})
        /\ need' = IF at = "close" THEN 0 ELSE need - n
        /\ IF at = "exact" THEN part' = part \o SubSeq(stream, pos + 1, pos + n) /\ UNCHANGED out
           ELSE out' = out \o SubSeq(stream, pos + 1, pos + n) /\ UNCHANGED part
  BY DEF Take
<1>2. n \in Nat /\ pos + n <= Len(stream) /\ (at # "close" => n <= need)
  BY Amount
<1>3. pos \in Nat /\ got \in Nat /\ need \in Nat /\ part \in Seq(Units) /\ out \in Seq(Units)
  BY DEF Types
<1>4. got' = IF got >= pos + n THEN got ELSE pos + n
  <2>1. got \in Int /\ pos + n \in Int
    BY <1>2, <1>3
  <2>2. Max({got, pos + n}) = IF got >= pos + n THEN got ELSE pos + n
    BY <2>1, MinMaxOfTwo
  <2> QED BY <1>1, <2>2
<1>5. /\ SubSeq(stream, pos + 1, pos + n) \in Seq(Units)
      /\ Len(SubSeq(stream, pos + 1, pos + n)) = n
  <2>1. stream \in Seq(Units) /\ pos + n \in Nat /\ pos <= pos + n
    BY <1>2, <1>3, Texts
  <2>2. /\ SubSeq(stream, pos + 1, pos + n) \in Seq(Units)
        /\ Len(SubSeq(stream, pos + 1, pos + n)) = (pos + n) - pos
    BY <1>2, <1>3, <2>1, PartOf
  <2> QED BY <1>2, <1>3, <2>2
<1>6. part' \in Seq(Units) /\ out' \in Seq(Units)
  BY <1>1, <1>3, <1>5, ConcatProperties
<1>7. at = "exact" => Len(part') = Len(part) + n /\ need' = need - n
  BY <1>1, <1>3, <1>5, ConcatProperties
<1>8. UNCHANGED <<op, msg, peer, dst, at, body>> /\ at \in {"exact", "fixed", "close"}
  BY DEF Take
<1>9. Types'
  BY <1>1, <1>2, <1>3, <1>4, <1>6, <1>8 DEF Types
<1>10. Counted'
  <2>1. Len(part) \in Nat
    BY <1>3, LenProperties
  <2>2. framing = "length" /\ op = "request" => msg.cl \in Nat
    BY Framings
  <2> QED BY <1>2, <1>3, <1>7, <1>8, <2>1, <2>2, SMTT(30) DEF Counted
<1> QED BY <1>9, <1>10

\* The head says what is to be read.
LEMMA TakeHeadKeeps == ASSUME IInv, TakeHead PROVE IInv'
<1> USE Same DEF IInv, around
<1>1. /\ op \in {"request", "discard", "forward"}
      /\ framing \in {"none", "chunked", "length", "close"}
      /\ framing = "close" => op = "forward"
      /\ framing = "length" => msg.cl \in Nat
  BY Framings
<1>2. Past \in Nat /\ pos <= Past /\ Past <= got
  BY LineFound DEF TakeHead
<1>3. at' # "failed" =>
        /\ framing = "chunked" => at' = "size"
        /\ framing = "close" => at' = "close"
        /\ framing = "none" => at' = "done"
        /\ framing = "length" /\ op = "forward" => at' = "fixed"
        /\ framing = "length" /\ op # "forward" => at' = "exact"
  BY DEF TakeHead
<1>4. /\ need' = IF framing = "length" THEN msg.cl ELSE 0
      /\ UNCHANGED <<op, msg, peer, dst, got, part, body, out>> /\ pos' = Past /\ at = "head"
  BY DEF TakeHead
<1>5. Types'
  BY <1>1, <1>2, <1>3, <1>4 DEF Types
<1>6. Counted'
  <2>1. op = "request" => part = <<>> /\ body = <<>>
    BY <1>4 DEF Counted
  <2> QED BY <1>1, <1>3, <1>4, <2>1 DEF Counted
<1> QED BY <1>5, <1>6

\* Lines of a chunked body.
LEMMA ChunkKeeps == ASSUME IInv, TakeSize \/ TakeCrlf \/ TakeTrailer PROVE IInv'
<1> USE Same DEF IInv, around
<1>1. at \in {"size", "crlf", "trailer"} /\ Found # {} /\ pos' = Past
  BY DEF TakeSize, TakeCrlf, TakeTrailer
<1>2. Past \in Nat /\ pos <= Past /\ Past <= got /\ Line \in Seq(Units)
  BY <1>1, LineFound
<1>3. out' \in Seq(Units)
  <2>1. CRLF \in Seq(Units)
    BY DEF CRLF, CR, LF, Units
  <2>2. out \in Seq(Units)
    BY DEF Types
  <2>3. out' \in {out, out \o Line \o CRLF, out \o CRLF}
    BY DEF TakeSize, TakeCrlf, TakeTrailer
  <2>4. out \o Line \in Seq(Units)
    BY <1>2, <2>2, ConcatProperties
  <2>5. (out \o Line) \o CRLF \in Seq(Units) /\ out \o CRLF \in Seq(Units)
    BY <2>1, <2>2, <2>4, ConcatProperties
  <2> QED BY <2>2, <2>3, <2>5
<1>4. UNCHANGED <<op, msg, peer, dst, got, part, body>>
  BY DEF TakeSize, TakeCrlf, TakeTrailer
<1>5. need' \in Nat
  <2>1. CASE TakeSize
    <3>1. SizeOf(Line) \in Int
      BY DEF SizeOf, BadLength
    <3>2. Max({SizeOf(Line), 0}) \in Nat
      BY <3>1, MinMaxOfTwo
    <3> QED BY <2>1, <3>2 DEF TakeSize
  <2> QED BY <2>1 DEF TakeCrlf, TakeTrailer, Types
<1>6. at' \in {"size", "exact", "trailer", "done", "failed"}
  BY DEF TakeSize, TakeCrlf, TakeTrailer
<1>7. Types'
  BY <1>1, <1>2, <1>3, <1>4, <1>5, <1>6 DEF Types
<1>8. op = "request" => framing = "chunked"
  BY <1>1, Framings DEF Counted
<1>9. Counted'
  BY <1>4, <1>6, <1>8 DEF Counted
<1> QED BY <1>7, <1>9

\* A length or a chunk is complete: it becomes the body, or part of it.
LEMMA TakenKeeps == ASSUME IInv, Taken PROVE IInv'
<1> USE Same DEF IInv, around
<1>1. part \in Seq(Units) /\ body \in Seq(Units) /\ out \in Seq(Units)
  BY DEF Types
<1>2. /\ body' \in Seq(Units) /\ out' \in Seq(Units) /\ part' = <<>>
      /\ UNCHANGED <<op, msg, peer, dst, pos, got, need>>
      /\ need = 0 /\ at \in {"exact", "fixed"} /\ at' = IF framing = "chunked" THEN "crlf" ELSE "done"
      /\ op # "forward" => body' = body \o part
  BY <1>1, ConcatProperties DEF Taken
<1>3. Types'
  BY <1>2 DEF Types
<1>4. ASSUME op = "request", framing = "length"
      PROVE  Len(body') = msg.cl
  <2>1. body = <<>> /\ Len(part) + need = msg.cl
    BY <1>2, <1>4 DEF Counted
  <2>2. body' = part
    BY <1>1, <1>2, <1>4, <2>1, ConcatEmptySeq
  <2>3. Len(part) \in Nat
    BY <1>1, LenProperties
  <2> QED BY <1>2, <2>1, <2>2, <2>3
<1>5. op = "request" => framing # "none"
  BY <1>2 DEF Counted
<1>6. Counted'
  BY <1>2, <1>4, <1>5 DEF Counted
<1> QED BY <1>3, <1>6

\* Every step of the three readers, of the peer and of the client.
LEMMA StepKeeps == IInv /\ [Next]_vars => IInv'
<1>1. ASSUME IInv, UNCHANGED vars PROVE IInv'
  <2>1. Types' /\ Counted'
    BY <1>1, Same DEF vars, IInv, Types, Counted
  <2> QED BY <2>1 DEF IInv
<1> QED BY <1>1, ReadsKeep, NextCallKeeps, TakeKeeps, TakeHeadKeeps, ChunkKeeps, TakenKeeps DEF Next

-----------------------------------------------------------------------------
(* Where the readers are in a sound message *)

\* What a reader that collects has of the data.
Collected(n) == op # "forward" => Len(body) = n /\ Copy(body, msg.data, 0)

\* Where the readers are in a sound message, by the read that comes next.
AtSize ==
    \E c \in msg.chunks : pos = HeadEnd + c.from /\ Collected(c.before)

AtData ==
    \E c \in msg.chunks :
        /\ c.size # 0
        /\ pos = Data(c) + Len(part) /\ need = c.size - Len(part)
        /\ Collected(c.before)

AtCrlf ==
    \E c \in msg.chunks :
        /\ c.size # 0
        /\ pos = Data(c) + c.size
        /\ Collected(c.before + c.size)

AtTrailer ==
    IF op = "forward" THEN InTrailer(pos)
    ELSE \E c \in msg.chunks : c.size = 0 /\ pos = Data(c) /\ Collected(c.before)

AtLength ==
    /\ op # "forward" /\ body = <<>>
    /\ pos = HeadEnd + Len(part) /\ need = msg.cl - Len(part)

Placed ==
    /\ at = "head" => pos = 0 /\ part = <<>> /\ body = <<>> /\ out = <<>>
    /\ at = "size" => framing = "chunked" /\ AtSize
    /\ at = "exact" => \/ framing = "chunked" /\ AtData
                       \/ framing = "length" /\ AtLength
    /\ at = "crlf" => framing = "chunked" /\ AtCrlf
    /\ at = "trailer" => framing = "chunked" /\ AtTrailer
    /\ at = "fixed" => framing = "length" /\ op = "forward" /\ pos + need = HeadEnd + msg.cl
    /\ at = "close" => framing = "close" /\ op = "forward"

\* The part is what was read last.
Kept ==
    /\ Len(part) <= pos /\ Copy(part, stream, pos - Len(part))
    /\ at \notin {"exact", "failed"} => part = <<>>

\* What has been forwarded is what was read behind the head.
Copied ==
    op = "forward" =>
        /\ framing # "close" => pos <= FrameEnd
        /\ \/ at \in {"head", "failed"} /\ out = <<>> /\ part = <<>>
           \/ /\ at # "head" /\ pos = HeadEnd + Len(out) + Len(part)
              /\ Copy(out, stream, HeadEnd)

\* Where a forwarder is that calls the body complete.
Delivered ==
    at = "done" /\ op = "forward" =>
        IF framing = "close" THEN pos = got
        ELSE pos = FrameEnd \/ (framing = "length" /\ peer = "closed")

Followed == Placed /\ Kept /\ Copied /\ Delivered

\* The invariant that the proof goes by: io.rs, the readers of a sound message.
Sure ==
    /\ IInv
    /\ msg.connect => op = "request"
    /\ msg.sound => Followed
    /\ Exact /\ FailsForCause

\* While a message is read, its places stay.
LEMMA SamePlaces ==
  ASSUME UNCHANGED <<op, msg>>
  PROVE  /\ stream' = stream /\ framing' = framing /\ HeadEnd' = HeadEnd /\ FrameEnd' = FrameEnd
         /\ \A c \in msg.chunks : Data(c)' = Data(c)
         /\ \A p : InTrailer(p)' = InTrailer(p)
<1>1. stream' = stream /\ framing' = framing
  BY Same
<1>2. HeadEnd' = HeadEnd /\ FrameEnd' = FrameEnd
  BY <1>1 DEF HeadEnd, FrameEnd
<1>3. \A c \in msg.chunks : Data(c)' = Data(c)
  BY <1>2 DEF Data
<1>4. \A p : InTrailer(p)' = InTrailer(p)
  BY <1>1, <1>2 DEF InTrailer
<1> QED BY <1>1, <1>2, <1>3, <1>4

\* A step that reads nothing out of leftover and writes nothing.
LEMMA StillFollowed ==
  ASSUME Followed, UNCHANGED <<op, msg, pos, need, part, body, out>>,
         at' = at \/ at' = "failed", at' # "done"
  PROVE  Followed'
<1> USE SamePlaces
<1>1. Placed'
  <2>1. at' = "size" => framing = "chunked" /\ AtSize'
    BY DEF Followed, Placed, AtSize, Collected
  <2>2. at' = "exact" => \/ framing = "chunked" /\ AtData'
                         \/ framing = "length" /\ AtLength'
    BY DEF Followed, Placed, AtData, AtLength, Collected
  <2>3. at' = "crlf" => framing = "chunked" /\ AtCrlf'
    BY DEF Followed, Placed, AtCrlf, Collected
  <2>4. at' = "trailer" => framing = "chunked" /\ AtTrailer'
    BY DEF Followed, Placed, AtTrailer, Collected
  <2> QED BY <2>1, <2>2, <2>3, <2>4 DEF Followed, Placed
<1>2. Kept'
  BY DEF Followed, Kept
<1>3. Copied'
  BY DEF Followed, Copied
<1>4. Delivered'
  BY DEF Delivered
<1> QED BY <1>1, <1>2, <1>3, <1>4 DEF Followed

\* A reader that has to wait has not come to the end of the message.
LEMMA Waits ==
  ASSUME Sure, msg.sound, Starved
  PROVE  got < FrameEnd \/ at = "close"
<1> USE DEF Sure, IInv
<1>0. Placed
  BY DEF Followed
<1>1. /\ pos \in Nat /\ got \in Nat /\ need \in Nat /\ FrameEnd \in Nat /\ HeadEnd \in Nat
      /\ HeadEnd <= FrameEnd
  BY Parts DEF Types
<1>2. ASSUME Found = {}, NEW n \in Nat, pos <= n, Sits(stream, n, Mark)
      PROVE  got < n + Len(Mark)
  <2> DEFINE i == n - pos
             M == Len(Mark)
  <2>1. i \in Nat /\ pos + i = n /\ M \in Nat
    BY <1>1, <1>2, Texts
  <2> HIDE DEF i
  <2>2. i \notin Found
    BY <1>2
  <2>3. ~(pos + i + M <= got /\ Sits(stream, pos + i, Mark))
    BY <2>1, <2>2, FoundMeans
  <2>4. ~(n + M <= got)
    BY <1>2, <2>1, <2>3
  <2> HIDE DEF M
  <2>5. got < n + M
    BY <1>1, <2>1, <2>4
  <2> QED BY <2>5 DEF M
<1>3. CASE at = "head"
  <2>1. Found = {} /\ Mark = CRLF \o CRLF /\ Len(Mark) = 4 /\ pos = 0
    BY <1>0, <1>3, Marks DEF Starved, ByMark, Mark, Placed
  <2>2. HeadEnd >= 4 /\ Ends(stream, 0, HeadEnd - 4, Mark)
    BY <2>1, HeadIs
  <2>3. HeadEnd - 4 \in Nat /\ pos <= HeadEnd - 4 /\ Sits(stream, HeadEnd - 4, Mark)
    BY <1>1, <2>1, <2>2 DEF Ends
  <2>4. got < (HeadEnd - 4) + Len(Mark)
    BY <1>2, <2>1, <2>3
  <2> QED BY <1>1, <2>1, <2>4
<1>4. CASE at \in {"size", "crlf", "trailer"}
  <2>1. Found = {} /\ Mark = CRLF /\ Len(Mark) = 2 /\ framing = "chunked"
    BY <1>0, <1>4, Marks DEF Starved, ByMark, Mark, Placed
  <2>2. CASE at = "size"
    <3>1. PICK c \in msg.chunks : pos = HeadEnd + c.from
      BY <1>0, <2>2 DEF Placed, AtSize
    <3>2. /\ Data(c) \in Nat /\ Data(c) <= FrameEnd /\ Data(c) - 2 \in Nat
          /\ Ends(stream, pos, Data(c) - 2, Mark)
      BY <2>1, <3>1, ChunkLine
    <3> DEFINE n == Data(c) - 2
    <3>3. n \in Nat /\ pos <= n /\ Sits(stream, n, Mark) /\ n + 2 <= FrameEnd
      BY <1>1, <3>2 DEF Ends
    <3> HIDE DEF n
    <3>4. got < n + 2
      BY <1>2, <2>1, <3>3
    <3> QED BY <1>1, <3>3, <3>4
  <2>3. CASE at = "crlf"
    <3>1. PICK c \in msg.chunks : c.size # 0 /\ pos = Data(c) + c.size
      BY <1>0, <2>3 DEF Placed, AtCrlf
    <3>2. Sits(stream, pos, Mark) /\ pos + 2 <= FrameEnd
      BY <2>1, <3>1, ChunkData
    <3>3. got < pos + 2
      BY <1>1, <1>2, <2>1, <3>2
    <3> QED BY <1>1, <3>2, <3>3
  <2>4. CASE at = "trailer"
    <3>1. InTrailer(pos)
      <4>1. CASE op = "forward"
        BY <1>0, <2>4, <4>1 DEF Placed, AtTrailer
      <4>2. CASE op # "forward"
        <5>1. PICK c \in msg.chunks : c.size = 0 /\ pos = Data(c)
          BY <1>0, <2>4, <4>2 DEF Placed, AtTrailer
        <5>2. InTrailer(Data(c))
          BY <2>1, <5>1, TrailerIs
        <5> QED BY <5>1, <5>2
      <4> QED BY <4>1, <4>2
    <3> DEFINE n == FrameEnd - 2
    <3>2. n \in Nat /\ pos <= n /\ Sits(stream, n, Mark) /\ n + 2 = FrameEnd
      BY <1>1, <2>1, <3>1 DEF InTrailer
    <3> HIDE DEF n
    <3>3. got < n + 2
      BY <1>2, <2>1, <3>2
    <3> QED BY <3>2, <3>3
  <2> QED BY <1>4, <2>2, <2>3, <2>4
<1>5. CASE at \in {"exact", "fixed"}
  <2>1. leftover = <<>> /\ need > 0
    BY <1>5 DEF Starved, ByMark
  <2>2. got = pos
    <3>1. Len(leftover) = got - pos /\ Len(leftover) = 0
      BY <2>1, Texts
    <3> QED BY <1>1, <3>1
  <2>3. CASE framing = "chunked"
    <3>1. PICK c \in msg.chunks : c.size # 0 /\ pos = Data(c) + Len(part) /\ need = c.size - Len(part)
      BY <1>0, <1>5, <2>3 DEF Placed, AtData
    <3>2. Data(c) \in Nat /\ c.size \in Nat /\ Data(c) + c.size + 2 <= FrameEnd
      BY <2>3, <3>1, ChunkLine, ChunkData
    <3>3. Len(part) \in Nat
      BY LenProperties DEF Types
    <3> QED BY <1>1, <2>1, <2>2, <3>1, <3>2, <3>3
  <2>4. CASE framing = "length"
    <3>1. Len(msg.body) = msg.cl /\ msg.cl \in Nat /\ FrameEnd = HeadEnd + Len(msg.body)
      BY <2>4, Measured, Parts
    <3>2. pos + need = HeadEnd + msg.cl
      <4>1. CASE at = "exact"
        <5>1. pos = HeadEnd + Len(part) /\ need = msg.cl - Len(part) /\ Len(part) \in Nat
          BY <1>0, <2>4, <4>1, LenProperties DEF Placed, AtLength, Types
        <5> QED BY <1>1, <3>1, <5>1, SMTT(30)
      <4>2. CASE at = "fixed"
        BY <1>0, <4>2 DEF Placed
      <4> QED BY <1>5, <4>1, <4>2
    <3> QED BY <1>1, <2>1, <2>2, <3>1, <3>2
  <2> QED BY <1>0, <1>5, <2>3, <2>4 DEF Placed
<1> QED BY <1>3, <1>4, <1>5 DEF Starved, ByMark

\* Who gives up while it waits has a reason: io.rs, the readers' errors.
LEMMA FailsInWaiting ==
  ASSUME Sure, EndOfStream \/ ReadFails, at' = "failed" PROVE FailsForCause'
<1>1. /\ Starved /\ peer \in {"closed", "reset"} /\ UNCHANGED <<op, msg, peer, dst, got>>
      /\ framing' = framing /\ FrameEnd' = FrameEnd
  BY SamePlaces DEF EndOfStream, ReadFails, around
<1>2. CASE ~msg.sound
  BY <1>1, <1>2 DEF FailsForCause
<1>3. CASE msg.sound
  <2>1. got < FrameEnd \/ at = "close"
    BY <1>1, <1>3, Waits
  <2>2. at = "close" => framing = "close"
    BY <1>3 DEF Sure, Followed, Placed
  <2> QED BY <1>1, <2>1, <2>2 DEF FailsForCause
<1> QED BY <1>2, <1>3

\* A line is given up when it has become too long: io.rs, read_line.
LEMMA FailsOnLine ==
  ASSUME Sure, More, at' = "failed" PROVE LongLine'
<1> USE DEF Sure, IInv
<1>1. /\ Found = {} /\ at \notin {"head", "failed"} /\ Mark = CRLF /\ Len(CRLF) = 2 /\ CRLF \in Seq(Units)
  <2>1. ByMark /\ Found = {} /\ at # "failed"
    BY DEF More, Starved, ByMark
  <2>2. at # "head"
    BY <2>1 DEF More
  <2> QED BY <2>1, <2>2, Marks DEF Mark
<1>2. PICK n \in 1 .. ReadMax : got + n <= Len(stream) /\ got' = got + n
  BY DEF More
<1>3. got' - pos > LineMax /\ pos' = pos /\ stream' = stream
  BY <1>1, SamePlaces DEF More, around
<1>4. /\ pos \in Nat /\ got \in Nat /\ pos <= got /\ LineMax \in Nat /\ ReadMax \in Nat
      /\ stream \in Seq(Units)
  BY FramingAssumption, Texts DEF Types
<1> DEFINE g == got'
<1>5. g \in Nat /\ pos <= g /\ g <= Len(stream) /\ g <= got + ReadMax
  <2>1. n \in Nat /\ n <= ReadMax /\ g = got + n /\ g <= Len(stream)
    BY <1>2, <1>4
  <2> HIDE DEF g
  <2> QED BY <1>4, <2>1
<1> DEFINE left == SubSeq(stream, pos + 1, g)
<1>6. leftover' = left /\ g - pos > LineMax
  BY <1>3 DEF leftover
<1> HIDE DEF g
<1>7. left \in Seq(Units) /\ Len(left) = g - pos
  BY <1>4, <1>5, PartOf
<1> HIDE DEF left
<1>8. ASSUME NEW i \in 1 .. Len(left) - 1, SubSeq(left, i, i + 1) = CRLF
      PROVE  i > LineMax - ReadMax
  <2> DEFINE j == i - 1
  <2>1. j \in Nat /\ j + 1 = i /\ j + 2 = i + 1 /\ j + 2 <= Len(left)
    <3>1. Len(left) \in Nat /\ i \in 1 .. Len(left) - 1
      BY <1>4, <1>5, <1>7
    <3> QED BY <3>1
  <2> HIDE DEF j
  <2>2. Sits(left, j, CRLF)
    BY <1>1, <1>8, <2>1 DEF Sits
  <2>3. pos + j + 2 <= g /\ Sits(stream, pos + j, CRLF)
    BY <1>1, <1>4, <1>5, <2>1, <2>2, InPart DEF left
  <2>4. ~(pos + j + 2 <= got)
    BY <1>1, <2>1, <2>3, FoundMeans
  <2>5. i \in Nat
    BY <2>1
  <2> QED BY <1>4, <1>5, <1>6, <2>1, <2>4, <2>5
<1>9. Len(left) > LineMax
  BY <1>6, <1>7
<1> QED BY <1>6, <1>8, <1>9 DEF LongLine

\* A head is given up when it has become too long: io.rs, read_until_double_crlf.
LEMMA FailsOnHead ==
  ASSUME Sure, HeadTooLarge, msg.sound PROVE Len(msg.head) > HeadMax
<1> USE DEF Sure, IInv
<1>1. Found = {} /\ Mark = CRLF \o CRLF /\ Len(Mark) = 4 /\ pos = 0 /\ Len(leftover) > HeadMax
  BY Marks DEF HeadTooLarge, Mark, Followed, Placed
<1>2. /\ got \in Nat /\ HeadMax \in Nat /\ HeadEnd \in Nat /\ Len(leftover) = got - pos
  BY FramingAssumption, Texts, Parts DEF Types
<1> DEFINE n == HeadEnd - 4
<1>3. n \in Nat /\ Sits(stream, n, Mark) /\ n + 4 = HeadEnd
  BY <1>1, <1>2, HeadIs DEF Ends
<1> HIDE DEF n
<1>4. n \notin Found /\ pos + n = n
  BY <1>1, <1>3
<1>5. ~(n + 4 <= got)
  BY <1>1, <1>3, <1>4, FoundMeans
<1> QED BY <1>1, <1>2, <1>3, <1>5 DEF HeadEnd

\* Steps that take nothing and write nothing.
LEMMA StillSure ==
  ASSUME Sure, IInv',
         \/ More \/ HeadTooLarge \/ ReadFails \/ WriteFails \/ PeerEnds \/ DstLeaves
         \/ EndOfStream /\ at' = "failed"
  PROVE  Sure'
<1>1. /\ UNCHANGED <<op, msg, pos, need, part, body, out>>
      /\ at' # "done" /\ (at' = at \/ at' = "failed")
  BY DEF More, HeadTooLarge, ReadFails, WriteFails, PeerEnds, DstLeaves, EndOfStream, around,
         Starved, ByMark, Ended
<1>2. msg'.sound => Followed'
  BY <1>1, StillFollowed DEF Sure
<1>3. Exact'
  BY <1>1 DEF Exact
<1>4. FailsForCause'
  <2> SUFFICES ASSUME at' = "failed", msg.sound PROVE FailsForCause'
    BY <1>1 DEF FailsForCause
  <2>1. CASE More
    BY <2>1, FailsOnLine DEF FailsForCause
  <2>2. CASE HeadTooLarge
    BY <1>1, <2>2, FailsOnHead DEF FailsForCause
  <2>3. CASE EndOfStream \/ ReadFails
    BY <2>3, FailsInWaiting
  <2>4. CASE WriteFails
    BY <2>4 DEF WriteFails, around, FailsForCause
  <2>5. CASE PeerEnds \/ DstLeaves
    BY <2>5 DEF PeerEnds, DstLeaves, Ended
  <2> QED BY <2>1, <2>2, <2>3, <2>4, <2>5
<1> QED BY <1>1, <1>2, <1>3, <1>4 DEF Sure

\* The upstream ends: copy_fixed and copy_until_close return.
LEMMA EndSure ==
  ASSUME Sure, IInv', EndOfStream, at' = "done" PROVE Sure'
<1> USE SamePlaces DEF Sure
<1>1. /\ UNCHANGED <<op, msg, peer, dst, pos, got, need, part, body, out>>
      /\ at \in {"fixed", "close"} /\ peer = "closed" /\ leftover = <<>>
  BY DEF EndOfStream, around, Starved, ByMark
<1>2. msg.sound => op = "forward" /\ (framing = "close" \/ (framing = "length" /\ at = "fixed"))
  BY <1>1 DEF Followed, Placed
<1>3. pos = got
  <2>1. Len(leftover) = got - pos /\ Len(leftover) = 0 /\ pos \in Nat /\ got \in Nat
    BY <1>1, Texts DEF IInv, Types
  <2> QED BY <2>1
<1>4. ASSUME msg.sound PROVE Followed'
  <2>1. Placed' /\ Kept'
    BY <1>1, <1>4 DEF Followed, Placed, Kept
  <2>2. Copied'
    BY <1>1, <1>4 DEF Followed, Copied
  <2>3. Delivered'
    BY <1>1, <1>2, <1>3, <1>4 DEF Delivered
  <2> QED BY <2>1, <2>2, <2>3 DEF Followed
<1>5. Exact' /\ FailsForCause'
  BY <1>1, <1>2 DEF Exact, FailsForCause
<1> QED BY <1>1, <1>4, <1>5

\* The head is read up to its end, and the body is next.
LEMMA HeadSure ==
  ASSUME Sure, IInv', TakeHead PROVE Sure'
<1> USE SamePlaces DEF Sure, IInv
<1>1. /\ at = "head" /\ Found # {} /\ pos' = Past
      /\ need' = (IF framing = "length" THEN msg.cl ELSE 0)
      /\ UNCHANGED <<op, msg, peer, dst, got, part, body, out>>
  BY DEF TakeHead, around
<1>2. /\ op \in {"request", "discard", "forward"}
      /\ framing \in {"none", "chunked", "length", "close"}
      /\ framing = "close" => op = "forward"
      /\ framing = "none" => op # "forward"
  BY Framings DEF framing
<1>3. at' # "failed" =>
        /\ framing = "chunked" => at' = "size"
        /\ framing = "close" => at' = "close"
        /\ framing = "none" => at' = "done"
        /\ framing = "length" /\ op = "forward" => at' = "fixed"
        /\ framing = "length" /\ op # "forward" => at' = "exact"
  BY DEF TakeHead
<1> SUFFICES ASSUME msg.sound PROVE Followed' /\ Exact' /\ FailsForCause'
  BY <1>1 DEF Exact, FailsForCause
<1>4. part = <<>> /\ body = <<>> /\ out = <<>> /\ pos = 0
  BY <1>1 DEF Followed, Placed
<1>5. /\ HeadEnd \in Nat /\ HeadEnd <= FrameEnd /\ Len(msg.data) \in Nat
      /\ framing # "none" => FrameEnd = HeadEnd + Len(msg.body)
      /\ framing = "none" => FrameEnd = HeadEnd
  BY Parts
<1>6. pos' = HeadEnd
  <2>1. Mark = CRLF \o CRLF /\ Len(Mark) = 4
    BY <1>1, Marks DEF Mark
  <2>2. HeadEnd - 4 \in Nat /\ Ends(stream, pos, HeadEnd - 4, Mark)
    BY <1>4, <1>5, <2>1, HeadIs
  <2>3. Past = (HeadEnd - 4) + Len(Mark)
    BY <1>1, <2>2, LineIs
  <2> QED BY <1>1, <1>5, <2>1, <2>3
<1>7. framing = "length" => Len(msg.body) = msg.cl /\ msg.cl \in Nat /\ msg.data = msg.body
  BY Measured
<1>8. Len(<<>>) = 0
  OBVIOUS
<1>9. framing = "chunked" => AtSize'
  <2> SUFFICES ASSUME framing = "chunked" PROVE AtSize'
    OBVIOUS
  <2>1. PICK c \in msg.chunks : c.from = 0 /\ c.before = 0
    BY Chunked
  <2>2. pos' = HeadEnd + c.from
    BY <1>5, <1>6, <2>1
  <2>3. Len(body') = c.before /\ Copy(body', msg'.data, 0)
    BY <1>1, <1>4, <1>8, <2>1, Copies
  <2> QED BY <1>1, <2>2, <2>3 DEF AtSize, Collected
<1>10. Placed'
  <2>1. at' = "exact" => framing = "length" /\ AtLength'
    BY <1>1, <1>2, <1>3, <1>4, <1>5, <1>6, <1>7, <1>8 DEF AtLength
  <2>2. at' = "fixed" => framing = "length" /\ op = "forward" /\ pos' + need' = HeadEnd + msg.cl
    BY <1>1, <1>2, <1>3, <1>6
  <2>3. at' \notin {"head", "crlf", "trailer"}
    BY <1>2, <1>3
  <2>4. at' = "size" => framing = "chunked"
    BY <1>2, <1>3
  <2>5. at' = "close" => framing = "close"
    BY <1>2, <1>3
  <2> QED BY <1>1, <1>2, <1>9, <2>1, <2>2, <2>3, <2>4, <2>5 DEF Placed
<1>11. Kept'
  BY <1>1, <1>4, <1>5, <1>6, <1>8, Copies DEF Kept
<1>12. Copied'
  <2>1. at' # "head"
    BY <1>2, <1>3
  <2>2. pos' = HeadEnd + Len(out') + Len(part') /\ Len(out') = 0
    BY <1>1, <1>4, <1>5, <1>6, <1>8
  <2>3. Copy(out', stream', HeadEnd')
    BY <1>1, <1>4, Copies
  <2> QED BY <1>1, <1>5, <1>6, <2>1, <2>2, <2>3 DEF Copied
<1>13. at' = "done" => framing = "none"
  BY <1>2, <1>3
<1>14. Delivered'
  BY <1>1, <1>2, <1>13 DEF Delivered
<1>15. Exact'
  BY <1>1, <1>4, <1>5, <1>6, <1>13 DEF Exact
<1>16. at' = "failed" => ~Parsed \/ (framing = "length" /\ op = "request" /\ msg.cl > BodyMax)
  BY <1>2 DEF TakeHead
<1>17. ~Parsed => msg.headers > HeadersMax
  <2>1. msg \in Message /\ Sound(msg) /\ HeadersMax \in Nat
    BY FramingAssumption DEF Types
  <2>2. msg.headers \in Nat /\ msg.parses
    BY <2>1 DEF Message, Sound
  <2> QED BY <2>1, <2>2 DEF Parsed
<1>18. FailsForCause'
  BY <1>1, <1>7, <1>16, <1>17 DEF FailsForCause
<1> QED BY <1>10, <1>11, <1>12, <1>14, <1>15, <1>18 DEF Followed

\* Units are read, towards a length, a chunk or the end of the connection.
LEMMA TakeSure ==
  ASSUME Sure, IInv', Take PROVE Sure'
<1> USE SamePlaces
<1>1. PICK n \in HowMany :
        /\ pos' = pos + n
        /\ need' = IF at = "close" THEN 0 ELSE need - n
        /\ IF at = "exact" THEN part' = part \o SubSeq(stream, pos + 1, pos + n) /\ UNCHANGED out
           ELSE out' = out \o SubSeq(stream, pos + 1, pos + n) /\ UNCHANGED part
  BY DEF Take
<1>2. UNCHANGED <<op, msg, peer, dst, at, body>> /\ at \in {"exact", "fixed", "close"}
  BY DEF Take, around
<1>3. n \in Nat /\ pos + n <= Len(stream) /\ (at # "close" => n <= need)
  BY Amount DEF Sure, IInv
<1> SUFFICES ASSUME msg.sound PROVE Followed'
  BY <1>2 DEF Sure, Exact, FailsForCause
<1>4. Placed /\ Kept /\ Copied /\ Types /\ (msg.connect => op = "request")
  BY DEF Sure, IInv, Followed
<1>5. /\ pos \in Nat /\ need \in Nat /\ part \in Seq(Units) /\ out \in Seq(Units)
      /\ stream \in Seq(Units) /\ HeadEnd \in Nat /\ FrameEnd \in Nat
      /\ Len(part) \in Nat /\ Len(out) \in Nat
  BY <1>4, Parts, LenProperties DEF Types
<1>6. /\ at = "exact" => \/ framing = "chunked" /\ AtData
                         \/ framing = "length" /\ AtLength
      /\ at = "fixed" => framing = "length" /\ op = "forward" /\ pos + need = HeadEnd + msg.cl
      /\ at = "close" => framing = "close" /\ op = "forward"
      /\ at # "exact" => part = <<>>
      /\ Len(part) <= pos /\ Copy(part, stream, pos - Len(part))
  BY <1>2, <1>4 DEF Placed, Kept
<1>7. op = "forward" => pos = HeadEnd + Len(out) + Len(part) /\ Copy(out, stream, HeadEnd)
  BY <1>2, <1>4 DEF Copied
<1> DEFINE u == SubSeq(stream, pos + 1, pos + n)
<1>8. u \in Seq(Units) /\ Len(u) = n /\ Copy(u, stream, pos)
  <2> DEFINE g == pos + n
  <2>1. g \in Nat /\ pos <= g /\ g <= Len(stream) /\ g - pos = n
    BY <1>3, <1>5
  <2> HIDE DEF g
  <2>2. /\ SubSeq(stream, pos + 1, g) \in Seq(Units) /\ Len(SubSeq(stream, pos + 1, g)) = g - pos
        /\ Copy(SubSeq(stream, pos + 1, g), stream, pos)
    BY <1>5, <2>1, Copies
  <2>3. u = SubSeq(stream, pos + 1, g)
    BY DEF g
  <2> HIDE DEF u
  <2> QED BY <2>1, <2>2, <2>3
<1> HIDE DEF u
<1>9. /\ pos' = pos + n
      /\ at # "close" => need' = need - n
      /\ at = "exact" => part' = part \o u /\ out' = out
      /\ at # "exact" => out' = out \o u /\ part' = part
  BY <1>1 DEF u
<1>10. at # "close" => pos + need <= FrameEnd
  <2>1. ASSUME framing = "chunked", AtData PROVE pos + need <= FrameEnd
    <3>1. PICK c \in msg.chunks : c.size # 0 /\ pos = Data(c) + Len(part) /\ need = c.size - Len(part)
      BY <2>1 DEF AtData
    <3>2. Data(c) \in Nat /\ c.size \in Nat /\ Data(c) + c.size + 2 <= FrameEnd
      BY <1>4, <2>1, <3>1, ChunkLine, ChunkData
    <3> DEFINE d == Data(c)
               z == c.size
    <3>3. d \in Nat /\ z \in Nat /\ d + z + 2 <= FrameEnd /\ pos = d + Len(part) /\ need = z - Len(part)
      BY <3>1, <3>2
    <3> HIDE DEF d, z
    <3> QED BY <1>5, <3>3, SMTT(30)
  <2>2. framing = "length" => msg.cl \in Nat /\ FrameEnd = HeadEnd + msg.cl
    BY <1>4, Measured, Parts
  <2>3. ASSUME framing = "length", AtLength PROVE pos + need <= FrameEnd
    <3>1. pos = HeadEnd + Len(part) /\ need = msg.cl - Len(part)
      BY <2>3 DEF AtLength
    <3> QED BY <1>5, <2>2, <2>3, <3>1, SMTT(30)
  <2>4. ASSUME at = "fixed" PROVE pos + need <= FrameEnd
    <3>1. framing = "length" /\ pos + need = HeadEnd + msg.cl
      BY <1>6, <2>4
    <3>2. pos + need = FrameEnd
      BY <2>2, <3>1
    <3> QED BY <1>5, <3>2
  <2> QED BY <1>2, <1>6, <2>1, <2>3, <2>4
<1>11. \A a \in Seq(Units), e \in Nat :
          Copy(a, stream, e) /\ Copy(u, stream, e + Len(a)) =>
              Len(a \o u) = Len(a) + Len(u) /\ Copy(a \o u, stream, e)
  BY <1>8, Joined
<1>12. ASSUME at = "exact"
       PROVE  Len(part') = Len(part) + n /\ Len(part') <= pos' /\ Copy(part', stream, pos' - Len(part'))
  <2> DEFINE e == pos - Len(part)
  <2>1. Copy(part, stream, e) /\ e \in Nat /\ e + Len(part) = pos
    BY <1>5, <1>6
  <2> HIDE DEF e
  <2>2. Copy(u, stream, e + Len(part))
    BY <1>8, <2>1
  <2>3. Len(part \o u) = Len(part) + Len(u) /\ Copy(part \o u, stream, e)
    BY <1>5, <1>8, <1>11, <2>1, <2>2, Zenon
  <2>4. Len(part') = Len(part) + n
    BY <1>8, <1>9, <1>12, <2>3
  <2>5. pos' - Len(part') = e /\ Len(part') <= pos'
    <3>1. pos' = pos + n
      BY <1>9
    <3> QED BY <1>3, <1>5, <2>1, <2>4, <3>1, SMTT(30)
  <2> QED BY <1>9, <1>12, <2>3, <2>4, <2>5
<1>13. ASSUME at # "exact"
       PROVE  Len(out') = Len(out) + n /\ Copy(out', stream, HeadEnd)
  <2>1. pos = HeadEnd + Len(out) /\ Copy(out, stream, HeadEnd)
    <3>1. Len(part) = 0 /\ op = "forward"
      BY <1>2, <1>6, <1>13
    <3> QED BY <1>5, <1>7, <3>1
  <2>2. Len(out \o u) = Len(out) + Len(u) /\ Copy(out \o u, stream, HeadEnd)
    <3>1. Copy(u, stream, HeadEnd + Len(out))
      BY <1>8, <2>1, Zenon
    <3> QED BY <1>5, <1>8, <1>11, <2>1, <3>1, Zenon
  <2> QED BY <1>8, <1>9, <1>13, <2>2
<1>14. Placed'
  <2>1. ASSUME at = "exact", framing = "chunked", AtData PROVE AtData'
    <3>1. PICK c \in msg.chunks :
             /\ c.size # 0
             /\ pos = Data(c) + Len(part) /\ need = c.size - Len(part)
             /\ Collected(c.before)
      BY <2>1 DEF AtData
    <3>2. Data(c) \in Nat /\ c.size \in Nat
      BY <1>4, <2>1, <3>1, ChunkLine, ChunkData
    <3>3. pos' = Data(c) + Len(part') /\ need' = c.size - Len(part')
      <4>1. pos' = pos + n /\ need' = need - n /\ Len(part') = Len(part) + n
        BY <1>9, <1>12, <2>1
      <4> DEFINE d == Data(c)
                 z == c.size
      <4>2. d \in Nat /\ z \in Nat /\ pos = d + Len(part) /\ need = z - Len(part)
        BY <3>1, <3>2
      <4> HIDE DEF d, z
      <4>3. pos' = d + Len(part') /\ need' = z - Len(part')
        BY <1>3, <1>5, <4>1, <4>2
      <4> QED BY <4>3 DEF d, z
    <3>4. Collected(c.before)'
      BY <1>2, <3>1 DEF Collected
    <3> QED BY <1>2, <3>1, <3>3, <3>4 DEF AtData
  <2>2. ASSUME at = "exact", framing = "length", AtLength PROVE AtLength'
    <3>1. op # "forward" /\ body = <<>> /\ pos = HeadEnd + Len(part) /\ need = msg.cl - Len(part)
      BY <2>2 DEF AtLength
    <3>2. msg.cl \in Nat
      BY <1>4, <2>2, Measured
    <3>3. pos' = HeadEnd + Len(part') /\ need' = msg.cl - Len(part')
      <4>1. pos' = pos + n /\ need' = need - n /\ Len(part') = Len(part) + n
        BY <1>9, <1>12, <2>2
      <4> QED BY <1>3, <1>5, <3>1, <3>2, <4>1, SMTT(30)
    <3> QED BY <1>2, <3>1, <3>3 DEF AtLength
  <2>3. ASSUME at = "fixed" PROVE pos' + need' = HeadEnd + msg.cl
    <3>1. pos + need = HeadEnd + msg.cl /\ need' = need - n
      BY <1>6, <1>9, <2>3
    <3>2. pos' + need' = pos + need
      BY <1>3, <1>5, <1>9, <3>1
    <3> QED BY <3>1, <3>2
  <2> QED BY <1>2, <1>6, <2>1, <2>2, <2>3 DEF Placed
<1>15. Kept'
  <2>1. CASE at = "exact"
    BY <1>2, <1>12, <2>1 DEF Kept
  <2>2. CASE at # "exact"
    <3>1. part' = <<>> /\ Len(part') = 0 /\ pos' \in Nat
      BY <1>3, <1>5, <1>6, <1>9, <2>2
    <3> QED BY <1>2, <3>1, Copies DEF Kept
  <2> QED BY <2>1, <2>2
<1>16. Copied'
  <2> SUFFICES ASSUME op = "forward" PROVE Copied'
    BY <1>2 DEF Copied
  <2>1. framing # "close" => pos' <= FrameEnd
    <3>1. framing # "close" => at # "close"
      BY <1>6
    <3> QED BY <1>3, <1>5, <1>9, <1>10, <3>1
  <2>2. pos' = HeadEnd + Len(out') + Len(part')
    <3>1. CASE at = "exact"
      <4>1. Len(part') = Len(part) + n /\ Len(out') = Len(out)
        BY <1>9, <1>12, <3>1
      <4> QED BY <1>3, <1>5, <1>7, <1>9, <4>1
    <3>2. CASE at # "exact"
      <4>1. Len(out') = Len(out) + n /\ Len(part') = Len(part)
        BY <1>9, <1>13, <3>2
      <4> QED BY <1>3, <1>5, <1>7, <1>9, <4>1
    <3> QED BY <3>1, <3>2
  <2>3. Copy(out', stream, HeadEnd)
    BY <1>7, <1>9, <1>13
  <2> QED BY <1>2, <2>1, <2>2, <2>3 DEF Copied
<1>17. Delivered'
  BY <1>2 DEF Delivered
<1> QED BY <1>14, <1>15, <1>16, <1>17 DEF Followed

\* A chunk is complete: its data is the next part of the data.
LEMMA CollectChunk ==
  ASSUME Types, msg.sound, msg.connect => op = "request", framing = "chunked",
         NEW c \in msg.chunks, c.size # 0, pos = Data(c) + Len(part), Len(part) = c.size,
         Copy(part, stream, pos - Len(part)), Len(body) = c.before, Copy(body, msg.data, 0)
  PROVE  Len(body \o part) = c.before + c.size /\ Copy(body \o part, msg.data, 0)
<1> DEFINE d    == Data(c)
           z    == c.size
           bef  == c.before
           data == msg.data
<1>1. d \in Nat /\ z \in Nat /\ bef \in Nat /\ \A k \in 1 .. z : stream[d + k] = data[bef + k]
  BY ChunkLine, ChunkData
<1>2. pos = d + z /\ Len(part) = z /\ Len(body) = bef /\ part \in Seq(Units) /\ body \in Seq(Units)
  BY DEF Types
<1>3. Copy(part, stream, pos - z) /\ Copy(body, data, 0)
  BY <1>2
<1> HIDE DEF d, z, bef, data
<1>4. pos - z = d /\ 0 + bef = bef
  BY <1>1, <1>2
<1>5. Copy(part, data, 0 + Len(body))
  <2>1. \A k \in 1 .. z : part[k] = stream[d + k]
    BY <1>2, <1>3, <1>4 DEF Copy
  <2>2. \A k \in 1 .. z : part[k] = data[bef + k]
    BY <1>1, <2>1
  <2> QED BY <1>2, <1>4, <2>2 DEF Copy
<1>6. Len(body \o part) = bef + z /\ Copy(body \o part, data, 0)
  BY <1>2, <1>3, <1>5, Joined
<1> QED BY <1>6 DEF bef, z, data

\* A length or a chunk is complete.
LEMMA TakenSure ==
  ASSUME Sure, IInv', Taken PROVE Sure'
<1> USE SamePlaces
<1>1. /\ at \in {"exact", "fixed"} /\ need = 0 /\ part' = <<>>
      /\ at' = (IF framing = "chunked" THEN "crlf" ELSE "done")
      /\ UNCHANGED <<op, msg, peer, dst, pos, got, need>>
      /\ op = "forward" => out' = out \o part /\ body' = body
      /\ op # "forward" => body' = body \o part /\ out' = out
  BY DEF Taken, around
<1> SUFFICES ASSUME msg.sound PROVE Followed' /\ Exact'
  BY <1>1 DEF Sure, Exact, FailsForCause
<1>2. Placed /\ Kept /\ Copied /\ Types /\ (msg.connect => op = "request")
  BY DEF Sure, IInv, Followed
<1>3. /\ pos \in Nat /\ part \in Seq(Units) /\ out \in Seq(Units) /\ body \in Seq(Units)
      /\ HeadEnd \in Nat /\ FrameEnd \in Nat /\ Len(part) \in Nat /\ Len(out) \in Nat
  BY <1>2, Parts, LenProperties DEF Types
<1>4. /\ at = "exact" => \/ framing = "chunked" /\ AtData
                         \/ framing = "length" /\ AtLength
      /\ at = "fixed" => framing = "length" /\ op = "forward" /\ pos + need = HeadEnd + msg.cl
      /\ at # "exact" => part = <<>>
      /\ Len(part) <= pos /\ Copy(part, stream, pos - Len(part))
  BY <1>1, <1>2 DEF Placed, Kept
<1>5. op = "forward" => /\ pos = HeadEnd + Len(out) + Len(part) /\ Copy(out, stream, HeadEnd)
                        /\ framing # "close" => pos <= FrameEnd
  BY <1>1, <1>2 DEF Copied
<1>6. Kept'
  <2>1. Len(part') = 0 /\ pos' \in Nat
    BY <1>1, <1>3
  <2> QED BY <1>1, <2>1, Copies DEF Kept
<1>7. Copied'
  <2> SUFFICES ASSUME op = "forward" PROVE Copied'
    BY <1>1 DEF Copied
  <2>1. Copy(part, stream, HeadEnd + Len(out))
    <3>1. pos - Len(part) = HeadEnd + Len(out)
      BY <1>3, <1>5
    <3> QED BY <1>4, <3>1
  <2>2. Len(out \o part) = Len(out) + Len(part) /\ Copy(out \o part, stream, HeadEnd)
    BY <1>3, <1>5, <2>1, Joined
  <2>3. Len(out') = Len(out) + Len(part) /\ Len(part') = 0 /\ Copy(out', stream, HeadEnd)
    BY <1>1, <2>2
  <2>4. pos' = HeadEnd + Len(out') + Len(part')
    <3>1. pos' = pos
      BY <1>1
    <3> QED BY <1>3, <1>5, <2>3, <3>1
  <2>5. framing # "close" => pos' <= FrameEnd
    BY <1>1, <1>5
  <2> QED BY <1>1, <2>3, <2>4, <2>5 DEF Copied
<1>8. CASE framing = "chunked"
  <2>1. at' = "crlf" /\ at = "exact" /\ AtData
    BY <1>1, <1>4, <1>8
  <2>2. PICK c \in msg.chunks :
          /\ c.size # 0
          /\ pos = Data(c) + Len(part) /\ need = c.size - Len(part)
          /\ Collected(c.before)
    BY <2>1 DEF AtData
  <2>3. Data(c) \in Nat /\ c.size \in Nat
    BY <1>2, <1>8, <2>2, ChunkLine, ChunkData
  <2>4. Len(part) = c.size
    <3> DEFINE z == c.size
    <3>1. z \in Nat /\ need = z - Len(part) /\ need = 0
      BY <1>1, <2>2, <2>3
    <3> HIDE DEF z
    <3>2. Len(part) = z
      BY <1>3, <3>1
    <3> QED BY <3>2 DEF z
  <2>5. pos' = Data(c) + c.size
    BY <1>1, <2>2, <2>4
  <2>6. Collected(c.before + c.size)'
    <3> SUFFICES ASSUME op # "forward"
                 PROVE  Len(body') = c.before + c.size /\ Copy(body', msg.data, 0)
      BY <1>1 DEF Collected
    <3>1. Len(body) = c.before /\ Copy(body, msg.data, 0)
      BY <2>2 DEF Collected
    <3>2. Len(body \o part) = c.before + c.size /\ Copy(body \o part, msg.data, 0)
      BY <1>2, <1>4, <1>8, <2>2, <2>4, <3>1, CollectChunk
    <3> QED BY <1>1, <3>2
  <2>7. AtCrlf'
    BY <1>1, <2>2, <2>5, <2>6 DEF AtCrlf
  <2>8. Placed' /\ Delivered' /\ Exact'
    BY <1>1, <1>8, <2>1, <2>7 DEF Placed, Delivered, Exact
  <2> QED BY <1>6, <1>7, <2>8 DEF Followed
<1>9. CASE framing # "chunked"
  <2>1. at' = "done" /\ framing = "length"
    BY <1>1, <1>4, <1>9
  <2>2. /\ msg.data = msg.body /\ Len(msg.body) = msg.cl /\ msg.cl \in Nat
        /\ FrameEnd = HeadEnd + Len(msg.body) /\ msg.body \in Seq(Units)
    BY <1>2, <2>1, Measured, Parts
  <2>3. CASE op = "forward"
    <3>1. pos' = FrameEnd
      <4>1. at = "fixed" /\ pos + need = HeadEnd + msg.cl
        BY <1>1, <1>4, <2>1, <2>3 DEF AtLength
      <4> QED BY <1>1, <1>3, <2>2, <4>1
    <3>2. Placed' /\ Delivered' /\ Exact'
      BY <1>1, <2>1, <2>3, <3>1 DEF Placed, Delivered, Exact
    <3> QED BY <1>6, <1>7, <3>2 DEF Followed
  <2>4. CASE op # "forward"
    <3>1. at = "exact" /\ body = <<>> /\ pos = HeadEnd + Len(part) /\ need = msg.cl - Len(part)
      BY <1>1, <1>4, <2>1, <2>4 DEF AtLength
    <3>2. Len(part) = msg.cl
      BY <1>1, <1>3, <2>2, <3>1
    <3>3. pos' = FrameEnd
      BY <1>1, <2>2, <3>1, <3>2
    <3>4. part = msg.body
      <4>1. pos - Len(part) = HeadEnd
        BY <1>3, <3>1
      <4>2. \A k \in 1 .. Len(part) : part[k] = stream[HeadEnd + k]
        BY <1>4, <4>1 DEF Copy
      <4>3. \A k \in 1 .. Len(msg.body) : stream[HeadEnd + k] = msg.body[k]
        BY <1>2, Parts
      <4>4. \A k \in 1 .. Len(part) : part[k] = msg.body[k]
        BY <2>2, <3>2, <4>2, <4>3
      <4> QED BY <1>3, <2>2, <3>2, <4>4, SeqEqual
    <3>5. body' = msg.data
      BY <1>1, <1>3, <2>2, <2>4, <3>1, <3>4, ConcatEmptySeq
    <3>6. Exact'
      <4>1. FrameEnd - 0 = FrameEnd
        BY <1>3
      <4> QED BY <1>1, <2>1, <3>3, <3>5, <4>1 DEF Exact
    <3>7. Placed' /\ Delivered'
      BY <1>1, <2>1, <2>4 DEF Placed, Delivered
    <3> QED BY <1>6, <1>7, <3>6, <3>7 DEF Followed
  <2> QED BY <2>3, <2>4
<1> QED BY <1>8, <1>9

\* A line end is read behind a copy of what comes before it.
LEMMA EndWritten ==
  ASSUME NEW text \in Seq(Units), NEW a \in Seq(Units), NEW e \in Nat, NEW n \in Nat,
         Copy(a, text, e), n = e + Len(a), Sits(text, n, CRLF)
  PROVE  /\ a \o CRLF \in Seq(Units)
         /\ n + 2 = e + Len(a \o CRLF) /\ Copy(a \o CRLF, text, e)
<1>1. CRLF \in Seq(Units) /\ Len(CRLF) = 2 /\ \A k \in 1 .. Len(CRLF) : text[n + k] = CRLF[k]
  BY SitsMeans, Marks
<1> HIDE DEF CRLF
<1>2. Copy(CRLF, text, e + Len(a)) /\ Len(a) \in Nat
  BY <1>1, LenProperties DEF Copy
<1>3. a \o CRLF \in Seq(Units) /\ Len(a \o CRLF) = Len(a) + Len(CRLF) /\ Copy(a \o CRLF, text, e)
  BY <1>1, <1>2, Joined
<1> QED BY <1>1, <1>2, <1>3

\* A line is read, with its end, behind a copy of what comes before it.
LEMMA LineWritten ==
  ASSUME NEW text \in Seq(Units), NEW a \in Seq(Units), NEW e \in Nat,
         NEW p \in Nat, NEW n \in Nat, p <= n, n <= Len(text),
         Copy(a, text, e), p = e + Len(a), Sits(text, n, CRLF)
  PROVE  LET all == a \o SubSeq(text, p + 1, n) \o CRLF
         IN  all \in Seq(Units) /\ n + 2 = e + Len(all) /\ Copy(all, text, e)
<1> DEFINE u == SubSeq(text, p + 1, n)
<1>1. u \in Seq(Units) /\ Len(u) = n - p /\ Copy(u, text, p)
  BY Copies
<1> HIDE DEF u
<1>2. a \o u \in Seq(Units) /\ Len(a \o u) = Len(a) + Len(u) /\ Copy(a \o u, text, e)
  BY <1>1, Joined
<1>3. Len(a) \in Nat
  BY LenProperties
<1>4. n = e + Len(a \o u)
  BY <1>1, <1>2, <1>3
<1> DEFINE z == a \o u
<1>5. z \in Seq(Units) /\ Copy(z, text, e) /\ n = e + Len(z)
  BY <1>2, <1>4
<1> HIDE DEF z
<1>6. z \o CRLF \in Seq(Units) /\ n + 2 = e + Len(z \o CRLF) /\ Copy(z \o CRLF, text, e)
  BY <1>5, EndWritten
<1> QED BY <1>6 DEF u, z

\* A line that ends in the message is read, and written.
LEMMA LineTaken ==
  ASSUME Sure, msg.sound, TakeSize \/ TakeCrlf \/ TakeTrailer,
         NEW n \in Nat, Ends(stream, pos, n, CRLF), n + 2 <= FrameEnd,
         TakeCrlf => n = pos
  PROVE  /\ pos' = n + 2 /\ Line = SubSeq(stream, pos + 1, n)
         /\ Kept' /\ Copied'
<1> USE SamePlaces
<1>1. /\ at \in {"size", "crlf", "trailer"} /\ at' # "head" /\ Found # {} /\ pos' = Past
      /\ UNCHANGED <<op, msg, part>>
      /\ op = "forward" => IF TakeCrlf THEN out' = out \o CRLF ELSE out' = out \o Line \o CRLF
  <2>1. CASE TakeSize
    BY <2>1 DEF TakeSize, TakeCrlf, around
  <2>2. CASE TakeCrlf
    BY <2>2 DEF TakeCrlf, around
  <2>3. CASE TakeTrailer
    BY <2>3 DEF TakeTrailer, TakeCrlf, around
  <2> QED BY <2>1, <2>2, <2>3
<1>2. Placed /\ Kept /\ Copied /\ Types
  BY DEF Sure, IInv, Followed
<1>3. /\ pos \in Nat /\ out \in Seq(Units) /\ stream \in Seq(Units) /\ HeadEnd \in Nat
      /\ FrameEnd \in Nat /\ FrameEnd <= Len(stream) /\ Len(out) \in Nat /\ Len(stream) \in Nat
  BY <1>2, Parts, LenProperties DEF Types
<1>4. Mark = CRLF /\ Len(Mark) = 2
  BY <1>1, Marks DEF Mark
<1>5. Past = n + 2 /\ Line = SubSeq(stream, pos + 1, n)
  BY <1>1, <1>2, <1>4, LineIs
<1>6. part = <<>> /\ part' = <<>> /\ Len(<<>>) = 0
  BY <1>1, <1>2 DEF Kept
<1>7. pos <= n /\ Sits(stream, n, CRLF)
  BY DEF Ends
<1>8. Kept'
  <2>1. Len(part') = 0 /\ pos' \in Nat
    BY <1>1, <1>5, <1>6
  <2> QED BY <1>6, <2>1, Copies DEF Kept
<1>9. Copied'
  <2> SUFFICES ASSUME op = "forward" PROVE Copied'
    BY <1>1 DEF Copied
  <2>1. pos = HeadEnd + Len(out) /\ Copy(out, stream, HeadEnd)
    <3>1. pos = HeadEnd + Len(out) + Len(part) /\ Len(part) = 0 /\ Copy(out, stream, HeadEnd)
      BY <1>1, <1>2, <1>6 DEF Copied
    <3> QED BY <1>3, <3>1
  <2>2. out' \in Seq(Units) /\ n + 2 = HeadEnd + Len(out') /\ Copy(out', stream, HeadEnd)
    <3>1. CASE TakeCrlf
      <4>1. out' = out \o CRLF /\ n = pos
        BY <1>1, <3>1
      <4>2. /\ out \o CRLF \in Seq(Units)
            /\ n + 2 = HeadEnd + Len(out \o CRLF) /\ Copy(out \o CRLF, stream, HeadEnd)
        BY <1>3, <1>7, <2>1, <4>1, EndWritten
      <4> QED BY <4>1, <4>2
    <3>2. CASE ~TakeCrlf
      <4>1. out' = out \o SubSeq(stream, pos + 1, n) \o CRLF
        BY <1>1, <1>5, <3>2
      <4>2. n <= Len(stream)
        BY <1>3
      <4>3. /\ out \o SubSeq(stream, pos + 1, n) \o CRLF \in Seq(Units)
            /\ n + 2 = HeadEnd + Len(out \o SubSeq(stream, pos + 1, n) \o CRLF)
            /\ Copy(out \o SubSeq(stream, pos + 1, n) \o CRLF, stream, HeadEnd)
        <5>1. \A x \in Seq(Units) :
                 Copy(x, stream, HeadEnd) /\ pos = HeadEnd + Len(x) =>
                     LET all == x \o SubSeq(stream, pos + 1, n) \o CRLF
                     IN  all \in Seq(Units) /\ n + 2 = HeadEnd + Len(all) /\ Copy(all, stream, HeadEnd)
          BY <1>3, <1>7, <4>2, LineWritten
        <5> QED BY <1>3, <2>1, <5>1, Zenon
      <4> QED BY <4>1, <4>3
    <3> QED BY <3>1, <3>2
  <2>3. pos' = HeadEnd + Len(out') + Len(part') /\ pos' <= FrameEnd
    <3>1. pos' = HeadEnd + Len(out') /\ Len(part') = 0
      BY <1>1, <1>5, <1>6, <2>2
    <3>2. Len(out') \in Nat
      BY <2>2, LenProperties
    <3> QED BY <1>3, <1>5, <1>1, <3>1, <3>2
  <2> QED BY <1>1, <2>2, <2>3 DEF Copied
<1> QED BY <1>1, <1>5, <1>8, <1>9

\* The line end behind a chunk is read: the next line of a size follows.
LEMMA CrlfSure ==
  ASSUME Sure, IInv', TakeCrlf PROVE Sure'
<1> USE SamePlaces
<1>1. at = "crlf" /\ at' = "size" /\ UNCHANGED <<op, msg, body>>
  BY DEF TakeCrlf, around
<1> SUFFICES ASSUME msg.sound PROVE Followed'
  BY <1>1 DEF Sure, Exact, FailsForCause
<1>2. framing = "chunked" /\ AtCrlf /\ Types /\ (msg.connect => op = "request")
  BY <1>1 DEF Sure, IInv, Followed, Placed
<1>3. PICK c \in msg.chunks : c.size # 0 /\ pos = Data(c) + c.size /\ Collected(c.before + c.size)
  BY <1>2 DEF AtCrlf
<1>4. Data(c) + c.size + 2 <= FrameEnd /\ Sits(stream, Data(c) + c.size, CRLF)
  BY <1>2, <1>3, ChunkData
<1>5. pos \in Nat /\ pos + 2 <= FrameEnd /\ Sits(stream, pos, CRLF)
  BY <1>2, <1>3, <1>4 DEF Types
<1>6. Ends(stream, pos, pos, CRLF)
  BY <1>5 DEF Ends
<1>7. pos' = pos + 2 /\ Kept' /\ Copied'
  BY <1>5, <1>6, LineTaken
<1>8. AtSize'
  <2>1. PICK d \in msg.chunks : HeadEnd + d.from = Data(c) + c.size + 2 /\ d.before = c.before + c.size
    BY <1>2, <1>3, ChunkData
  <2>2. pos' = HeadEnd + d.from /\ Collected(d.before)
    BY <1>3, <1>7, <2>1
  <2> QED BY <1>1, <2>2 DEF AtSize, Collected
<1>9. Placed' /\ Delivered'
  BY <1>1, <1>2, <1>8 DEF Placed, Delivered
<1> QED BY <1>7, <1>9 DEF Followed

\* The line of a size is read: the data of its chunk follows, or the trailer.
LEMMA SizeSure ==
  ASSUME Sure, IInv', TakeSize PROVE Sure'
<1> USE SamePlaces
<1>1. /\ at = "size" /\ UNCHANGED <<op, msg, peer, dst, got, part, body>>
      /\ need' = Max({SizeOf(Line), 0})
      /\ at' = CASE SizeOf(Line) = BadLength -> "failed"
                 [] SizeOf(Line) = 0 -> "trailer"
                 [] OTHER -> IF op # "forward" /\ Len(body) + SizeOf(Line) > BodyMax THEN "failed"
                             ELSE "exact"
  BY DEF TakeSize, around
<1>2. at' # "done"
  BY <1>1
<1> SUFFICES ASSUME msg.sound PROVE Followed' /\ FailsForCause'
  BY <1>1, <1>2 DEF Sure, Exact, FailsForCause
<1>3. framing = "chunked" /\ AtSize /\ Types /\ Kept /\ (msg.connect => op = "request")
  BY <1>1 DEF Sure, IInv, Followed, Placed
<1>4. PICK c \in msg.chunks : pos = HeadEnd + c.from /\ Collected(c.before)
  BY <1>3 DEF AtSize
<1>5. /\ c \in Chunk /\ Data(c) \in Nat /\ Data(c) <= FrameEnd /\ Data(c) - 2 \in Nat
      /\ Ends(stream, pos, Data(c) - 2, CRLF)
      /\ SizeOf(SubSeq(stream, pos + 1, Data(c) - 2)) = c.size
  BY <1>3, <1>4, ChunkLine
<1>6. c.size \in Nat
  BY <1>5 DEF Chunk
<1>7. pos' = Data(c) /\ SizeOf(Line) = c.size /\ Kept' /\ Copied'
  <2> DEFINE n == Data(c) - 2
  <2>1. n \in Nat /\ n + 2 = Data(c) /\ n + 2 <= FrameEnd /\ Ends(stream, pos, n, CRLF)
    BY <1>5
  <2>2. SizeOf(SubSeq(stream, pos + 1, n)) = c.size
    BY <1>5
  <2>3. ~TakeCrlf
    BY <1>1 DEF TakeCrlf
  <2> HIDE DEF n
  <2>4. pos' = n + 2 /\ Line = SubSeq(stream, pos + 1, n) /\ Kept' /\ Copied'
    BY <2>1, <2>3, LineTaken
  <2> QED BY <2>1, <2>2, <2>4
<1>8. need' = c.size
  <2> DEFINE z == c.size
  <2>1. z \in Nat /\ need' = Max({z, 0})
    BY <1>1, <1>6, <1>7
  <2> HIDE DEF z
  <2>2. Max({z, 0}) = IF z >= 0 THEN z ELSE 0
    BY <2>1, MinMaxOfTwo, SMTT(30)
  <2>3. need' = z
    BY <2>1, <2>2
  <2> QED BY <2>3 DEF z
<1>9. part = <<>> /\ part' = <<>>
  BY <1>1, <1>3 DEF Kept
<1>10. CASE c.size = 0
  <2>1. at' = "trailer"
    BY <1>1, <1>7, <1>10 DEF BadLength
  <2>2. AtTrailer'
    <3>1. InTrailer(Data(c))
      BY <1>3, <1>10, TrailerIs
    <3>2. InTrailer(pos)'
      BY <1>1, <1>7, <3>1 DEF InTrailer
    <3>3. Collected(c.before)' /\ Data(c)' = Data(c)
      BY <1>1, <1>4 DEF Collected
    <3> QED BY <1>1, <1>7, <1>10, <3>2, <3>3 DEF AtTrailer
  <2>3. Placed' /\ Delivered' /\ FailsForCause'
    BY <1>1, <1>3, <2>1, <2>2 DEF Placed, Delivered, FailsForCause
  <2> QED BY <1>7, <2>3 DEF Followed
<1>11. CASE c.size # 0
  <2>1. at' = IF op # "forward" /\ Len(body) + c.size > BodyMax THEN "failed" ELSE "exact"
    <3>1. c.size # BadLength
      BY <1>6 DEF BadLength
    <3> QED BY <1>1, <1>7, <1>11, <3>1
  <2>2. CASE at' = "exact"
    <3>1. pos' = Data(c) + Len(part') /\ need' = c.size - Len(part')
      <4>1. Len(part') = 0
        BY <1>9
      <4> QED BY <1>5, <1>6, <1>7, <1>8, <4>1
    <3>2. AtData'
      BY <1>1, <1>4, <1>11, <3>1 DEF AtData, Collected
    <3>3. Placed' /\ Delivered' /\ FailsForCause'
      BY <1>1, <1>3, <2>2, <3>2 DEF Placed, Delivered, FailsForCause
    <3> QED BY <1>7, <3>3 DEF Followed
  <2>3. CASE at' = "failed"
    <3>1. op # "forward" /\ Len(body) + c.size > BodyMax
      BY <2>1, <2>3
    <3>2. Len(body) = c.before
      BY <1>4, <3>1 DEF Collected
    <3>3. c.before + c.size <= Len(msg.data)
      BY <1>3, <1>11, ChunkData
    <3>4. Len(msg.data) > BodyMax
      <4> DEFINE sum == c.before + c.size
                 all == Len(msg.data)
      <4>1. sum \in Nat /\ all \in Nat /\ BodyMax \in Nat
        <5>1. c.before \in Nat
          BY <1>5 DEF Chunk
        <5>2. sum \in Nat
          BY <1>6, <5>1
        <5> HIDE DEF sum
        <5> QED BY <1>3, <5>2, Parts, FramingAssumption
      <4>2. sum > BodyMax /\ sum <= all
        BY <3>1, <3>2, <3>3
      <4> HIDE DEF sum, all
      <4>3. all > BodyMax
        BY <4>1, <4>2
      <4> QED BY <4>3 DEF all
    <3>5. Placed' /\ Delivered' /\ FailsForCause'
      BY <1>1, <2>3, <3>1, <3>4 DEF Placed, Delivered, FailsForCause
    <3> QED BY <1>7, <3>5 DEF Followed
  <2> QED BY <2>1, <2>2, <2>3
<1> QED BY <1>10, <1>11

\* The places where a line of a trailer may end: the last line is empty, behind
\* any other another one begins.
LEMMA NextOfTrailer ==
  ASSUME Types, NEW p \in Nat, NEW n \in Nat, InTrailer(p), Ends(stream, p, n, CRLF)
  PROVE  /\ n + 2 <= FrameEnd
         /\ n = p => n + 2 = FrameEnd
         /\ n # p => InTrailer(n + 2)
<1> DEFINE F == FrameEnd
           z == n + 2
<1>1. F \in Nat /\ stream \in Seq(Units)
  BY Parts
<1>2. /\ p <= n /\ Sits(stream, n, CRLF) /\ \A j \in p .. n - 1 : ~Sits(stream, j, CRLF)
      /\ p + 2 <= F /\ Sits(stream, F - 2, CRLF)
      /\ Sits(stream, p, CRLF) => p = F - 2
      /\ p # F - 2 => p + 4 <= F /\ Sits(stream, F - 4, CRLF)
      /\ \A i \in p .. F - 5 : ~Sits(stream, i, CRLF \o CRLF)
  BY DEF Ends, InTrailer
<1> HIDE DEF F
<1>3. CASE n = p
  <2>1. n = F - 2
    BY <1>2, <1>3
  <2>2. n + 2 = F
    BY <1>1, <2>1
  <2> QED BY <1>3, <2>2 DEF F
<1>4. CASE n # p
  <2>1. p # F - 2
    <3> SUFFICES ASSUME p = F - 2 PROVE FALSE
      OBVIOUS
    <3>1. Sits(stream, p, CRLF) /\ p \in p .. n - 1
      BY <1>2, <1>4
    <3> QED BY <1>2, <3>1
  <2>2. p <= F - 4 /\ Sits(stream, F - 4, CRLF)
    BY <1>1, <1>2, <2>1
  <2>3. n <= F - 4
    <3> SUFFICES ASSUME F - 4 < n PROVE FALSE
      BY <1>1
    <3>1. F - 4 \in p .. n - 1
      BY <1>1, <2>2
    <3> QED BY <1>2, <2>2, <3>1
  <2>4. n # F - 5
    <3> SUFFICES ASSUME n = F - 5 PROVE FALSE
      OBVIOUS
    <3> DEFINE q == F - 4
    <3>1. q \in Nat /\ n + 2 = q + 1 /\ Sits(stream, q, CRLF)
      BY <1>1, <2>2
    <3> HIDE DEF q
    <3>2. stream[n + 2] = LF /\ stream[q + 1] = CR
      BY <1>1, <1>2, <3>1, LineEnd
    <3> QED BY <3>1, <3>2, Marks
  <2>5. z \in Nat /\ z + 2 <= F /\ (z # F - 2 => z + 4 <= F) /\ p <= z
    BY <1>1, <1>2, <2>3, <2>4
  <2>6. Sits(stream, z, CRLF) => z = F - 2
    <3> SUFFICES ASSUME Sits(stream, z, CRLF) PROVE z = F - 2
      OBVIOUS
    <3>1. Sits(stream, n, CRLF \o CRLF)
      BY <1>1, <1>2, TwoLineEnds
    <3>2. n \notin p .. F - 5
      BY <1>2, <3>1
    <3>3. n = F - 4
      BY <1>1, <1>2, <2>3, <3>2
    <3> QED BY <1>1, <3>3
  <2> HIDE DEF z
  <2>7. \A i \in z .. F - 5 : ~Sits(stream, i, CRLF \o CRLF)
    <3>1. z .. F - 5 \subseteq p .. F - 5
      BY <1>1, <2>5
    <3> QED BY <1>2, <3>1
  <2>8. InTrailer(z)
    BY <1>2, <2>1, <2>2, <2>5, <2>6, <2>7 DEF InTrailer, F
  <2>9. z <= F
    BY <1>1, <2>5
  <2>10. n + 2 <= FrameEnd /\ InTrailer(n + 2)
    BY <2>8, <2>9 DEF z, F
  <2> QED BY <1>4, <2>10
<1> QED BY <1>3, <1>4

\* A line of the trailer is read: the next one follows, or the body is complete.
LEMMA TrailerSure ==
  ASSUME Sure, IInv', TakeTrailer PROVE Sure'
<1> USE SamePlaces
<1>1. /\ at = "trailer" /\ Found # {} /\ UNCHANGED <<op, msg, peer, dst, got, body>>
      /\ at' = IF op = "forward" /\ Line # <<>> THEN "trailer" ELSE "done"
      /\ ~TakeCrlf
  BY DEF TakeTrailer, TakeCrlf, around
<1>2. at' # "failed"
  BY <1>1
<1> SUFFICES ASSUME msg.sound PROVE Followed' /\ Exact'
  BY <1>1, <1>2 DEF Sure, Exact, FailsForCause
<1>3. framing = "chunked" /\ AtTrailer /\ Types /\ (msg.connect => op = "request")
  BY <1>1 DEF Sure, IInv, Followed, Placed
<1>4. pos \in Nat /\ FrameEnd \in Nat /\ stream \in Seq(Units) /\ FrameEnd <= Len(stream)
  BY <1>3, Parts DEF Types
<1>5. CASE op # "forward"
  <2>1. PICK c \in msg.chunks : c.size = 0 /\ pos = Data(c) /\ Collected(c.before)
    BY <1>3, <1>5 DEF AtTrailer
  <2> DEFINE n == FrameEnd - msg.trailing - 2
  <2>2. msg.trailing \in Nat /\ n \in Nat /\ Ends(stream, pos, n, CRLF) /\ c.before = Len(msg.data)
    BY <1>3, <2>1, TrailerIs
  <2>3. n + 2 = FrameEnd - msg.trailing /\ n + 2 <= FrameEnd
    BY <1>4, <2>2
  <2> HIDE DEF n
  <2>4. pos' = n + 2 /\ Kept' /\ Copied'
    BY <1>1, <2>2, <2>3, LineTaken
  <2>5. body = msg.data
    <3>1. Len(body) = Len(msg.data) /\ Copy(body, msg.data, 0)
      BY <1>5, <2>1, <2>2 DEF Collected
    <3> QED BY <1>3, <3>1, Parts, SameCopy DEF Types
  <2>6. at' = "done"
    BY <1>1, <1>5
  <2>7. Placed' /\ Delivered' /\ Exact'
    BY <1>1, <1>3, <1>5, <2>3, <2>4, <2>5, <2>6 DEF Placed, Delivered, Exact
  <2> QED BY <2>4, <2>7 DEF Followed
<1>6. CASE op = "forward"
  <2>1. InTrailer(pos)
    BY <1>3, <1>6 DEF AtTrailer
  <2>2. PICK n \in Nat : Ends(stream, pos, n, CRLF)
    <3> DEFINE end == {i \in Nat : pos <= i /\ Sits(stream, i, CRLF)}
    <3>1. FrameEnd - 2 \in end
      BY <1>4, <2>1 DEF InTrailer
    <3>2. end \in SUBSET Nat /\ end # {}
      BY <3>1
    <3>3. Min(end) \in end /\ \A i \in end : Min(end) <= i
      BY <3>2, MinIn
    <3> DEFINE n == Min(end)
    <3>4. n \in Nat /\ pos <= n /\ Sits(stream, n, CRLF)
      BY <3>3
    <3>5. ASSUME NEW j \in pos .. n - 1 PROVE ~Sits(stream, j, CRLF)
      <4>1. j \in Nat /\ pos <= j /\ ~(n <= j)
        BY <1>4, <3>4, <3>5
      <4>2. j \notin end
        BY <3>3, <4>1
      <4> QED BY <4>1, <4>2
    <3> HIDE DEF n
    <3> QED BY <3>4, <3>5 DEF Ends
  <2>3. /\ n + 2 <= FrameEnd
        /\ n = pos => n + 2 = FrameEnd
        /\ n # pos => InTrailer(n + 2)
    BY <1>3, <1>4, <2>1, <2>2, NextOfTrailer
  <2>4. pos' = n + 2 /\ Line = SubSeq(stream, pos + 1, n) /\ Kept' /\ Copied'
    BY <1>1, <2>2, <2>3, LineTaken
  <2>5. Line = <<>> <=> n = pos
    <3>1. pos <= n /\ n <= Len(stream) /\ Len(stream) \in Nat
      BY <1>4, <2>2, <2>3, LenProperties DEF Ends
    <3>2. Line \in Seq(Units) /\ Len(Line) = n - pos
      BY <1>4, <2>4, <3>1, Copies
    <3>3. Line = <<>> <=> Len(Line) = 0
      BY <3>2, EmptySeq
    <3> QED BY <1>4, <3>1, <3>2, <3>3
  <2>6. CASE n = pos
    <3>1. at' = "done" /\ pos' = FrameEnd
      BY <1>1, <2>3, <2>4, <2>5, <2>6
    <3>2. Placed' /\ Delivered' /\ Exact'
      BY <1>1, <1>3, <1>6, <3>1 DEF Placed, Delivered, Exact
    <3> QED BY <2>4, <3>2 DEF Followed
  <2>7. CASE n # pos
    <3>1. at' = "trailer"
      BY <1>1, <1>6, <2>5, <2>7
    <3>2. AtTrailer'
      <4>1. InTrailer(pos)'
        BY <1>1, <2>3, <2>4, <2>7 DEF InTrailer
      <4> QED BY <1>1, <1>6, <4>1 DEF AtTrailer
    <3>3. Placed' /\ Delivered' /\ Exact'
      BY <1>1, <1>3, <3>1, <3>2 DEF Placed, Delivered, Exact
    <3> QED BY <2>4, <3>3 DEF Followed
  <2> QED BY <2>6, <2>7
<1> QED BY <1>5, <1>6

\* A call that begins: nothing is read, collected or written.
Fresh ==
    /\ IInv /\ (msg.connect => op = "request")
    /\ at = "head" /\ pos = 0 /\ part = <<>> /\ body = <<>> /\ out = <<>>

LEMMA FreshSure == Fresh => Sure
<1> SUFFICES ASSUME Fresh PROVE Sure
  OBVIOUS
<1> USE DEF Fresh
<1>1. Len(part) = 0 /\ Copy(part, stream, pos - Len(part))
  BY Copies
<1>2. Placed /\ Kept /\ Delivered
  BY <1>1 DEF Placed, Kept, Delivered
<1>3. Copied
  <2>1. 0 <= FrameEnd
    BY Parts DEF IInv
  <2> QED BY <2>1 DEF Copied
<1> QED BY <1>2, <1>3 DEF Sure, Followed, Exact, FailsForCause

\* The first call.
LEMMA SureInit == Init => Sure
<1>1. Init => Fresh
  BY InitIInv DEF Init, Calls, Fresh
<1> QED BY <1>1, FreshSure

\* Any step.
LEMMA SureStep == Sure /\ [Next]_vars => Sure'
<1>1. Sure /\ [Next]_vars => IInv'
  BY StepKeeps DEF Sure
<1>2. ASSUME Sure, IInv', NextCall PROVE Sure'
  <2>1. Fresh'
    BY <1>2 DEF NextCall, Calls, Fresh
  <2> QED BY <2>1, FreshSure, PTL
<1>3. ASSUME Sure, IInv', EndOfStream PROVE Sure'
  <2>1. at' = "failed" \/ at' = "done"
    BY <1>3 DEF EndOfStream
  <2> QED BY <1>3, <2>1, StillSure, EndSure
<1>4. ASSUME Sure, IInv', UNCHANGED vars PROVE Sure'
  <2>1. /\ UNCHANGED <<op, msg, peer, dst, at, pos, got, need, part, body, out>>
        /\ leftover' = leftover
    BY <1>4, SamePlaces DEF vars, leftover
  <2>2. Followed' = Followed
    BY <2>1, SamePlaces
       DEF Followed, Placed, Kept, Copied, Delivered, AtSize, AtData, AtCrlf, AtTrailer,
           AtLength, Collected, InTrailer
  <2>3. Exact' /\ FailsForCause'
    BY <1>4, <2>1, SamePlaces DEF Sure, Exact, FailsForCause, LongLine
  <2> QED BY <1>4, <2>1, <2>2, <2>3 DEF Sure
<1>5. ASSUME Sure, IInv', Next PROVE Sure'
  BY <1>2, <1>3, <1>5, StillSure, HeadSure, TakeSure, TakenSure, CrlfSure, SizeSure, TrailerSure
     DEF Next
<1> QED BY <1>1, <1>4, <1>5

-----------------------------------------------------------------------------
(* The theorems *)

\* The readers stay within what has been received, and count down to zero.
THEOREM WithinReceived == Spec => []TypeOK
<1>1. IInv => TypeOK
  BY DEF IInv, Types, TypeOK
<1> QED BY InitIInv, StepKeeps, <1>1, PTL DEF Spec

\* The request sent upstream announces the length of the body sent with it, held
\* back or not, however the client framed it and its bytes were cut into reads;
\* only a client that gave both framings has its own length passed on
\* (http1.rs, encode_request; io.rs, read_client_request).
THEOREM LengthsAgree == Spec => []Reframed
<1>1. IInv => Reframed
  <2> SUFFICES ASSUME IInv, at = "done", op = "request", msg.sound, ~msg.connect,
                      NEW include \in BOOLEAN
               PROVE  LET sent == IF include THEN Len(body) ELSE 0
                      IN  \/ sent_length(include) = sent
                          \/ sent_length(include) = NoLength /\ sent = 0
                          \/ include /\ msg.te /\ msg.cl # NoLength
    BY DEF Reframed
  <2>1. msg \in Message /\ msg.cl # BadLength
    BY FramingAssumption DEF IInv, Types, Sound
  <2>2. msg.cl \in Nat \/ msg.cl = NoLength
    BY <2>1 DEF Message
  <2>3. body \in Seq(Units) /\ (body = <<>> => Len(body) = 0)
    BY DEF IInv, Types
  <2>4. CASE msg.te
    BY <2>2, <2>3, <2>4 DEF sent_length
  <2>5. CASE ~msg.te /\ msg.cl \in Nat
    <3>1. framing = "length"
      BY <2>5 DEF framing
    <3>2. Len(body) = msg.cl
      BY <3>1 DEF IInv, Counted
    <3> QED BY <2>3, <2>5, <3>2 DEF sent_length, NoLength
  <2>6. CASE ~msg.te /\ msg.cl = NoLength
    <3>1. framing = "none"
      BY <2>6 DEF framing, NoLength
    <3>2. body = <<>>
      BY <3>1 DEF IInv, Counted
    <3> QED BY <2>3, <2>6, <3>2 DEF sent_length
  <2> QED BY <2>2, <2>4, <2>5, <2>6, <2>1 DEF Message
<1> QED BY InitIInv, StepKeeps, <1>1, PTL DEF Spec

\* However the bytes are cut into reads, and whatever comes behind the message in
\* the same read, a reader that collects a sound message has its data and stops
\* where the message ends (io.rs, read_client_request, read_chunked, discard_body).
THEOREM StopsWhereItEnds == Spec => []Exact
<1>1. Sure => Exact
  BY DEF Sure
<1> QED BY SureInit, SureStep, <1>1, PTL DEF Spec

\* A message is given up for a reason: it is malformed or cut short, over a limit,
\* or nobody waits for it any more (io.rs, the errors of all readers).
THEOREM GivenUpForCause == Spec => []FailsForCause
<1>1. Sure => FailsForCause
  BY DEF Sure
<1> QED BY SureInit, SureStep, <1>1, PTL DEF Spec

\* No reader asks the socket for more once it has the message: on a connection
\* that stays open it would wait for ever (io.rs, read_until_double_crlf,
\* read_line, read_exact_from, copy_fixed, copy_chunked).
THEOREM AsksForNoMore == Spec => []NeverWaits
<1>1. Sure => NeverWaits
  BY Waits DEF NeverWaits
<1> QED BY SureInit, SureStep, <1>1, PTL DEF Spec

\* A sequence whose units are those at the front of another is a prefix of it.
LEMMA PrefixIs ==
  ASSUME NEW s \in Seq(Units), NEW t \in Seq(Units), Len(s) <= Len(t), Copy(s, t, 0)
  PROVE  IsPrefix(s, t)
<1> DEFINE n == Len(s)
           u == SubSeq(t, 1, n)
<1>1. n \in Nat /\ Len(t) \in Nat /\ 0 + 1 = 1
  BY LenProperties
<1>2. u \in Seq(Units) /\ Len(u) = n /\ \A k \in 1 .. n : u[k] = t[k]
  <2>1. /\ SubSeq(t, 0 + 1, n) \in Seq(Units) /\ Len(SubSeq(t, 0 + 1, n)) = n - 0
        /\ \A k \in 1 .. n - 0 : SubSeq(t, 0 + 1, n)[k] = t[0 + k]
    BY <1>1, PartOf
  <2> HIDE DEF n
  <2> QED BY <1>1, <2>1
<1>3. \A k \in 1 .. n : s[k] = t[k]
  BY <1>1 DEF Copy
<1>4. s = u
  BY <1>2, <1>3, SeqEqual
<1>5. SubSeq(s, 1, n) = s
  BY SubSeqFull
<1> QED BY <1>4, <1>5 DEF IsPrefix

\* The answer, and what follows it, behind its head.
LEMMA BehindHead ==
  ASSUME Types
  PROVE  /\ msg.body \o msg.after \in Seq(Units)
         /\ Len(stream) = HeadEnd + Len(msg.body \o msg.after)
         /\ \A k \in 1 .. Len(msg.body \o msg.after) :
                stream[HeadEnd + k] = (msg.body \o msg.after)[k]
<1> DEFINE h == msg.head
           r == msg.body \o msg.after
<1>1. h \in Seq(Units) /\ r \in Seq(Units) /\ stream = h \o r
  <2> DEFINE b == msg.body
             a == msg.after
  <2>1. h \in Seq(Units) /\ b \in Seq(Units) /\ a \in Seq(Units)
    BY Parts
  <2> HIDE DEF h, b, a
  <2>2. b \o a \in Seq(Units) /\ (h \o b) \o a = h \o (b \o a)
    BY <2>1, ConcatProperties, ConcatAssociative, SMTT(30)
  <2>3. stream = (h \o b) \o a
    BY DEF stream, h, b, a
  <2> QED BY <2>1, <2>2, <2>3 DEF b, a
<1>2. HeadEnd = Len(h) /\ HeadEnd \in Nat
  BY Parts DEF HeadEnd
<1> HIDE DEF h, r
<1>3. /\ Len(h \o r) = Len(h) + Len(r) /\ Len(r) \in Nat
      /\ \A i \in 1 .. Len(h) + Len(r) : (h \o r)[i] = IF i <= Len(h) THEN h[i] ELSE r[i - Len(h)]
  BY <1>1, ConcatProperties, LenProperties
<1> HIDE DEF HeadEnd
<1>4. ASSUME NEW k \in 1 .. Len(r) PROVE stream[HeadEnd + k] = r[k]
  <2> DEFINE i == HeadEnd + k
  <2>1. i \in 1 .. Len(h) + Len(r) /\ ~(i <= Len(h)) /\ i - Len(h) = k
    BY <1>2, <1>3
  <2> HIDE DEF i
  <2>2. stream[i] = r[k]
    BY <1>1, <1>3, <2>1
  <2> QED BY <2>2 DEF i
<1> QED BY <1>1, <1>2, <1>3, <1>4 DEF r

\* The client gets the body of the answer unit by unit as the proxy sent it, never
\* a unit of another message, and a shortened one passes for complete only when
\* the proxy closed the connection within a length (http1.rs, forward_body).
THEOREM PassedOnAsItCame == Spec => []Verbatim
<1>1. Sure => Verbatim
  <2> SUFFICES ASSUME Sure, op = "forward", msg.sound PROVE Verbatim
    BY DEF Verbatim
  <2>1. Types /\ Kept /\ Copied /\ Delivered
    BY DEF Sure, IInv, Followed
  <2> DEFINE text == IF framing = "close" THEN msg.body \o msg.after ELSE msg.body
             H == HeadEnd
             F == FrameEnd
             O == Len(out)
             P == Len(part)
             T == Len(text)
             L == Len(stream)
  <2>2. framing # "none"
    BY DEF framing
  <2>3. /\ text \in Seq(Units) /\ T \in Nat
        /\ IF framing = "close" THEN L = H + T ELSE F = H + T
        /\ \A k \in 1 .. T : stream[H + k] = text[k]
    BY <2>1, <2>2, Parts, BehindHead, LenProperties
  <2>4. /\ H \in Nat /\ F \in Nat /\ L \in Nat /\ stream \in Seq(Units)
        /\ O \in Nat /\ P \in Nat /\ out \in Seq(Units)
        /\ pos \in Nat /\ got \in Nat /\ pos <= got /\ got <= L
    BY <2>1, Parts, LenProperties DEF Types
  <2>5. /\ framing # "close" => pos <= F
        /\ \/ at \in {"head", "failed"} /\ out = <<>>
           \/ pos = H + O + P /\ Copy(out, stream, H)
    BY <2>1 DEF Copied
  <2> HIDE DEF text, H, F, T, L
  <2>6. O <= T /\ Copy(out, text, 0)
    <3>1. CASE out = <<>>
      <4>1. O = 0
        BY <3>1
      <4> QED BY <2>3, <3>1, <4>1, Copies
    <3>2. CASE pos = H + O + P /\ Copy(out, stream, H)
      <4>1. O <= T
        <5> HIDE DEF O, P
        <5> QED BY <2>3, <2>4, <2>5, <3>2
      <4>2. \A k \in 1 .. O : out[k] = stream[H + k]
        BY <3>2 DEF Copy
      <4> HIDE DEF O
      <4>3. \A k \in 1 .. O : k \in 1 .. T /\ 0 + k = k
        BY <2>3, <2>4, <4>1
      <4>4. \A k \in 1 .. O : out[k] = text[0 + k]
        BY <2>3, <4>2, <4>3
      <4> QED BY <4>1, <4>4 DEF Copy, O
    <3> QED BY <2>5, <3>1, <3>2
  <2>7. IsPrefix(out, text)
    BY <2>3, <2>4, <2>6, PrefixIs DEF T
  <2>8. ASSUME at = "done"
        PROVE  \/ framing = "close" /\ out = SubSeq(stream, H + 1, got)
               \/ out = msg.body /\ pos = F
               \/ framing = "length" /\ peer = "closed"
    <3>1. pos = H + O /\ Copy(out, stream, H)
      <4>1. P = 0
        BY <2>1, <2>8 DEF Kept
      <4>2. pos = H + O + P /\ Copy(out, stream, H)
        BY <2>5, <2>8
      <4> HIDE DEF O, P
      <4> QED BY <2>4, <4>1, <4>2
    <3>2. CASE framing = "close"
      <4>1. pos = got /\ H <= got
        <5>1. pos = got
          BY <2>1, <2>8, <3>2 DEF Delivered
        <5> HIDE DEF O
        <5> QED BY <2>4, <3>1, <5>1
      <4> DEFINE u == SubSeq(stream, H + 1, got)
      <4>2. u \in Seq(Units) /\ Len(u) = got - H /\ Copy(u, stream, H)
        BY <2>4, <4>1, Copies DEF L
      <4> HIDE DEF u
      <4>3. O = got - H
        <5> HIDE DEF O
        <5> QED BY <2>4, <3>1, <4>1
      <4>4. out = u
        BY <2>4, <3>1, <4>2, <4>3, SeqEqual DEF Copy
      <4> QED BY <3>2, <4>4 DEF u
    <3>3. CASE framing # "close"
      <4> SUFFICES ASSUME pos = F PROVE out = msg.body
        BY <2>1, <2>8, <3>3 DEF Delivered, F
      <4>1. O = T
        <5> HIDE DEF O
        <5> QED BY <2>3, <2>4, <3>1, <3>3
      <4>2. out = text
        BY <2>3, <2>4, <2>6, <4>1, SameCopy DEF T
      <4> QED BY <3>3, <4>2 DEF text
    <3> QED BY <3>2, <3>3
  <2> QED BY <2>7, <2>8 DEF Verbatim, text, H, F, HeadEnd
<1> QED BY SureInit, SureStep, <1>1, PTL DEF Spec
=============================================================================
