-------------------------- MODULE HttpConnectionProofs --------------------------
(***************************************************************************)
(* HttpConnection.tla for every set of requests, every length of a text    *)
(* and every size of the buffers: types, that a polite client's request is *)
(* recognised exactly when all of it is there, and for a client that asks  *)
(* one thing at a time that the connection is closed only after its answer *)
(* and implements MsgChannel.tla.                                          *)
(***************************************************************************)
EXTENDS HttpConnection, SequenceTheorems, WellFoundedInduction, TLAPS

\* A text as it should be: whole, nothing behind it, and its length announced
\* in the header.
Text(r, kinds) ==
    /\ r \in Seq(Unit)
    /\ \A i \in 1..Len(r) : r[i].t # "nul"
    /\ Whole(r, kinds)
    /\ Len(r) = TextLen(r)
    /\ r[1].t # "GET" => Lengths(r) # {} /\ Least(Lengths(r)) < HeaderLen(r)

\* b is what has come of a stream that starts with r.
Agrees(b, r) == \A i \in 1..Len(b) : i <= Len(r) => b[i] = r[i]

\* An end of a string with no end of a line before it.
Torn(b) ==
    \E k \in 1..Len(b) : b[k].t = "nul" /\ \A j \in 1..k : b[j].t # "eol"

-----------------------------------------------------------------------------
(* Least and greatest positions.                                           *)

Below == {s \in Nat \X Nat : s[1] < s[2]}

LEMMA BelowWellFounded == IsWellFoundedOn(Below, Nat)
BY NatLessThanWellFounded DEF OpToRel, Below

LEMMA HasLeast ==
  ASSUME NEW S \in SUBSET Nat, S # {}
  PROVE  \E i \in S : \A j \in S : i <= j
<1>1. \E i \in S : \A j \in S : ~(<<j, i>> \in Below)
  <2>1. S \subseteq Nat
    OBVIOUS
  <2> HIDE DEF Below
  <2> QED
    BY <2>1, BelowWellFounded, WFMin
<1>2. PICK i \in S : \A j \in S : ~(<<j, i>> \in Below)
  BY <1>1
<1>3. ASSUME NEW j \in S PROVE i <= j
  <2>1. <<j, i>> \in Nat \X Nat /\ <<j, i>>[1] = j /\ <<j, i>>[2] = i
    OBVIOUS
  <2>2. ~(j < i)
    BY <1>2, <2>1 DEF Below
  <2> QED
    BY <2>2
<1> QED
  BY <1>3

LEMMA HasGreatest ==
  ASSUME NEW n \in Nat, NEW S \in SUBSET (1..n), S # {}
  PROVE  \E i \in S : \A j \in S : i >= j
<1> DEFINE T == {x \in Nat : n - x \in S}
<1>1. T # {}
  <2>1. PICK i \in S : TRUE
    OBVIOUS
  <2>2. n - i \in Nat /\ n - (n - i) = i
    BY <2>1
  <2> QED
    BY <2>2
<1>2. PICK x \in T : \A y \in T : x <= y
  <2>1. T \in SUBSET Nat
    OBVIOUS
  <2> HIDE DEF T
  <2> QED
    BY <1>1, <2>1, HasLeast
<1>3. ASSUME NEW j \in S PROVE n - x >= j
  <2>1. n - j \in Nat /\ n - (n - j) = j
    OBVIOUS
  <2>2. n - j \in T
    BY <2>1
  <2>3. x <= n - j
    BY <1>2, <2>2
  <2>4. x \in Nat /\ j \in Nat
    OBVIOUS
  <2> QED
    BY ONLY <2>3, <2>4, n \in Nat
<1> QED
  BY <1>2, <1>3

LEMMA LeastIs ==
  ASSUME NEW S \in SUBSET Nat, S # {}
  PROVE  Least(S) \in S /\ \A j \in S : Least(S) <= j
BY HasLeast DEF Least

LEMMA LeastEquals ==
  ASSUME NEW S \in SUBSET Nat, NEW i \in S, \A j \in S : i <= j
  PROVE  Least(S) = i
<1>1. Least(S) \in S /\ \A j \in S : Least(S) <= j
  BY LeastIs
<1>2. Least(S) <= i /\ i <= Least(S) /\ i \in Nat /\ Least(S) \in Nat
  BY <1>1
<1> QED
  BY ONLY <1>2
-----------------------------------------------------------------------------
(* Recognition.                                                            *)

LEMMA UnitType ==
  ASSUME NEW b \in Seq(Unit), NEW i \in 1..Len(b)
  PROVE  b[i] \in Unit /\ b[i].t \in Kinds /\ b[i].n \in Int
<1>1. b[i] \in Unit
  BY ElementOfSeq
<1> QED
  BY ONLY <1>1 DEF Unit

LEMMA SeenType ==
  ASSUME NEW b \in Seq(Unit)
  PROVE  /\ Len(b) \in Nat
         /\ Seen(b) \in SUBSET (1..Len(b)) /\ Seen(b) \in SUBSET Nat
         /\ Blanks(b) \in SUBSET Nat /\ Lengths(b) \in SUBSET Nat
         /\ Blanks(b) \in SUBSET (2..Len(b))
         /\ Lengths(b) \in SUBSET (1..Len(b))
<1>1. Len(b) \in Nat
  BY LenProperties
<1>2. Seen(b) \in SUBSET (1..Len(b))
  BY DEF Seen
<1>3. Seen(b) \in SUBSET Nat
  BY <1>1, <1>2
<1>4. Blanks(b) \in SUBSET (2..Len(b))
  <2>1. ASSUME NEW i \in Blanks(b) PROVE i \in 2..Len(b)
    <3>1. i \in 1..Len(b) /\ i > 1
      BY <1>2 DEF Blanks
    <3> QED
      BY <1>1, <3>1
  <2> QED
    BY <2>1
<1>5. Lengths(b) \in SUBSET (1..Len(b))
  BY <1>2 DEF Lengths
<1>6. Blanks(b) \in SUBSET Nat /\ Lengths(b) \in SUBSET Nat
  BY <1>3 DEF Blanks, Lengths
<1> QED
  BY <1>1, <1>2, <1>3, <1>4, <1>5, <1>6

\* A text that is recognised lies within the buffer.
LEMMA WholeIs ==
  ASSUME NEW b \in Seq(Unit), NEW kinds, Whole(b, kinds)
  PROVE  /\ Len(b) \in Nat /\ b # << >>
         /\ HeaderLen(b) \in 2..Len(b) /\ BodyLen(b) \in Nat
         /\ TextLen(b) \in 2..Len(b)
         /\ TextLen(b) = HeaderLen(b) + BodyLen(b)
<1>1. Len(b) \in Nat /\ Blanks(b) \in SUBSET Nat /\ Blanks(b) \in SUBSET (2..Len(b))
  BY SeenType
<1>2. Blanks(b) # {} /\ Measured(b) /\ TextLen(b) <= Len(b)
  BY DEF Whole, Headed
<1>3. HeaderLen(b) \in 2..Len(b)
  BY <1>1, <1>2, LeastIs DEF HeaderLen
<1>4. BodyLen(b) \in Nat
  <2>1. CASE b[1].t = "GET"
    BY <2>1 DEF BodyLen
  <2>2. CASE b[1].t # "GET"
    <3>1. Lengths(b) # {} /\ BodyLen(b) >= 0
      BY <1>2, <2>2 DEF Measured
    <3>2. Least(Lengths(b)) \in 1..Len(b)
      BY <3>1, SeenType, LeastIs
    <3>3. BodyLen(b) \in Int
      BY <2>2, <3>2, UnitType DEF BodyLen
    <3> QED
      BY <3>1, <3>3
  <2> QED
    BY <2>1, <2>2
<1> DEFINE h == HeaderLen(b)
           l == BodyLen(b)
           n == Len(b)
<1>5. TextLen(b) = h + l
  BY DEF TextLen
<1>6. b # << >>
  BY <1>3, EmptySeq
<1>7. h \in 2..n /\ l \in Nat /\ h + l <= n /\ n \in Nat
  BY <1>1, <1>2, <1>3, <1>4, <1>5
<1> HIDE DEF h, l, n
<1>8. h + l \in 2..n
  BY ONLY <1>7
<1> QED
  BY <1>1, <1>3, <1>4, <1>5, <1>6, <1>8 DEF h, l, n

\* All of a text is seen.
LEMMA TextIs ==
  ASSUME NEW kinds, NEW r, Text(r, kinds)
  PROVE  /\ r \in Seq(Unit) /\ Len(r) \in Nat
         /\ Seen(r) = 1..Len(r)
         /\ HeaderLen(r) \in Blanks(r) /\ HeaderLen(r) \in 2..Len(r)
         /\ \A i \in Blanks(r) : HeaderLen(r) <= i
         /\ r[1].t \in kinds /\ Measured(r) /\ Len(r) >= MinLen
<1>1. r \in Seq(Unit) /\ Whole(r, kinds)
  BY DEF Text
<1>2. Len(r) \in Nat /\ HeaderLen(r) \in 2..Len(r) /\ Blanks(r) \in SUBSET Nat
  BY <1>1, WholeIs, SeenType
<1>3. Seen(r) = 1..Len(r)
  <2>1. \A i \in 1..Len(r) : r[i].t # "nul"
    BY DEF Text
  <2>2. ASSUME NEW i \in 1..Len(r), NEW j \in 1..i PROVE r[j].t # "nul"
    BY <1>2, <2>1
  <2> QED
    BY <2>2 DEF Seen
<1>4. Blanks(r) # {} /\ r[1].t \in kinds /\ Measured(r) /\ Len(r) >= MinLen
  BY <1>1 DEF Whole, Headed
<1>5. HeaderLen(r) \in Blanks(r) /\ \A i \in Blanks(r) : HeaderLen(r) <= i
  BY <1>2, <1>4, LeastIs DEF HeaderLen
<1> QED
  BY <1>1, <1>2, <1>3, <1>4, <1>5

\* As far as b agrees with a text, the same is seen in both.
LEMMA SeenInBoth ==
  ASSUME NEW kinds, NEW r, Text(r, kinds), NEW b \in Seq(Unit), Agrees(b, r),
         NEW i \in 1..Len(b), i <= Len(r)
  PROVE  /\ i \in 1..Len(r) /\ b[i] = r[i]
         /\ i \in Blanks(b) <=> i \in Blanks(r)
         /\ i \in Lengths(b) <=> i \in Lengths(r)
         /\ i \in Seen(b)
<1>1. Len(b) \in Nat /\ Len(r) \in Nat /\ Seen(r) = 1..Len(r)
  BY SeenType, TextIs
<1>2. i \in 1..Len(r) /\ i \in Nat
  BY <1>1
<1>3. \A j \in 1..i : j \in 1..Len(b) /\ j \in 1..Len(r) /\ b[j] = r[j]
  BY <1>1, <1>2 DEF Agrees
<1>4. \A j \in 1..i : b[j].t # "nul"
  BY <1>3 DEF Text
<1>5. i \in Seen(b) /\ i \in Seen(r)
  BY <1>1, <1>2, <1>4 DEF Seen
<1>6. b[i] = r[i]
  BY <1>1, <1>2, <1>3
<1>7. i > 1 => b[i - 1] = r[i - 1]
  <2>1. i > 1 => i - 1 \in 1..i
    BY <1>2
  <2> QED
    BY <1>3, <2>1
<1>8. i \in Blanks(b) <=> i \in Blanks(r)
  BY <1>5, <1>6, <1>7 DEF Blanks
<1>9. i \in Lengths(b) <=> i \in Lengths(r)
  BY <1>5, <1>6 DEF Lengths
<1> QED
  BY <1>2, <1>5, <1>6, <1>8, <1>9

\* The header is not found before all of it has come.
LEMMA NoBlankYet ==
  ASSUME NEW kinds, NEW r, Text(r, kinds), NEW b \in Seq(Unit), Agrees(b, r),
         Blanks(b) # {}
  PROVE  HeaderLen(r) <= Len(b)
<1>1. PICK i \in Blanks(b) : TRUE
  OBVIOUS
<1>2. /\ Len(b) \in Nat /\ Len(r) \in Nat /\ HeaderLen(r) \in 2..Len(r)
      /\ \A j \in Blanks(r) : HeaderLen(r) <= j
  BY SeenType, TextIs
<1>3. i \in 2..Len(b)
  BY <1>1, SeenType
<1>4. CASE i <= Len(r)
  <2>1. i \in 1..Len(b)
    BY <1>2, <1>3
  <2>2. i \in Blanks(r)
    BY <1>1, <1>4, <2>1, SeenInBoth
  <2> QED
    BY <1>2, <1>3, <2>2
<1>5. CASE ~(i <= Len(r))
  BY <1>2, <1>3, <1>5
<1> QED
  BY <1>4, <1>5

\* Then it is found where it ends, with the right length of the body.
LEMMA SameMeasures ==
  ASSUME NEW kinds, NEW r, Text(r, kinds), NEW b \in Seq(Unit), Agrees(b, r),
         HeaderLen(r) <= Len(b)
  PROVE  /\ Blanks(b) # {} /\ b[1] = r[1]
         /\ HeaderLen(b) = HeaderLen(r) /\ BodyLen(b) = BodyLen(r)
         /\ TextLen(b) = Len(r)
         /\ Measured(b)
<1> DEFINE h == HeaderLen(r)
<1>1. /\ Len(b) \in Nat /\ Len(r) \in Nat /\ h \in 2..Len(r) /\ h \in Blanks(r)
      /\ \A j \in Blanks(r) : h <= j
      /\ Blanks(b) \in SUBSET Nat /\ Lengths(b) \in SUBSET Nat /\ Lengths(r) \in SUBSET Nat
      /\ Blanks(b) \in SUBSET (2..Len(b)) /\ Lengths(b) \in SUBSET (1..Len(b))
      /\ Measured(r) /\ r \in Seq(Unit)
  BY SeenType, TextIs
<1>2. h \in 1..Len(b) /\ h <= Len(r) /\ 1 \in 1..Len(b) /\ 1 <= Len(r)
  BY <1>1
<1>3. h \in Blanks(b) /\ b[1] = r[1]
  BY <1>1, <1>2, SeenInBoth
<1>4. ASSUME NEW j \in Blanks(b) PROVE h <= j
  <2>1. CASE j <= Len(r)
    BY <1>1, <2>1, SeenInBoth
  <2>2. CASE ~(j <= Len(r))
    BY <1>1, <2>2
  <2> QED
    BY <2>1, <2>2
<1>5. HeaderLen(b) = h
  BY <1>1, <1>3, <1>4, LeastEquals DEF HeaderLen
<1>6. r[1].t # "GET" => Lengths(b) # {} /\ NumberEnds(b) /\ BodyLen(b) = BodyLen(r)
  <2> SUFFICES ASSUME r[1].t # "GET"
               PROVE  Lengths(b) # {} /\ NumberEnds(b) /\ BodyLen(b) = BodyLen(r)
    OBVIOUS
  <2> DEFINE l == Least(Lengths(r))
  <2>1. Lengths(r) # {} /\ l < h
    BY DEF Text
  <2>2. l \in Lengths(r) /\ (\A j \in Lengths(r) : l <= j) /\ l \in Nat
    BY <1>1, <2>1, LeastIs
  <2>3. l \in 1..Len(b) /\ l <= Len(r)
    <3>1. l \in 1..Len(r)
      BY <1>1, <2>2, SeenType
    <3> HIDE DEF l, h
    <3> QED
      BY <1>1, <1>2, <2>1, <3>1
  <2>4. l \in Lengths(b) /\ b[l] = r[l]
    BY <2>2, <2>3, SeenInBoth
  <2>5. ASSUME NEW j \in Lengths(b) PROVE l <= j
    <3>1. CASE j <= Len(r)
      BY <1>1, <2>2, <3>1, SeenInBoth
    <3>2. CASE ~(j <= Len(r))
      BY <1>1, <2>2, <2>3, <3>2
    <3> QED
      BY <3>1, <3>2
  <2>6. Least(Lengths(b)) = l
    BY <1>1, <2>4, <2>5, LeastEquals
  <2>7. BodyLen(b) = BodyLen(r)
    BY <1>3, <2>4, <2>6 DEF BodyLen
  \* The number ends before the header does.
  <2>8. l + 1 \in 1..Len(b) /\ l + 1 <= Len(r)
    <3> HIDE DEF l, h
    <3> QED
      BY <1>1, <1>2, <2>1, <2>2, <2>3
  <2>9. l + 1 \in Seen(r) /\ r[l + 1].t = "eol"
    BY <1>1 DEF Measured, NumberEnds
  <2>10. l + 1 \in Seen(b) /\ b[l + 1] = r[l + 1]
    <3> HIDE DEF l
    <3> QED
      BY <2>8, SeenInBoth
  <2>11. NumberEnds(b)
    BY <2>6, <2>9, <2>10 DEF NumberEnds
  <2> QED
    BY <2>4, <2>7, <2>11
<1>7. BodyLen(b) = BodyLen(r)
  BY <1>3, <1>6 DEF BodyLen
<1>8. TextLen(b) = Len(r) /\ TextLen(b) = TextLen(r)
  BY <1>5, <1>7 DEF TextLen, Text
<1>9. Measured(b)
  BY <1>1, <1>3, <1>6, <1>7, <1>8 DEF Measured
<1> QED
  BY <1>3, <1>5, <1>7, <1>8, <1>9

\* A text is recognised exactly when all of it has come, and never refused.
LEMMA Recognised ==
  ASSUME NEW kinds, NEW r, Text(r, kinds), NEW b \in Seq(Unit), Agrees(b, r)
  PROVE  /\ Whole(b, kinds) <=> Len(r) <= Len(b)
         /\ Whole(b, kinds) => TextLen(b) = Len(r)
         /\ Headed(b) => b[1].t \in kinds /\ Measured(b)
<1>1. /\ Len(b) \in Nat /\ Len(r) \in Nat /\ HeaderLen(r) \in 2..Len(r)
      /\ r[1].t \in kinds /\ Len(r) >= MinLen /\ MinLen \in Nat
  BY SeenType, TextIs, SizesAssumption
<1>2. ASSUME Headed(b)
      PROVE  TextLen(b) = Len(r) /\ b[1].t \in kinds /\ Measured(b)
  <2>1. Blanks(b) # {}
    BY <1>2 DEF Headed
  <2>2. HeaderLen(r) <= Len(b)
    BY <2>1, NoBlankYet
  <2> QED
    BY <1>1, <2>2, SameMeasures
<1>3. ASSUME Whole(b, kinds) PROVE TextLen(b) = Len(r) /\ Len(r) <= Len(b)
  BY <1>2, <1>3 DEF Whole
<1>4. ASSUME Len(r) <= Len(b) PROVE Whole(b, kinds)
  <2>1. HeaderLen(r) <= Len(b) /\ Len(b) >= MinLen
    BY <1>1, <1>4
  <2>2. Headed(b)
    BY <2>1, SameMeasures DEF Headed
  <2>3. TextLen(b) <= Len(b)
    BY <1>2, <1>4, <2>2
  <2> QED
    BY <1>2, <2>2, <2>3 DEF Whole
<1> QED
  BY <1>2, <1>3, <1>4

\* The requests of a polite client are texts, and fit in a receive buffer.
LEMMA PoliteText ==
  ASSUME NEW r \in Polite
  PROVE  Text(r, {"GET", "POST"}) /\ Len(r) <= RecvSize /\ r \in Seq(Unit)
<1>1. WellFormed(r)
  BY PoliteAssumption
<1>2. /\ r \in Seq(Unit) /\ \A i \in 1..Len(r) : r[i].t # "nul"
      /\ Whole(r, {"GET", "POST"}) /\ Len(r) = TextLen(r) /\ Len(r) <= RecvSize
      /\ r[1].t = "POST" => Least(Lengths(r)) < HeaderLen(r)
  BY <1>1 DEF WellFormed, HasRequest
<1>3. r[1].t # "GET" => r[1].t = "POST" /\ Lengths(r) # {}
  BY <1>2 DEF Whole, Measured
<1> QED
  BY <1>2, <1>3 DEF Text

\* So are the answers of the server.
LEMMA AnswerText ==
  ASSUME NEW s \in Int, NEW n \in Int
  PROVE  /\ Header(s) \in Seq(Unit) /\ Len(Header(s)) = 5
         /\ Body(n) \in Seq(Unit) /\ Len(Body(n)) = 1
         /\ Len(Header(s) \o Body(n)) = 6
         /\ Text(Header(s) \o Body(n), {"HTTP"})
<1> DEFINE h == Header(s)
           c == Body(n)
           a == h \o c
<1>1. /\ U("HTTP", s) \in Unit /\ U("eol", 0) \in Unit /\ U("len", 1) \in Unit
      /\ U("body", n) \in Unit
  BY DEF U, Unit, Kinds
<1>2. h \in Seq(Unit) /\ Len(h) = 5
  BY <1>1 DEF Header
<1>3. c \in Seq(Unit) /\ Len(c) = 1
  BY <1>1 DEF Body
<1>4. /\ h[1].t = "HTTP" /\ h[2].t = "eol" /\ h[3].t = "len" /\ h[3].n = 1
      /\ h[4].t = "eol" /\ h[5].t = "eol"
  BY DEF Header, U
<1>5. c[1].t = "body"
  BY DEF Body, U
<1> HIDE DEF h, c
<1>6. /\ a \in Seq(Unit) /\ Len(a) = 6
      /\ \A i \in 1..6 : a[i] = IF i <= 5 THEN h[i] ELSE c[i - 5]
  <2>1. /\ h \o c \in Seq(Unit) /\ Len(h \o c) = Len(h) + Len(c)
        /\ \A i \in 1..(Len(h) + Len(c)) :
              (h \o c)[i] = IF i <= Len(h) THEN h[i] ELSE c[i - Len(h)]
    BY ONLY <1>2, <1>3, ConcatProperties
  <2>2. Len(h) + Len(c) = 6 /\ Len(h) = 5
    BY <1>2, <1>3
  <2> HIDE DEF a
  <2>3. a = h \o c
    BY DEF a
  <2> QED
    BY ONLY <2>1, <2>2, <2>3
<1>7. /\ a[1].t = "HTTP" /\ a[2].t = "eol" /\ a[3].t = "len" /\ a[3].n = 1
      /\ a[4].t = "eol" /\ a[5].t = "eol" /\ a[6].t = "body"
  BY <1>4, <1>5, <1>6
<1> HIDE DEF a
<1>8. \A i \in 1..Len(a) : a[i].t # "nul"
  BY <1>6, <1>7
<1>9. Seen(a) = 1..6
  <2>1. ASSUME NEW i \in 1..6, NEW j \in 1..i PROVE a[j].t # "nul"
    BY <1>6, <1>8
  <2> QED
    BY <1>6, <2>1 DEF Seen
<1>10. Blanks(a) = {5}
  BY <1>7, <1>9 DEF Blanks
<1>11. Lengths(a) = {3}
  BY <1>7, <1>9 DEF Lengths
<1>12. HeaderLen(a) = 5
  BY <1>10, LeastEquals DEF HeaderLen
<1>13. Least(Lengths(a)) = 3
  BY <1>11, LeastEquals
<1>14. BodyLen(a) = 1 /\ TextLen(a) = 6
  BY <1>7, <1>12, <1>13 DEF BodyLen, TextLen
<1>15. Whole(a, {"HTTP"})
  <2>1. Headed(a)
    BY <1>6, <1>10, SizesAssumption DEF Headed
  <2>2. NumberEnds(a)
    BY <1>7, <1>9, <1>13 DEF NumberEnds
  <2>3. Measured(a)
    BY <1>11, <1>14, <2>2, SizesAssumption DEF Measured
  <2> QED
    BY <1>6, <1>7, <1>14, <2>1, <2>3 DEF Whole
<1>16. Text(a, {"HTTP"})
  BY <1>6, <1>8, <1>11, <1>12, <1>13, <1>14, <1>15 DEF Text
<1> QED
  BY <1>2, <1>3, <1>6, <1>16 DEF a, h, c
-----------------------------------------------------------------------------
(* What parsing has torn.                                                  *)

\* Nothing is recognised or refused in it.
LEMMA TornUnseen ==
  ASSUME NEW b \in Seq(Unit), Torn(b)
  PROVE  ~Headed(b)
<1>1. PICK k \in 1..Len(b) : b[k].t = "nul" /\ \A j \in 1..k : b[j].t # "eol"
  BY DEF Torn
<1>2. Len(b) \in Nat
  BY LenProperties
<1>3. ASSUME NEW i \in Blanks(b) PROVE FALSE
  <2>1. i \in 1..Len(b) /\ b[i].t = "eol" /\ \A j \in 1..i : b[j].t # "nul"
    BY DEF Blanks, Seen
  <2>2. i <= k \/ k <= i
    BY <1>2, <2>1
  <2>3. CASE i <= k
    BY <1>1, <1>2, <2>1, <2>3
  <2>4. CASE k <= i
    BY <1>1, <1>2, <2>1, <2>4
  <2> QED
    BY <2>2, <2>3, <2>4
<1> QED
  BY <1>3 DEF Headed

\* It is not the beginning of a text.
LEMMA TornOther ==
  ASSUME NEW b \in Seq(Unit), Torn(b), NEW kinds, NEW r, Text(r, kinds), Agrees(b, r)
  PROVE  Len(b) < Len(r)
<1>1. PICK k \in 1..Len(b) : b[k].t = "nul" /\ \A j \in 1..k : b[j].t # "eol"
  BY DEF Torn
<1>2. /\ Len(b) \in Nat /\ Len(r) \in Nat /\ r \in Seq(Unit)
      /\ HeaderLen(r) \in 2..Len(r) /\ HeaderLen(r) \in Blanks(r)
  BY LenProperties, TextIs
<1>3. r[HeaderLen(r)].t = "eol"
  BY <1>2 DEF Blanks
<1>4. SUFFICES ASSUME Len(r) <= Len(b) PROVE FALSE
  BY <1>2
<1>5. CASE k <= Len(r)
  <2>1. b[k] = r[k] /\ k \in 1..Len(r)
    BY <1>2, <1>5 DEF Agrees
  <2> QED
    BY <1>1, <2>1 DEF Text
<1>6. CASE ~(k <= Len(r))
  <2> DEFINE h == HeaderLen(r)
  <2>1. h \in 1..k /\ h \in 1..Len(b) /\ h <= Len(r)
    BY <1>2, <1>4, <1>6
  <2>2. b[h] = r[h]
    BY <2>1 DEF Agrees
  <2> QED
    BY <1>1, <1>3, <2>1, <2>2
<1> QED
  BY <1>5, <1>6

\* What comes later does not mend it.
LEMMA TornStays ==
  ASSUME NEW b \in Seq(Unit), Torn(b), NEW s \in Seq(Unit)
  PROVE  Torn(b \o s)
<1>1. PICK k \in 1..Len(b) : b[k].t = "nul" /\ \A j \in 1..k : b[j].t # "eol"
  BY DEF Torn
<1>2. /\ Len(b) \in Nat /\ Len(s) \in Nat
      /\ Len(b \o s) = Len(b) + Len(s)
      /\ \A i \in 1..(Len(b) + Len(s)) :
            (b \o s)[i] = IF i <= Len(b) THEN b[i] ELSE s[i - Len(b)]
  BY LenProperties, ConcatProperties
<1>3. \A i \in 1..Len(b) : (b \o s)[i] = b[i]
  BY <1>2
<1>4. k \in 1..Len(b \o s) /\ \A j \in 1..k : j \in 1..Len(b)
  BY <1>2
<1>5. (b \o s)[k].t = "nul" /\ \A j \in 1..k : (b \o s)[j].t # "eol"
  BY <1>1, <1>3, <1>4
<1> QED
  BY <1>4, <1>5 DEF Torn

\* Parsing leaves the rest of the buffer as it is, or tears it.
LEMMA SplitIs ==
  ASSUME NEW b \in Seq(Unit), NEW w \in BOOLEAN
  PROVE  /\ Split(b, w) \in Seq(Unit) /\ Len(Split(b, w)) = Len(b)
         /\ Split(b, w) = b \/ Torn(Split(b, w))
<1> DEFINE n == Len(b)
           c == Split(b, w)
<1>1. n \in Nat /\ b \in [1..n -> Unit]
  BY LenProperties
<1>2. U("nul", 0) \in Unit /\ U("nul", 0).t = "nul"
  BY DEF U, Unit, Kinds
<1>3. \A i \in 1..n : c[i] = b[i] \/ c[i] = U("nul", 0)
  BY DEF Split
<1>4. \A i \in 1..n : c[i].t # "eol"
  BY <1>2 DEF Split
<1>5. c \in [1..n -> Unit]
  BY <1>1, <1>2 DEF Split
<1> HIDE DEF c, n
<1>6. c \in Seq(Unit)
  BY <1>1, <1>5, SeqDef
<1>7. Len(c) = n
  BY <1>1, <1>5, <1>6, LenProperties
<1>8. ASSUME c # b PROVE Torn(c)
  <2>1. PICK k \in 1..n : c[k] # b[k]
    BY <1>1, <1>5, <1>8
  <2>2. c[k].t = "nul"
    BY <1>2, <1>3, <2>1
  <2>3. \A j \in 1..k : j \in 1..n
    BY <1>1
  <2> QED
    BY <1>4, <1>7, <2>2, <2>3 DEF Torn
<1> QED
  BY <1>6, <1>7, <1>8 DEF c, n
-----------------------------------------------------------------------------
(* Units that move, texts that are taken and answers that are written.     *)

LEMMA Cut ==
  ASSUME NEW b \in Seq(Unit), NEW n \in 0..Len(b)
  PROVE  /\ SubSeq(b, 1, n) \in Seq(Unit) /\ Len(SubSeq(b, 1, n)) = n
         /\ SubSeq(b, n + 1, Len(b)) \in Seq(Unit)
         /\ Len(SubSeq(b, n + 1, Len(b))) = Len(b) - n
         /\ \A i \in 1..n : SubSeq(b, 1, n)[i] = b[i]
         /\ \A i \in 1..(Len(b) - n) : SubSeq(b, n + 1, Len(b))[i] = b[n + i]
         /\ SubSeq(b, 1, n) \o SubSeq(b, n + 1, Len(b)) = b
<1> DEFINE p == SubSeq(b, 1, n)
           q == SubSeq(b, n + 1, Len(b))
           m == Len(b)
<1>0. m \in Nat /\ \A i \in 1..m : b[i] \in Unit
  BY LenProperties, ElementOfSeq
<1>1. p \in Seq(Unit) /\ Len(p) = n /\ \A i \in 1..n : p[i] = b[i]
  <2>1. \A i \in 1..n : i \in 1..m
    BY <1>0
  <2>2. \A i \in 1..n : b[i] \in Unit
    BY <1>0, <2>1
  <2> QED
    BY <1>0, <2>2, SubSeqProperties
<1>2. /\ q \in Seq(Unit) /\ Len(q) = m - n
      /\ \A i \in 1..(m - n) : q[i] = b[n + i]
  <2>1. \A i \in (n + 1)..m : b[i] \in Unit
    BY <1>0
  <2>2. q \in Seq(Unit) /\ Len(q) = m - n
    BY <1>0, <2>1, SubSeqProperties
  <2>3. \A i \in 1..(m - n) : q[i] = b[n + i]
    BY <1>0, <2>1, SubSeqProperties
  <2> QED
    BY <2>2, <2>3
<1>3. p \o q = b
  <2>1. p \o q = SubSeq(b, 1, Len(b))
    <3>1. 1 \in 1..(Len(b) + 1) /\ n \in (1 - 1)..Len(b) /\ Len(b) \in n..Len(b)
      BY <1>0
    <3>2. b \in Seq(Unit)
      OBVIOUS
    <3> QED
      BY ONLY <3>1, <3>2, ConcatAdjacentSubSeq
  <2> QED
    BY <2>1, SubSeqFull
<1> QED
  BY <1>1, <1>2, <1>3

LEMMA MoveUnits ==
  ASSUME NEW a \in Seq(Unit), NEW b \in Seq(Unit), NEW n \in 0..Len(b)
  PROVE  /\ a \o SubSeq(b, 1, n) \in Seq(Unit)
         /\ Len(a \o SubSeq(b, 1, n)) = Len(a) + n
         /\ SubSeq(b, n + 1, Len(b)) \in Seq(Unit)
         /\ Len(SubSeq(b, n + 1, Len(b))) = Len(b) - n
         /\ (a \o SubSeq(b, 1, n)) \o SubSeq(b, n + 1, Len(b)) = a \o b
<1> DEFINE p == SubSeq(b, 1, n)
           q == SubSeq(b, n + 1, Len(b))
<1>1. /\ p \in Seq(Unit) /\ Len(p) = n /\ q \in Seq(Unit) /\ Len(q) = Len(b) - n
      /\ p \o q = b
  BY Cut
<1>2. a \in Seq(Unit)
  OBVIOUS
<1> HIDE DEF p, q
<1>3. a \o p \in Seq(Unit) /\ Len(a \o p) = Len(a) + Len(p)
  BY ONLY <1>1, <1>2, ConcatProperties
<1>4. (a \o p) \o q = a \o (p \o q)
  <2>1. p \in Seq(Unit) /\ q \in Seq(Unit)
    BY ONLY <1>1
  <2> QED
    BY ONLY <1>2, <2>1, ConcatAssociative
<1> QED
  BY <1>1, <1>3, <1>4 DEF p, q

LEMMA FrontAndBehind ==
  ASSUME NEW b \in Seq(Unit), NEW kinds, Whole(b, kinds)
  PROVE  /\ Front(b) \in Seq(Unit) /\ Len(Front(b)) = TextLen(b)
         /\ Behind(b) \in Seq(Unit) /\ Len(Behind(b)) = Len(b) - TextLen(b)
         /\ Front(b) \o Behind(b) = b
<1>1. TextLen(b) \in 0..Len(b)
  <2> DEFINE n == TextLen(b)
             m == Len(b)
  <2>1. n \in 2..m /\ m \in Nat
    BY WholeIs
  <2> HIDE DEF n, m
  <2>2. n \in 0..m
    BY <2>1
  <2> QED
    BY <2>2 DEF n, m
<1> QED
  BY <1>1, Cut DEF Front, Behind

LEMMA PushedType ==
  ASSUME NEW b \in Seq(Unit), Len(b) <= SendSize, NEW text \in Seq(Unit)
  PROVE  Pushed(b, text) \in Seq(Unit) /\ Len(Pushed(b, text)) <= SendSize
<1>1. b \o text \in Seq(Unit) /\ Len(b \o text) = Len(b) + Len(text)
  BY ConcatProperties
<1> QED
  BY <1>1 DEF Pushed, Fits

LEMMA WrittenType ==
  ASSUME NEW b \in Seq(Unit), Len(b) <= SendSize, NEW s \in Int, NEW n \in Int
  PROVE  Written(b, s, n) \in Seq(Unit) /\ Len(Written(b, s, n)) <= SendSize
<1>1. Header(s) \in Seq(Unit) /\ Body(n) \in Seq(Unit)
  BY AnswerText
<1>2. Pushed(b, Header(s)) \in Seq(Unit) /\ Len(Pushed(b, Header(s))) <= SendSize
  BY <1>1, PushedType
<1> QED
  BY <1>1, <1>2, PushedType DEF Written

\* In an empty buffer there is room for an answer.
LEMMA WrittenWhole ==
  ASSUME NEW s \in Int, NEW n \in Int
  PROVE  Written(<< >>, s, n) = Header(s) \o Body(n)
<1>1. /\ Header(s) \in Seq(Unit) /\ Len(Header(s)) = 5
      /\ Body(n) \in Seq(Unit) /\ Len(Body(n)) = 1
  BY AnswerText
<1>2. Len(<< >>) = 0 /\ << >> \o Header(s) = Header(s)
  BY <1>1, EmptySeq, ConcatEmptySeq
<1>3. Pushed(<< >>, Header(s)) = Header(s)
  BY <1>1, <1>2, SizesAssumption DEF Pushed, Fits
<1>4. Fits(Header(s), Body(n))
  BY <1>1, SizesAssumption DEF Fits
<1> QED
  BY <1>3, <1>4 DEF Written, Pushed

\* What a request is answered with.
LEMMA AnswerType ==
  ASSUME NEW b \in Seq(Unit), b # << >>
  PROVE  /\ Status(b) \in Int /\ Content(b) \in Int
         /\ AnswerTo(b) \in Seq(Unit) /\ Len(AnswerTo(b)) = 6
         /\ Text(AnswerTo(b), {"HTTP"})
<1>1. Status(b) \in Int
  BY DEF Status
<1>2. Len(b) \in Nat /\ Arguments(b) \in SUBSET (1..Len(b))
  BY SeenType DEF Arguments
<1>3. Value(b) \in Int
  <2>1. CASE Arguments(b) = {}
    BY <2>1 DEF Value
  <2>2. CASE Arguments(b) # {}
    <3> DEFINE A == Arguments(b)
               g == CHOOSE i \in A : \A j \in A : i >= j
    <3>1. g \in A
      <4>1. \E i \in A : \A j \in A : i >= j
        BY <1>2, <2>2, HasGreatest
      <4> HIDE DEF A
      <4> QED
        BY <4>1
    <3>2. g \in 1..Len(b)
      BY <1>2, <3>1
    <3>3. Value(b) = b[g].n
      BY <2>2 DEF Value
    <3> HIDE DEF g
    <3> QED
      BY <3>2, <3>3, UnitType
  <2> QED
    BY <2>1, <2>2
<1>4. Content(b) \in Int
  BY <1>3 DEF Content
<1> DEFINE s == Status(b)
           n == Content(b)
<1>5. AnswerTo(b) = Header(s) \o Body(n)
  BY DEF AnswerTo
<1>6. s \in Int /\ n \in Int
  BY <1>1, <1>4
<1> HIDE DEF s, n
<1>7. /\ Len(Header(s) \o Body(n)) = 6 /\ Text(Header(s) \o Body(n), {"HTTP"})
      /\ Header(s) \o Body(n) \in Seq(Unit)
  <2>1. Len(Header(s) \o Body(n)) = 6 /\ Text(Header(s) \o Body(n), {"HTTP"})
    BY <1>6, AnswerText
  <2> QED
    BY <2>1 DEF Text
<1> QED
  BY <1>1, <1>4, <1>5, <1>7
-----------------------------------------------------------------------------
(* Types.                                                                  *)

LEMMA AskedType ==
  ASSUME NEW r \in Polite \union Odd
  PROVE  r \in Seq(Unit)
BY PoliteText, OddAssumption

LEMMA InitTypes == Init => TypeOK
<1> SUFFICES ASSUME Init PROVE TypeOK
  OBVIOUS
<1>1. manner \in MannerSet /\ timed \in BOOLEAN
  BY ModesAssumption DEF Init
<1>2. << >> \in Seq(Unit) /\ Len(<< >>) = 0
  BY EmptySeq
<1>3. << >> \in Seq(Polite \union Odd) /\ << >> \in Seq(Seq(Unit))
  BY EmptySeq
<1>4. /\ 0 <= RecvSize /\ 0 <= SendSize /\ 0 <= WireSize /\ 0 \in Nat
  BY SizesAssumption
<1>5. /\ pc \in CellState /\ pc # "gone" /\ writable \in BOOLEAN
      /\ clientOpen \in BOOLEAN /\ keepalive \in BOOLEAN /\ closing \in BOOLEAN /\ ended \in BOOLEAN
  BY DEF Init, CellState
<1>6. /\ up = << >> /\ recvBuff = << >> /\ sendBuff = << >> /\ down = << >>
      /\ clientBuff = << >> /\ asked = << >> /\ taken = << >>
      /\ dtHeart = 0 /\ handled = 0
  BY DEF Init
<1> QED
  BY ONLY <1>1, <1>2, <1>3, <1>4, <1>5, <1>6 DEF TypeOK

\* Removing the Client leaves the types as they are.
LEMMA RemoveTypes ==
  ASSUME TypeOK, Remove
  PROVE  /\ pc' = "gone" /\ writable' = FALSE
         /\ up' = << >> /\ recvBuff' = << >> /\ sendBuff' = << >>
         /\ down' \in Seq(Unit) /\ Len(down') <= WireSize
         /\ \E n \in 0..Len(down) :
               down' = SubSeq(down, 1, n) /\ (up = << >> => n = Len(down))
<1>1. PICK n \in 0..Len(down) :
          down' = SubSeq(down, 1, n) /\ (up = << >> => n = Len(down))
  BY DEF Remove
<1>2. down \in Seq(Unit) /\ Len(down) <= WireSize
  BY DEF TypeOK
<1>3. down' \in Seq(Unit) /\ Len(down') = n
  BY <1>1, <1>2, Cut
<1>4. Len(down') <= WireSize
  <2>1. Len(down) \in Nat
    BY <1>2, LenProperties
  <2> QED
    BY <1>2, <1>3, <2>1, SizesAssumption
<1> QED
  BY <1>1, <1>3, <1>4 DEF Remove

\* A request is handled: its answer is written and it is popped.
LEMMA HandledTypes ==
  ASSUME TypeOK, OnNetMsg
  PROVE  /\ sendBuff' \in Seq(Unit) /\ Len(sendBuff') <= SendSize
         /\ recvBuff' \in Seq(Unit) /\ Len(recvBuff') <= RecvSize
         /\ keepalive' \in BOOLEAN
<1>1. /\ recvBuff \in Seq(Unit) /\ Len(recvBuff) <= RecvSize
      /\ sendBuff \in Seq(Unit) /\ Len(sendBuff) <= SendSize
      /\ Whole(recvBuff, {"GET", "POST"})
  BY DEF TypeOK, OnNetMsg, HasRequest
<1>2. /\ recvBuff # << >> /\ BodyLen(recvBuff) \in Nat
      /\ TextLen(recvBuff) \in 2..Len(recvBuff) /\ Len(recvBuff) \in Nat
  BY <1>1, WholeIs
<1>3. sendBuff' \in Seq(Unit) /\ Len(sendBuff') <= SendSize
  <2>1. Status(recvBuff) \in Int /\ Content(recvBuff) \in Int
    BY <1>1, <1>2, AnswerType
  <2>2. sendBuff' = Written(sendBuff, Status(recvBuff), Content(recvBuff))
    BY DEF OnNetMsg
  <2> QED
    BY <1>1, <2>1, <2>2, WrittenType
<1>4. recvBuff' \in Seq(Unit) /\ Len(recvBuff') <= RecvSize
  <2> DEFINE b == Behind(recvBuff)
             w == BodyLen(recvBuff) > 0
  <2>1. b \in Seq(Unit) /\ Len(b) = Len(recvBuff) - TextLen(recvBuff)
    BY <1>1, FrontAndBehind
  <2>2. w \in BOOLEAN /\ recvBuff' = Split(b, w)
    BY DEF OnNetMsg
  <2> HIDE DEF b, w
  <2>3. recvBuff' \in Seq(Unit) /\ Len(recvBuff') = Len(b)
    BY <2>1, <2>2, SplitIs
  <2>4. Len(b) <= RecvSize
    BY <1>1, <1>2, <2>1, SizesAssumption
  <2> QED
    BY <2>3, <2>4
<1>5. keepalive' \in BOOLEAN
  BY DEF OnNetMsg, Keeps
<1> QED
  BY <1>3, <1>4, <1>5

LEMMA TypesNext == TypeOK /\ [Next]_vars => TypeOK'
<1> SUFFICES ASSUME TypeOK, [Next]_vars PROVE TypeOK'
  OBVIOUS
<1>1. ASSUME NEW r \in Polite \union Odd, Ask(r) PROVE TypeOK'
  <2>1. r \in Seq(Unit)
    BY AskedType
  <2>2. up' \in Seq(Unit) /\ (pc = "gone" => up' = << >>)
    <3>1. up \o r \in Seq(Unit)
      BY <2>1, ConcatProperties DEF TypeOK
    <3> QED
      BY <1>1, <3>1 DEF Ask, TypeOK
  <2>3. asked' \in Seq(Polite \union Odd)
    BY <1>1, AppendProperties DEF Ask, TypeOK
  <2> QED
    BY <1>1, <2>2, <2>3 DEF Ask, TypeOK, modes, flags
<1>2. CASE ClientRecv
  <2>1. PICK n \in 1..Len(down) :
            /\ Len(clientBuff) + n <= RecvSize
            /\ clientBuff' = IF manner = "odd" THEN << >>
                             ELSE clientBuff \o SubSeq(down, 1, n)
            /\ down' = SubSeq(down, n + 1, Len(down))
    BY <1>2 DEF ClientRecv
  <2>2. /\ clientBuff \in Seq(Unit) /\ down \in Seq(Unit) /\ Len(down) <= WireSize
        /\ Len(down) \in Nat
    BY LenProperties DEF TypeOK
  <2>3. n \in 0..Len(down)
    BY <2>1, <2>2
  <2>4. /\ clientBuff \o SubSeq(down, 1, n) \in Seq(Unit)
        /\ Len(clientBuff \o SubSeq(down, 1, n)) = Len(clientBuff) + n
        /\ down' \in Seq(Unit) /\ Len(down') = Len(down) - n
    BY <2>1, <2>2, <2>3, MoveUnits
  <2>5. clientBuff' \in Seq(Unit) /\ Len(clientBuff') <= RecvSize
    BY <2>1, <2>4, EmptySeq, SizesAssumption
  <2>6. Len(down') <= WireSize
    BY <2>1, <2>2, <2>4, SizesAssumption
  <2> QED
    BY <1>2, <2>4, <2>5, <2>6 DEF ClientRecv, TypeOK, modes, flags
<1>3. CASE ClientTake
  <2>1. /\ clientBuff \in Seq(Unit) /\ Len(clientBuff) <= RecvSize
        /\ Whole(clientBuff, {"HTTP"})
    BY <1>3 DEF ClientTake, TypeOK, HasAnswer
  <2>2. /\ Front(clientBuff) \in Seq(Unit) /\ Behind(clientBuff) \in Seq(Unit)
        /\ Len(Behind(clientBuff)) = Len(clientBuff) - TextLen(clientBuff)
        /\ TextLen(clientBuff) \in 2..Len(clientBuff) /\ Len(clientBuff) \in Nat
    BY <2>1, FrontAndBehind, WholeIs
  <2>3. Len(Behind(clientBuff)) <= RecvSize
    BY <2>1, <2>2, SizesAssumption
  <2>4. Append(taken, Front(clientBuff)) \in Seq(Seq(Unit))
    BY <2>2, AppendProperties DEF TypeOK
  <2> QED
    BY <1>3, <2>2, <2>3, <2>4 DEF ClientTake, TypeOK, modes, flags
<1>4. CASE ClientClose
  <2>1. << >> \in Seq(Unit) /\ Len(<< >>) = 0 /\ 0 <= RecvSize /\ 0 <= WireSize
    BY EmptySeq, SizesAssumption
  <2> QED
    BY <1>4, <2>1 DEF ClientClose, TypeOK, modes, flags
<1>5. ASSUME NEW dt \in 0..MaxDt, CheckTime(dt) PROVE TypeOK'
  <2>1. dtHeart' \in Nat
    BY <1>5, HeartAssumption DEF CheckTime, TypeOK
  <2>2. CASE Remove
    <3>1. << >> \in Seq(Unit) /\ Len(<< >>) = 0 /\ 0 <= RecvSize /\ 0 <= SendSize
      BY EmptySeq, SizesAssumption
    <3> QED
      BY <1>5, <2>1, <2>2, <3>1, RemoveTypes DEF CheckTime, TypeOK, CellState, modes, clientVars
  <2>3. CASE pc' = "poll" /\ UNCHANGED <<writable, up, recvBuff, sendBuff, down>>
    BY <1>5, <2>1, <2>3 DEF CheckTime, TypeOK, CellState, modes, clientVars
  <2> QED
    BY <1>5, <2>2, <2>3 DEF CheckTime
<1>6. ASSUME NEW in \in BOOLEAN, NEW out \in BOOLEAN, Poll(in, out) PROVE TypeOK'
  <2>1. writable' \in BOOLEAN
    BY <1>6 DEF Poll
  <2>2. pc' \in CellState /\ pc # "gone" /\ pc' # "gone"
    BY <1>6 DEF Poll, CellState
  <2> QED
    BY <1>6, <2>1, <2>2 DEF Poll, TypeOK, modes, clientVars, flags
<1>7. CASE Recv
  <2>1. PICK n \in 0..Len(up) :
            /\ Len(recvBuff) + n <= RecvSize
            /\ recvBuff' = recvBuff \o SubSeq(up, 1, n)
            /\ up' = SubSeq(up, n + 1, Len(up))
    BY <1>7 DEF Recv
  <2>2. recvBuff \in Seq(Unit) /\ up \in Seq(Unit)
    BY DEF TypeOK
  <2>3. recvBuff' \in Seq(Unit) /\ Len(recvBuff') = Len(recvBuff) + n /\ up' \in Seq(Unit)
    BY <2>1, <2>2, MoveUnits
  <2>4. Len(recvBuff') <= RecvSize
    BY <2>1, <2>3
  <2>5. pc' \in CellState /\ pc' # "gone" /\ writable' = FALSE
    BY <1>7 DEF Recv, CellState
  <2> QED
    BY <1>7, <2>3, <2>4, <2>5 DEF Recv, TypeOK, modes, clientVars, flags
<1>8. CASE Send
  <2>1. PICK n \in 1..Len(sendBuff) :
            /\ Len(down) + n <= WireSize
            /\ down' = down \o SubSeq(sendBuff, 1, n)
            /\ sendBuff' = SubSeq(sendBuff, n + 1, Len(sendBuff))
            /\ closing' = (closing \/ (n = Len(sendBuff) /\ ~keepalive))
    BY <1>8 DEF Send
  <2>2. /\ down \in Seq(Unit) /\ sendBuff \in Seq(Unit) /\ Len(sendBuff) <= SendSize
        /\ Len(sendBuff) \in Nat
    BY LenProperties DEF TypeOK
  <2>3. n \in 0..Len(sendBuff)
    BY <2>1, <2>2
  <2>4. /\ down' \in Seq(Unit) /\ Len(down') = Len(down) + n
        /\ sendBuff' \in Seq(Unit) /\ Len(sendBuff') = Len(sendBuff) - n
    BY <2>1, <2>2, <2>3, MoveUnits
  <2>5. Len(down') <= WireSize /\ Len(sendBuff') <= SendSize
    BY <2>1, <2>2, <2>4, SizesAssumption
  <2>6. closing' \in BOOLEAN
    BY <2>1
  <2>7. pc' \in CellState /\ pc' # "gone"
    BY <1>8 DEF Send, CellState
  <2> QED
    BY <1>8, <2>4, <2>5, <2>6, <2>7 DEF Send, TypeOK, modes, clientVars
<1>9. CASE SocketError
  <2>1. << >> \in Seq(Unit) /\ Len(<< >>) = 0 /\ 0 <= RecvSize /\ 0 <= SendSize
    BY EmptySeq, SizesAssumption
  <2>2. Remove
    BY <1>9 DEF SocketError
  <2> QED
    BY <1>9, <2>1, <2>2, RemoveTypes DEF SocketError, TypeOK, CellState, modes, clientVars, flags
<1>10. CASE OnNetMsg
  <2>1. handled' \in Nat /\ dtHeart' \in Nat /\ pc' \in CellState /\ pc' # "gone"
    BY <1>10 DEF OnNetMsg, TypeOK, CellState
  <2> QED
    BY <1>10, <2>1, HandledTypes DEF OnNetMsg, TypeOK, modes, clientVars
<1>11. CASE MsgEnd
  <2>1. sendBuff' \in Seq(Unit) /\ Len(sendBuff') <= SendSize
    <3>1. /\ Written(sendBuff, 400, 0) \in Seq(Unit)
          /\ Len(Written(sendBuff, 400, 0)) <= SendSize
      BY WrittenType DEF TypeOK
    <3> QED
      BY <1>11, <3>1 DEF MsgEnd, TypeOK
  <2>2. pc' \in CellState /\ pc' # "gone"
    BY <1>11 DEF MsgEnd, CellState
  <2> QED
    BY <1>11, <2>1, <2>2 DEF MsgEnd, TypeOK, modes, clientVars, flags
<1>12. CASE LoopEnds
  <2>1. << >> \in Seq(Unit) /\ Len(<< >>) = 0 /\ 0 <= RecvSize /\ 0 <= SendSize
    BY EmptySeq, SizesAssumption
  <2>2. Remove
    BY <1>12 DEF LoopEnds
  <2> QED
    BY <1>12, <2>1, <2>2, RemoveTypes DEF LoopEnds, TypeOK, CellState, modes, clientVars, flags
<1>13. CASE UNCHANGED vars
  BY <1>13 DEF vars, modes, clientVars, flags, TypeOK
<1> QED
  BY <1>1, <1>2, <1>3, <1>4, <1>5, <1>6, <1>7, <1>8, <1>9, <1>10, <1>11, <1>12, <1>13
     DEF Next, CellStep

\* Types: every buffer keeps within its size, and of a deleted Client nothing is
\* left, for every size, length and choice of requests.
THEOREM TypesKept == Spec => []TypeOK
BY InitTypes, TypesNext, PTL DEF Spec
-----------------------------------------------------------------------------
(* The stream of a polite client.                                          *)

\* s is the requests of q after the first h, one behind the other: the i-th of
\* q ends at position p[i].
Frames(p, s, q, h) ==
    /\ p[h] = 0 /\ p[Len(q)] = Len(s)
    /\ \A i, j \in h..Len(q) : i <= j => p[i] <= p[j]
    /\ \A i \in (h + 1)..Len(q) :
          /\ p[i] = p[i - 1] + Len(q[i])
          /\ \A j \in 1..Len(q[i]) : s[p[i - 1] + j] = q[i][j]

Framed(s, q, h) == \E p \in [h..Len(q) -> Nat] : Frames(p, s, q, h)

\* What a polite client has sent and the server not handled is the requests not
\* yet handled, unless parsing has torn the next one.
FrameInv ==
    manner # "odd" =>
        /\ asked \in Seq(Polite)
        /\ handled \in 0..Len(asked)
        /\ pc # "gone" => Torn(recvBuff) \/ Framed(recvBuff \o up, asked, handled)

LEMMA FramedEmpty == Framed(<< >>, << >>, 0)
<1> DEFINE p == [i \in 0..0 |-> 0]
<1>1. Len(<< >>) = 0 /\ p \in [0..0 -> Nat] /\ p[0] = 0
  BY EmptySeq
<1>2. \A i \in (0 + 1)..0 : FALSE
  OBVIOUS
<1>3. \A i \in 0..0 : p[i] = 0
  OBVIOUS
<1> HIDE DEF p
<1>4. Frames(p, << >>, << >>, 0)
  BY <1>1, <1>2, <1>3 DEF Frames
<1> QED
  BY <1>1, <1>4 DEF Framed

LEMMA FramedEnd ==
  ASSUME NEW s \in Seq(Unit), NEW q \in Seq(Polite), Framed(s, q, Len(q))
  PROVE  s = << >>
<1>1. Len(s) = 0
  BY DEF Framed, Frames
<1> QED
  BY <1>1, EmptySeq

LEMMA FramedFront ==
  ASSUME NEW s \in Seq(Unit), NEW q \in Seq(Polite), NEW h \in 0..(Len(q) - 1),
         Framed(s, q, h)
  PROVE  /\ q[h + 1] \in Polite
         /\ Len(q[h + 1]) <= Len(s)
         /\ \A j \in 1..Len(q[h + 1]) : s[j] = q[h + 1][j]
<1>1. PICK p \in [h..Len(q) -> Nat] : Frames(p, s, q, h)
  BY DEF Framed
<1>2. Len(q) \in Nat
  BY LenProperties
<1>3. /\ h + 1 \in 1..Len(q) /\ h + 1 \in (h + 1)..Len(q) /\ (h + 1) - 1 = h
      /\ h + 1 \in h..Len(q) /\ Len(q) \in h..Len(q) /\ h + 1 <= Len(q)
  BY <1>2
<1>4. q[h + 1] \in Polite /\ q[h + 1] \in Seq(Unit)
  BY <1>3, ElementOfSeq, PoliteText
<1> DEFINE r == q[h + 1]
<1>5. /\ p[h + 1] = p[h] + Len(r) /\ p[h] = 0
      /\ \A j \in 1..Len(r) : s[p[h] + j] = r[j]
  BY <1>1, <1>3 DEF Frames
<1>6. p[h + 1] <= Len(s)
  BY <1>1, <1>3 DEF Frames
<1>7. Len(r) \in Nat /\ r \in Polite
  BY <1>4, LenProperties
<1> HIDE DEF r
<1>8. Len(r) <= Len(s)
  BY <1>5, <1>6, <1>7
<1>9. \A j \in 1..Len(r) : s[j] = r[j]
  BY <1>5, <1>7
<1> QED
  BY <1>7, <1>8, <1>9 DEF r

LEMMA FramedAppend ==
  ASSUME NEW s \in Seq(Unit), NEW q \in Seq(Polite), NEW h \in 0..Len(q), NEW r \in Polite,
         Framed(s, q, h)
  PROVE  Framed(s \o r, Append(q, r), h)
<1> DEFINE n == Len(q)
           l == Len(r)
           m == Len(s)
           z == s \o r
           y == Append(q, r)
<1>1. PICK p \in [h..n -> Nat] : Frames(p, s, q, h)
  BY DEF Framed
<1>2. n \in Nat /\ l \in Nat /\ m \in Nat /\ r \in Seq(Unit)
  BY LenProperties, PoliteText
<1>3. /\ Len(z) = m + l
      /\ \A i \in 1..(m + l) : z[i] = IF i <= m THEN s[i] ELSE r[i - m]
  BY <1>2, ConcatProperties
<1>4. /\ Len(y) = n + 1 /\ y[n + 1] = r /\ \A i \in 1..n : y[i] = q[i]
  BY AppendProperties
<1>5. /\ p[h] = 0 /\ p[n] = m
      /\ \A i, j \in h..n : i <= j => p[i] <= p[j]
      /\ \A i \in (h + 1)..n : /\ p[i] = p[i - 1] + Len(q[i])
                               /\ \A j \in 1..Len(q[i]) : s[p[i - 1] + j] = q[i][j]
  BY <1>1 DEF Frames
<1>6. \A i \in (h + 1)..n : Len(q[i]) \in Nat
  BY <1>2, ElementOfSeq, PoliteText, LenProperties
<1> DEFINE pp == [i \in h..(n + 1) |-> IF i = n + 1 THEN m + l ELSE p[i]]
<1>7. /\ pp \in [h..(n + 1) -> Nat]
      /\ \A i \in h..n : pp[i] = p[i] /\ p[i] \in Nat /\ p[i] <= m
      /\ pp[n + 1] = m + l
  <2>0. h \in 0..n /\ p \in [h..n -> Nat]
    OBVIOUS
  <2> HIDE DEF n, l, m
  <2>1. n \in h..n /\ n + 1 \in h..(n + 1)
    BY <1>2, <2>0
  <2>2. ASSUME NEW i \in h..n PROVE p[i] \in Nat /\ p[i] <= m
    <3>1. i <= n
      BY <1>2, <2>0
    <3>2. p[i] <= p[n]
      BY <1>5, <2>1, <3>1
    <3> QED
      BY <1>5, <2>0, <3>2
  <2>3. \A i \in h..(n + 1) : i # n + 1 => i \in h..n
    BY <1>2, <2>0
  <2>4. \A i \in h..n : i # n + 1 /\ i \in h..(n + 1)
    BY <1>2
  <2>5. ASSUME NEW i \in h..(n + 1)
        PROVE  (IF i = n + 1 THEN m + l ELSE p[i]) \in Nat
    BY <1>2, <2>2, <2>3
  <2>6. pp \in [h..(n + 1) -> Nat]
    BY <2>5
  <2>7. \A i \in h..n : pp[i] = p[i]
    BY <2>4
  <2>8. pp[n + 1] = m + l
    BY <2>1
  <2> HIDE DEF pp
  <2> QED
    BY <2>2, <2>6, <2>7, <2>8
<1> HIDE DEF n, l, m, z, y, pp
<1>8. pp[h] = 0 /\ pp[n + 1] = Len(z)
  <2>1. h \in h..n
    BY <1>2 DEF n
  <2> QED
    BY <1>3, <1>5, <1>7, <2>1
<1>9. ASSUME NEW i \in h..(n + 1), NEW j \in h..(n + 1), i <= j PROVE pp[i] <= pp[j]
  <2>1. CASE j = n + 1 /\ i = n + 1
    BY <1>2, <1>7, <2>1
  <2>2. CASE j = n + 1 /\ i # n + 1
    <3>1. i \in h..n
      BY <1>2, <2>2
    <3> QED
      BY <1>2, <1>7, <2>2, <3>1
  <2>3. CASE j # n + 1
    <3>1. i \in h..n /\ j \in h..n
      BY <1>2, <1>9, <2>3
    <3> QED
      BY <1>5, <1>7, <1>9, <3>1
  <2> QED
    BY <2>1, <2>2, <2>3
<1>10. ASSUME NEW i \in (h + 1)..(n + 1)
       PROVE  /\ pp[i] = pp[i - 1] + Len(y[i])
              /\ \A j \in 1..Len(y[i]) : z[pp[i - 1] + j] = y[i][j]
  <2>1. CASE i = n + 1
    <3>1. i - 1 = n /\ n \in h..n
      BY <1>2, <2>1 DEF n
    <3>2. pp[i] = m + l /\ pp[i - 1] = m /\ y[i] = r /\ Len(y[i]) = l
      BY <1>4, <1>5, <1>7, <2>1, <3>1 DEF l
    <3>3. ASSUME NEW j \in 1..l PROVE z[m + j] = r[j]
      <4>1. m + j \in 1..(m + l) /\ ~(m + j <= m) /\ (m + j) - m = j
        BY <1>2
      <4> QED
        BY <1>3, <4>1
    <3> QED
      BY <3>2, <3>3
  <2>2. CASE i # n + 1
    <3>1. i \in (h + 1)..n /\ i \in 1..n /\ i \in h..n /\ i - 1 \in h..n
      BY <1>2, <2>2
    <3>2. y[i] = q[i] /\ pp[i] = p[i] /\ pp[i - 1] = p[i - 1]
      BY <1>4, <1>7, <3>1
    <3>3. p[i] = p[i - 1] + Len(q[i]) /\ p[i] <= m /\ p[i - 1] \in Nat /\ Len(q[i]) \in Nat
      BY <1>5, <1>6, <1>7, <3>1
    <3>4. ASSUME NEW j \in 1..Len(q[i]) PROVE z[p[i - 1] + j] = q[i][j]
      <4> DEFINE a == p[i - 1]
                 c == Len(q[i])
                 e == p[i]
      <4>1. s[a + j] = q[i][j]
        BY <1>5, <3>1
      <4>2. e = a + c /\ e <= m /\ a \in Nat /\ c \in Nat /\ j \in 1..c
        BY <3>3
      <4> HIDE DEF a, c, e
      <4>3. a + j \in 1..(m + l) /\ a + j <= m
        BY <1>2, <4>2
      <4> QED
        BY <1>3, <4>1, <4>3 DEF a
    <3> QED
      BY <3>2, <3>3, <3>4
  <2> QED
    BY <2>1, <2>2
<1>11. Frames(pp, z, y, h)
  BY <1>4, <1>8, <1>9, <1>10 DEF Frames
<1>12. Framed(z, y, h)
  BY <1>4, <1>7, <1>11 DEF Framed
<1> QED
  BY <1>12 DEF z, y

\* Without its first request the stream is that of the others.
LEMMA FramedPop ==
  ASSUME NEW s \in Seq(Unit), NEW q \in Seq(Polite), NEW h \in 0..(Len(q) - 1),
         Framed(s, q, h),
         NEW t \in Seq(Unit), Len(t) = Len(s) - Len(q[h + 1]),
         \A i \in 1..Len(t) : t[i] = s[Len(q[h + 1]) + i]
  PROVE  Framed(t, q, h + 1)
<1> DEFINE n == Len(q)
           l == Len(q[h + 1])
           m == Len(t)
           g == h + 1
<1>1. PICK p \in [h..n -> Nat] : Frames(p, s, q, h)
  BY DEF Framed
<1>2. /\ p[h] = 0 /\ p[n] = Len(s)
      /\ \A i, j \in h..n : i <= j => p[i] <= p[j]
      /\ \A i \in (h + 1)..n : /\ p[i] = p[i - 1] + Len(q[i])
                               /\ \A j \in 1..Len(q[i]) : s[p[i - 1] + j] = q[i][j]
  BY <1>1 DEF Frames
<1>3. /\ n \in Nat /\ m \in Nat /\ h \in 0..(n - 1) /\ h \in Nat
      /\ \A i \in 1..n : Len(q[i]) \in Nat
  BY LenProperties, ElementOfSeq, PoliteText
<1>4. p \in [h..n -> Nat] /\ \A i \in 1..m : t[i] = s[l + i]
  OBVIOUS
<1>5. Len(s) = m + l /\ l \in Nat
  <2>1. Len(s) \in Nat /\ l \in Nat
    <3>1. h + 1 \in 1..n
      BY <1>3
    <3> QED
      BY <1>3, <3>1, LenProperties
  <2>2. m = Len(s) - l
    OBVIOUS
  <2> HIDE DEF m, l
  <2> QED
    BY <1>3, <2>1, <2>2
<1>6. p[g] = l
  <2>1. h + 1 \in (h + 1)..n /\ (h + 1) - 1 = h
    BY <1>3
  <2>2. p[h + 1] = p[(h + 1) - 1] + l
    BY <1>2, <2>1
  <2> HIDE DEF l
  <2>3. p[h + 1] = 0 + l
    BY <1>2, <2>1, <2>2
  <2> QED
    BY <1>5, <2>3
<1> DEFINE pp == [i \in g..n |-> p[i] - l]
<1> HIDE DEF n, l, m
<1>7. g \in g..n /\ n \in g..n /\ g \in h..n /\ n \in h..n /\ g \in Nat
  BY <1>3
<1> HIDE DEF g
<1>8. ASSUME NEW i \in g..n
      PROVE  /\ i \in h..n /\ p[i] \in Nat /\ p[i] - l \in Nat /\ p[i] - l <= m
  <2>1. i \in h..n /\ g <= i /\ i <= n
    BY <1>3, <1>7 DEF g
  <2>2. p[g] <= p[i] /\ p[i] <= p[n]
    BY <1>2, <1>7, <2>1
  <2>3. p[i] \in Nat
    BY <1>4, <2>1
  <2>4. l <= p[i] /\ p[i] <= m + l
    BY <1>2, <1>5, <1>6, <2>2
  <2> DEFINE x == p[i]
  <2>5. x \in Nat /\ l <= x /\ x <= m + l
    BY <2>3, <2>4
  <2> HIDE DEF x
  <2>6. x - l \in Nat /\ x - l <= m
    BY ONLY <1>3, <1>5, <2>5
  <2> QED
    BY <2>1, <2>3, <2>6 DEF x
<1>9. /\ pp \in [g..n -> Nat] /\ \A i \in g..n : pp[i] = p[i] - l
  BY <1>8
<1> HIDE DEF pp
<1>10. pp[g] = 0 /\ pp[n] = m
  BY <1>2, <1>3, <1>5, <1>6, <1>7, <1>9
<1>11. ASSUME NEW i \in g..n, NEW j \in g..n, i <= j PROVE pp[i] <= pp[j]
  <2>1. p[i] <= p[j] /\ p[i] \in Nat /\ p[j] \in Nat
    BY <1>2, <1>8, <1>11
  <2> QED
    BY <1>5, <1>9, <2>1
<1>12. ASSUME NEW i \in (g + 1)..n
       PROVE  /\ pp[i] = pp[i - 1] + Len(q[i])
              /\ \A j \in 1..Len(q[i]) : t[pp[i - 1] + j] = q[i][j]
  <2> DEFINE a == p[i - 1]
             c == Len(q[i])
             e == p[i]
  <2>1. i \in g..n /\ i - 1 \in g..n /\ i \in (h + 1)..n /\ i \in 1..n
    BY <1>3, <1>7 DEF g
  <2>2. e = a + c /\ \A j \in 1..c : s[a + j] = q[i][j]
    BY <1>2, <2>1
  <2>3. /\ pp[i] = e - l /\ pp[i - 1] = a - l /\ e \in Nat /\ a \in Nat /\ c \in Nat
        /\ e - l <= m /\ a - l \in Nat
    BY <1>3, <1>8, <1>9, <2>1
  <2> HIDE DEF a, c, e
  <2>4. pp[i] = pp[i - 1] + c
    BY <1>5, <2>2, <2>3
  <2>5. ASSUME NEW j \in 1..c PROVE t[pp[i - 1] + j] = q[i][j]
    <3>1. (a - l) + j \in 1..m /\ l + ((a - l) + j) = a + j
      BY <1>3, <1>5, <2>2, <2>3
    <3>2. t[(a - l) + j] = s[a + j]
      BY <1>4, <3>1
    <3> QED
      BY <2>2, <2>3, <3>2
  <2> QED
    BY <2>4, <2>5 DEF c
<1>13. Frames(pp, t, q, g)
  BY <1>10, <1>11, <1>12 DEF Frames, m, n
<1> QED
  BY <1>9, <1>13 DEF Framed, g, n

\* What waits in front of the server: torn, the beginning of the next request,
\* or nothing.
LEMMA NextRequest ==
  ASSUME TypeOK, FrameInv, manner # "odd", pc # "gone"
  PROVE  \/ Torn(recvBuff)
         \/ /\ handled \in 0..(Len(asked) - 1)
            /\ asked[handled + 1] \in Polite
            /\ Agrees(recvBuff, asked[handled + 1])
            /\ Framed(recvBuff \o up, asked, handled)
         \/ handled = Len(asked) /\ recvBuff = << >> /\ up = << >>
<1> DEFINE s == recvBuff \o up
<1>1. recvBuff \in Seq(Unit) /\ up \in Seq(Unit)
  BY DEF TypeOK
<1>2. /\ s \in Seq(Unit) /\ Len(s) = Len(recvBuff) + Len(up)
      /\ \A i \in 1..(Len(recvBuff) + Len(up)) :
            s[i] = IF i <= Len(recvBuff) THEN recvBuff[i] ELSE up[i - Len(recvBuff)]
  BY <1>1, ConcatProperties
<1>3. Len(recvBuff) \in Nat /\ Len(up) \in Nat
  BY <1>1, LenProperties
<1>4. \A i \in 1..Len(recvBuff) : s[i] = recvBuff[i]
  BY <1>2, <1>3
<1>5. /\ asked \in Seq(Polite) /\ handled \in 0..Len(asked)
      /\ Torn(recvBuff) \/ Framed(s, asked, handled)
  BY DEF FrameInv
<1>6. Len(asked) \in Nat
  BY <1>5, LenProperties
<1> SUFFICES ASSUME Framed(s, asked, handled)
             PROVE  \/ /\ handled \in 0..(Len(asked) - 1)
                       /\ asked[handled + 1] \in Polite
                       /\ Agrees(recvBuff, asked[handled + 1])
                    \/ handled = Len(asked) /\ recvBuff = << >> /\ up = << >>
  BY <1>5
<1>7. CASE handled = Len(asked)
  <2>1. s = << >>
    BY <1>2, <1>5, <1>7, FramedEnd
  <2>2. recvBuff \o up = << >>
    BY <2>1
  <2>3. recvBuff = << >> /\ up = << >>
    BY ONLY <1>1, <2>2, ConcatEqualIffEmpty
  <2> QED
    BY <1>7, <2>3
<1>8. CASE handled # Len(asked)
  <2>1. handled \in 0..(Len(asked) - 1)
    BY <1>5, <1>6, <1>8
  <2> DEFINE r == asked[handled + 1]
  <2>2. /\ r \in Polite /\ Len(r) <= Len(s)
        /\ \A j \in 1..Len(r) : s[j] = r[j]
    BY <1>2, <1>5, <2>1, FramedFront
  <2>3. Len(r) \in Nat
    BY <2>2, PoliteText, LenProperties
  <2>4. ASSUME NEW i \in 1..Len(recvBuff), i <= Len(r) PROVE recvBuff[i] = r[i]
    <3>1. i \in 1..Len(r)
      BY <1>3, <2>3, <2>4
    <3> QED
      BY <1>4, <2>2, <3>1
  <2> HIDE DEF r
  <2>5. Agrees(recvBuff, r)
    BY <2>4 DEF Agrees
  <2> QED
    BY <2>1, <2>2, <2>5 DEF r
<1> QED
  BY <1>7, <1>8

LEMMA FrameInit == Init => FrameInv
<1> SUFFICES ASSUME Init PROVE FrameInv
  OBVIOUS
<1>1. recvBuff = << >> /\ up = << >> /\ asked = << >> /\ handled = 0
  BY DEF Init
<1>2. << >> \o << >> = << >> /\ << >> \in Seq(Polite) /\ Len(<< >>) = 0
  BY EmptySeq, ConcatEmptySeq
<1>3. Framed(recvBuff \o up, asked, handled)
  BY <1>1, <1>2, FramedEmpty
<1> QED
  BY <1>1, <1>2, <1>3 DEF FrameInv

LEMMA FrameAsk ==
  ASSUME TypeOK, FrameInv, NEW r \in Polite \union Odd, Ask(r)
  PROVE  FrameInv'
<1> SUFFICES ASSUME manner # "odd"
             PROVE  /\ asked' \in Seq(Polite)
                    /\ handled' \in 0..Len(asked')
                    /\ pc # "gone" => Torn(recvBuff') \/ Framed(recvBuff' \o up', asked', handled')
  BY DEF Ask, FrameInv, modes
<1>1. /\ asked \in Seq(Polite) /\ handled \in 0..Len(asked) /\ r \in Polite
      /\ pc # "gone" => Torn(recvBuff) \/ Framed(recvBuff \o up, asked, handled)
  BY DEF FrameInv, Ask
<1>2. r \in Seq(Unit) /\ recvBuff \in Seq(Unit) /\ up \in Seq(Unit)
  BY AskedType DEF TypeOK
<1>3. asked' = Append(asked, r) /\ handled' = handled /\ recvBuff' = recvBuff
  BY DEF Ask, flags
<1>4. Append(asked, r) \in Seq(Polite) /\ Len(Append(asked, r)) = Len(asked) + 1
  BY <1>1, AppendProperties
<1>5. asked' \in Seq(Polite) /\ handled' \in 0..Len(asked')
  <2>1. Len(asked) \in Nat
    BY <1>1, LenProperties
  <2> QED
    BY <1>1, <1>3, <1>4, <2>1
<1>6. ASSUME pc # "gone", Framed(recvBuff \o up, asked, handled)
      PROVE  Framed(recvBuff' \o up', asked', handled')
  <2> DEFINE s == recvBuff \o up
  <2>1. s \in Seq(Unit)
    BY <1>2, ConcatProperties
  <2>2. s \o r = recvBuff \o (up \o r)
    BY ONLY <1>2, ConcatAssociative
  <2>3. up' = up \o r
    BY <1>6 DEF Ask
  <2>4. Framed(s, asked, handled)
    BY <1>6
  <2> HIDE DEF s
  <2>5. Framed(s \o r, Append(asked, r), handled)
    BY <1>1, <2>1, <2>4, FramedAppend
  <2> QED
    BY <1>3, <2>2, <2>3, <2>5
<1> QED
  BY <1>1, <1>3, <1>5, <1>6

LEMMA FrameRecv ==
  ASSUME TypeOK, FrameInv, Recv
  PROVE  FrameInv'
<1>1. PICK n \in 0..Len(up) :
          /\ recvBuff' = recvBuff \o SubSeq(up, 1, n)
          /\ up' = SubSeq(up, n + 1, Len(up))
  BY DEF Recv
<1>2. recvBuff \in Seq(Unit) /\ up \in Seq(Unit)
  BY DEF TypeOK
<1>3. recvBuff' \o up' = recvBuff \o up /\ SubSeq(up, 1, n) \in Seq(Unit)
  <2>1. SubSeq(up, 1, n) \in Seq(Unit)
    BY <1>2, Cut
  <2>2. (recvBuff \o SubSeq(up, 1, n)) \o SubSeq(up, n + 1, Len(up)) = recvBuff \o up
    BY <1>2, MoveUnits
  <2> QED
    BY <1>1, <2>1, <2>2
<1>4. Torn(recvBuff) => Torn(recvBuff')
  BY <1>1, <1>2, <1>3, TornStays
<1> QED
  BY <1>3, <1>4 DEF Recv, FrameInv, modes, clientVars, flags

\* A whole request in front of the buffer is the next one of the stream.
LEMMA WholeIsNext ==
  ASSUME TypeOK, FrameInv, manner # "odd", HasRequest(recvBuff)
  PROVE  /\ handled \in 0..(Len(asked) - 1)
         /\ asked[handled + 1] \in Polite
         /\ Agrees(recvBuff, asked[handled + 1])
         /\ Len(asked[handled + 1]) <= Len(recvBuff)
         /\ TextLen(recvBuff) = Len(asked[handled + 1])
         /\ Framed(recvBuff \o up, asked, handled)
<1>1. recvBuff \in Seq(Unit) /\ Whole(recvBuff, {"GET", "POST"})
  BY DEF TypeOK, HasRequest
<1>2. recvBuff # << >> /\ Headed(recvBuff)
  BY <1>1, WholeIs DEF Whole
<1>3. pc # "gone" /\ ~Torn(recvBuff)
  BY <1>1, <1>2, TornUnseen DEF TypeOK
<1> DEFINE r == asked[handled + 1]
<1>4. /\ handled \in 0..(Len(asked) - 1) /\ r \in Polite /\ Agrees(recvBuff, r)
      /\ Framed(recvBuff \o up, asked, handled)
  BY <1>2, <1>3, NextRequest
<1> HIDE DEF r
<1>5. Text(r, {"GET", "POST"})
  BY <1>4, PoliteText
<1>6. Len(r) <= Len(recvBuff) /\ TextLen(recvBuff) = Len(r)
  BY <1>1, <1>4, <1>5, Recognised
<1> QED
  BY <1>4, <1>6 DEF r

LEMMA FrameOnNetMsg ==
  ASSUME TypeOK, FrameInv, OnNetMsg
  PROVE  FrameInv'
<1> SUFFICES ASSUME manner # "odd"
             PROVE  /\ handled' \in 0..Len(asked)
                    /\ asked \in Seq(Polite)
                    /\ Torn(recvBuff') \/ Framed(recvBuff' \o up, asked, handled')
  BY DEF OnNetMsg, FrameInv, modes, clientVars
<1> DEFINE r == asked[handled + 1]
           f == Front(recvBuff)
           b == Behind(recvBuff)
           w == BodyLen(recvBuff) > 0
           s == recvBuff \o up
           t == b \o up
<1>1. recvBuff \in Seq(Unit) /\ up \in Seq(Unit) /\ Whole(recvBuff, {"GET", "POST"})
  BY DEF TypeOK, OnNetMsg, HasRequest
<1>2. /\ handled \in 0..(Len(asked) - 1) /\ r \in Polite
      /\ TextLen(recvBuff) = Len(r) /\ Framed(s, asked, handled)
      /\ asked \in Seq(Polite)
  BY WholeIsNext DEF OnNetMsg, FrameInv
<1>3. handled' = handled + 1 /\ recvBuff' = Split(b, w) /\ w \in BOOLEAN
  BY DEF OnNetMsg
<1>4. /\ f \in Seq(Unit) /\ Len(f) = Len(r) /\ b \in Seq(Unit) /\ f \o b = recvBuff
  BY <1>1, <1>2, FrontAndBehind
<1>5. Len(asked) \in Nat
  BY <1>2, LenProperties
<1> HIDE DEF r, f, b, w
<1>6. t \in Seq(Unit) /\ s \in Seq(Unit)
  BY <1>1, <1>4, ConcatProperties
<1>7. s = f \o t
  <2>1. f \in Seq(Unit) /\ b \in Seq(Unit) /\ up \in Seq(Unit)
    BY <1>1, <1>4
  <2>2. (f \o b) \o up = f \o (b \o up)
    BY ONLY <2>1, ConcatAssociative
  <2> QED
    BY <1>4, <2>2
<1> HIDE DEF s, t
<1>8. /\ Len(s) = Len(f) + Len(t)
      /\ \A i \in 1..(Len(f) + Len(t)) :
            s[i] = IF i <= Len(f) THEN f[i] ELSE t[i - Len(f)]
  BY <1>4, <1>6, <1>7, ConcatProperties
<1>9. Len(f) \in Nat /\ Len(t) \in Nat
  BY <1>4, <1>6, LenProperties
<1>10. Len(t) = Len(s) - Len(r)
  BY <1>4, <1>8, <1>9
<1>11. ASSUME NEW i \in 1..Len(t) PROVE t[i] = s[Len(r) + i]
  <2> DEFINE x == Len(f)
             y == Len(t)
  <2>1. x + i \in 1..(x + y) /\ ~(x + i <= x) /\ (x + i) - x = i
    BY <1>9
  <2>2. s[x + i] = t[i]
    BY <1>8, <2>1
  <2> QED
    BY <1>4, <2>2
<1>12. Framed(t, asked, handled + 1)
  BY <1>2, <1>6, <1>10, <1>11, FramedPop DEF r
<1>13. recvBuff' = b \/ Torn(recvBuff')
  BY <1>3, <1>4, SplitIs
<1>14. handled' \in 0..Len(asked)
  BY <1>2, <1>3, <1>5
<1> QED
  BY <1>2, <1>3, <1>12, <1>13, <1>14 DEF t

LEMMA FrameNext == TypeOK /\ FrameInv /\ [Next]_vars => FrameInv'
<1> SUFFICES ASSUME TypeOK, FrameInv, [Next]_vars PROVE FrameInv'
  OBVIOUS
<1>1. ASSUME NEW r \in Polite \union Odd, Ask(r) PROVE FrameInv'
  BY <1>1, FrameAsk
<1>2. ASSUME ClientRecv \/ ClientTake \/ ClientClose \/ UNCHANGED vars PROVE FrameInv'
  <2>1. UNCHANGED <<manner, pc, up, recvBuff, asked, handled>>
    BY <1>2 DEF ClientRecv, ClientTake, ClientClose, vars, modes, clientVars, flags
  <2> QED
    BY <2>1 DEF FrameInv
<1>3. ASSUME UNCHANGED <<manner, asked, handled>>, pc' = "gone" PROVE FrameInv'
  BY <1>3 DEF FrameInv
<1>4. ASSUME UNCHANGED <<manner, up, recvBuff, asked, handled>>, pc # "gone" PROVE FrameInv'
  BY <1>4 DEF FrameInv
<1>5. ASSUME NEW dt \in 0..MaxDt, CheckTime(dt) PROVE FrameInv'
  <2>1. UNCHANGED <<manner, asked, handled>> /\ pc # "gone"
    BY <1>5 DEF CheckTime, modes, clientVars
  <2>2. Remove \/ UNCHANGED <<up, recvBuff>>
    BY <1>5 DEF CheckTime
  <2> QED
    BY <1>3, <1>4, <2>1, <2>2 DEF Remove
<1>6. ASSUME NEW in \in BOOLEAN, NEW out \in BOOLEAN, Poll(in, out) PROVE FrameInv'
  BY <1>4, <1>6 DEF Poll, modes, clientVars, flags
<1>7. CASE Recv
  BY <1>7, FrameRecv
<1>8. CASE Send
  BY <1>4, <1>8 DEF Send, modes, clientVars
<1>9. CASE SocketError
  BY <1>3, <1>9 DEF SocketError, Remove, modes, clientVars, flags
<1>10. CASE OnNetMsg
  BY <1>10, FrameOnNetMsg
<1>11. CASE MsgEnd
  BY <1>4, <1>11 DEF MsgEnd, modes, clientVars, flags
<1>12. CASE LoopEnds
  BY <1>3, <1>12 DEF LoopEnds, Remove, modes, clientVars, flags
<1> QED
  BY <1>1, <1>2, <1>5, <1>6, <1>7, <1>8, <1>9, <1>10, <1>11, <1>12 DEF Next, CellStep

\* To start with r is to agree with it as far as it goes.
LEMMA StartsWith ==
  ASSUME NEW b \in Seq(Unit), NEW r \in Seq(Unit), Len(r) <= Len(b)
  PROVE  SubSeq(b, 1, Len(r)) = r <=> Agrees(b, r)
<1>1. Len(r) \in Nat /\ Len(b) \in Nat /\ Len(r) \in 0..Len(b)
  BY LenProperties
<1>2. /\ SubSeq(b, 1, Len(r)) \in Seq(Unit) /\ Len(SubSeq(b, 1, Len(r))) = Len(r)
      /\ \A i \in 1..Len(r) : SubSeq(b, 1, Len(r))[i] = b[i]
  BY <1>1, Cut
<1>3. ASSUME Agrees(b, r) PROVE SubSeq(b, 1, Len(r)) = r
  <2>1. ASSUME NEW i \in 1..Len(r) PROVE b[i] = r[i]
    BY <1>1, <1>3 DEF Agrees
  <2> QED
    BY <1>2, <2>1, SeqEqual
<1>4. ASSUME SubSeq(b, 1, Len(r)) = r PROVE Agrees(b, r)
  <2>1. ASSUME NEW i \in 1..Len(b), i <= Len(r) PROVE b[i] = r[i]
    <3>1. i \in 1..Len(r)
      BY <1>1, <2>1
    <3> QED
      BY <1>2, <1>4, <3>1
  <2> QED
    BY <2>1 DEF Agrees
<1> QED
  BY <1>3, <1>4

LEMMA FrameImplies == TypeOK /\ FrameInv => ExactlyWhole
<1> DEFINE r == asked[handled + 1]
           b == recvBuff
<1> SUFFICES ASSUME TypeOK, FrameInv, manner # "odd"
             PROVE  /\ HasRequest(b) <=> /\ handled < Len(asked) /\ Len(r) <= Len(b)
                                         /\ SubSeq(b, 1, Len(r)) = r
                    /\ HasRequest(b) => TextLen(b) = Len(r)
  BY DEF ExactlyWhole
<1>1. /\ b \in Seq(Unit) /\ asked \in Seq(Polite) /\ handled \in 0..Len(asked)
      /\ Len(asked) \in Nat
  BY LenProperties DEF TypeOK, FrameInv
<1>2. ASSUME HasRequest(b)
      PROVE  /\ handled < Len(asked) /\ Len(r) <= Len(b) /\ SubSeq(b, 1, Len(r)) = r
             /\ TextLen(b) = Len(r)
  <2>1. /\ handled \in 0..(Len(asked) - 1) /\ r \in Polite /\ Agrees(b, r)
        /\ Len(r) <= Len(b) /\ TextLen(b) = Len(r)
    BY <1>2, WholeIsNext
  <2>2. r \in Seq(Unit)
    BY <2>1, PoliteText
  <2> HIDE DEF r, b
  <2>3. SubSeq(b, 1, Len(r)) = r
    BY <1>1, <2>1, <2>2, StartsWith
  <2>4. handled < Len(asked)
    BY <1>1, <2>1
  <2> QED
    BY <2>1, <2>3, <2>4
<1>3. ASSUME handled < Len(asked), Len(r) <= Len(b), SubSeq(b, 1, Len(r)) = r
      PROVE  HasRequest(b)
  <2>1. r \in Polite
    <3>1. handled + 1 \in 1..Len(asked)
      BY <1>1, <1>3
    <3> QED
      BY <1>1, <3>1, ElementOfSeq
  <2>2. r \in Seq(Unit) /\ Text(r, {"GET", "POST"})
    BY <2>1, PoliteText
  <2> HIDE DEF r, b
  <2>3. Agrees(b, r)
    BY <1>1, <1>3, <2>2, StartsWith
  <2>4. Whole(b, {"GET", "POST"})
    BY <1>1, <1>3, <2>2, <2>3, Recognised
  <2> QED
    BY <2>4 DEF HasRequest
<1> QED
  BY <1>2, <1>3

\* The request a polite client waits for next is recognised exactly when all of
\* it has come, however it was cut and whatever came with it, for every set of
\* well formed requests and every size of the buffers.
THEOREM RecognisedWhole == Spec => []ExactlyWhole
<1>1. Init => TypeOK /\ FrameInv
  BY InitTypes, FrameInit
<1>2. TypeOK /\ FrameInv /\ [Next]_vars => TypeOK' /\ FrameInv'
  BY TypesNext, FrameNext
<1> QED
  BY <1>1, <1>2, FrameImplies, PTL DEF Spec
-----------------------------------------------------------------------------
(* A client that asks one thing at a time.                                 *)

\* At most one request is under way.
Counts ==
    /\ Len(taken) <= handled /\ handled <= Len(asked) /\ Len(asked) <= Len(taken) + 1

\* What is to be handled is that request and nothing else.
AskInv ==
    pc # "gone" =>
        recvBuff \o up = IF handled < Len(asked) THEN asked[handled + 1] ELSE << >>

\* When it is answered, what is on its way back is the answer, of which the
\* server has the end while it has the Client.
AnswerInv ==
    /\ handled = Len(taken) => clientBuff = << >> /\ down = << >> /\ sendBuff = << >>
    /\ ~clientOpen => clientBuff = << >> /\ down = << >>
    /\ handled > Len(taken) /\ clientOpen =>
          \E z \in Seq(Unit) :
              /\ (clientBuff \o down) \o z = AnswerTo(asked[handled])
              /\ pc # "gone" => z = sendBuff

KeepInv == keepalive <=> (handled = 0 \/ Keeps(asked[handled]))

\* The server closes between the end of an answer and the next check.
CloseInv ==
    closing =>
        /\ pc \in {"msg", "check", "gone"}
        /\ recvBuff = << >> /\ sendBuff = << >>
        /\ ~keepalive /\ handled > 0

SerialInv == manner = "serial" => Counts /\ AskInv /\ AnswerInv /\ KeepInv /\ CloseInv

IInv == TypeOK /\ FrameInv /\ SerialInv

LEMMA Prefix ==
  ASSUME NEW a \in Seq(Unit), NEW b \in Seq(Unit), NEW r, a \o b = r
  PROVE  /\ r \in Seq(Unit) /\ Agrees(a, r)
         /\ Len(a) \in Nat /\ Len(r) = Len(a) + Len(b)
         /\ Len(r) <= Len(a) => a = r /\ b = << >>
<1>1. /\ Len(a) \in Nat /\ Len(b) \in Nat
      /\ r \in Seq(Unit) /\ Len(r) = Len(a) + Len(b)
      /\ \A i \in 1..(Len(a) + Len(b)) : r[i] = IF i <= Len(a) THEN a[i] ELSE b[i - Len(a)]
  BY LenProperties, ConcatProperties
<1>2. \A i \in 1..Len(a) : a[i] = r[i]
  BY <1>1
<1>3. Agrees(a, r)
  BY <1>2 DEF Agrees
<1>4. ASSUME Len(r) <= Len(a) PROVE a = r /\ b = << >>
  <2>1. Len(b) = 0
    BY <1>1, <1>4
  <2>2. b = << >>
    BY <2>1, EmptySeq
  <2> QED
    BY <2>2, ConcatEmptySeq
<1> QED
  BY <1>1, <1>3, <1>4

LEMMA CountTypes ==
  ASSUME IInv, manner = "serial"
  PROVE  /\ handled \in Nat /\ Len(taken) \in Nat /\ Len(asked) \in Nat
         /\ asked \in Seq(Polite) /\ Counts
         /\ taken \in Seq(Seq(Unit))
         /\ handled > Len(taken) => handled = Len(asked) /\ handled \in 1..Len(asked)
         /\ handled < Len(asked) => handled = Len(taken) /\ handled + 1 = Len(asked)
<1>1. /\ asked \in Seq(Polite) /\ handled \in 0..Len(asked) /\ taken \in Seq(Seq(Unit))
      /\ Counts
  BY DEF IInv, TypeOK, FrameInv, SerialInv
<1>2. Len(asked) \in Nat /\ Len(taken) \in Nat
  BY <1>1, LenProperties
<1> QED
  BY <1>1, <1>2 DEF Counts

LEMMA BuffTypes ==
  ASSUME IInv
  PROVE  /\ up \in Seq(Unit) /\ recvBuff \in Seq(Unit) /\ sendBuff \in Seq(Unit)
         /\ down \in Seq(Unit) /\ clientBuff \in Seq(Unit)
         /\ pc = "gone" => sendBuff = << >>
BY DEF IInv, TypeOK

LEMMA SerialInit == Init => SerialInv
<1> SUFFICES ASSUME Init PROVE Counts /\ AskInv /\ AnswerInv /\ KeepInv /\ CloseInv
  BY DEF SerialInv
<1>1. /\ recvBuff = << >> /\ up = << >> /\ sendBuff = << >> /\ down = << >>
      /\ clientBuff = << >> /\ asked = << >> /\ taken = << >> /\ handled = 0
      /\ keepalive = TRUE /\ closing = FALSE
  BY DEF Init
<1>2. Len(<< >>) = 0 /\ << >> \o << >> = << >>
  BY EmptySeq, ConcatEmptySeq
<1>3. Counts /\ AskInv
  BY <1>1, <1>2 DEF Counts, AskInv
<1>4. AnswerInv
  BY <1>1, <1>2 DEF AnswerInv
<1>5. KeepInv /\ CloseInv
  BY <1>1 DEF KeepInv, CloseInv
<1> QED
  BY <1>3, <1>4, <1>5

LEMMA SerialAsk ==
  ASSUME IInv, manner = "serial", NEW r \in Polite \union Odd, Ask(r)
  PROVE  Counts' /\ AskInv' /\ AnswerInv' /\ KeepInv' /\ CloseInv'
<1>1. /\ r \in Polite /\ Len(taken) = Len(asked) /\ asked' = Append(asked, r)
      /\ UNCHANGED <<pc, recvBuff, sendBuff, down, clientBuff, clientOpen, taken,
                     keepalive, closing, handled>>
      /\ pc # "gone" => up' = up \o r
  BY DEF Ask, flags
<1>2. /\ AskInv /\ AnswerInv /\ KeepInv /\ CloseInv
  BY DEF IInv, SerialInv
<1>3. handled = Len(asked) /\ handled \in Nat /\ asked \in Seq(Polite)
  BY <1>1, CountTypes DEF Counts
<1>4. /\ Len(asked') = handled + 1 /\ asked'[handled + 1] = r
      /\ \A i \in 1..handled : asked'[i] = asked[i]
  BY <1>1, <1>3, AppendProperties
<1>5. Counts'
  BY <1>1, <1>3, <1>4 DEF Counts
<1>6. AskInv'
  <2>1. ASSUME pc # "gone" PROVE recvBuff \o (up \o r) = r
    <3>1. recvBuff \o up = << >> /\ recvBuff \in Seq(Unit) /\ up \in Seq(Unit)
      BY <1>2, <1>3, <2>1, BuffTypes DEF AskInv
    <3>2. recvBuff = << >> /\ up = << >> /\ r \in Seq(Unit)
      BY <1>1, <3>1, ConcatEqualIffEmpty, PoliteText
    <3> QED
      BY <3>2, ConcatEmptySeq
  <2> QED
    BY <1>1, <1>3, <1>4, <2>1 DEF AskInv
<1>7. AnswerInv'
  <2>1. handled = Len(taken)
    BY <1>1, <1>3
  <2>2. ~(handled > Len(taken))
    BY <1>3, <2>1
  <2> QED
    BY <1>1, <1>2, <2>1, <2>2 DEF AnswerInv
<1>8. KeepInv' /\ CloseInv'
  <2>1. handled = 0 \/ asked'[handled] = asked[handled]
    BY <1>3, <1>4
  <2>2. KeepInv'
    BY <1>1, <1>2, <2>1 DEF KeepInv
  <2> QED
    BY <1>1, <1>2, <2>2 DEF CloseInv
<1> QED
  BY <1>5, <1>6, <1>7, <1>8

\* What the client has is the beginning of the answer it waits for.
LEMMA Answering ==
  ASSUME IInv, manner = "serial", handled > Len(taken), clientOpen,
         NEW z \in Seq(Unit), (clientBuff \o down) \o z = AnswerTo(asked[handled])
  PROVE  /\ asked[handled] \in Polite
         /\ AnswerTo(asked[handled]) \in Seq(Unit)
         /\ Text(AnswerTo(asked[handled]), {"HTTP"})
         /\ Agrees(clientBuff, AnswerTo(asked[handled]))
         /\ Len(AnswerTo(asked[handled])) <= Len(clientBuff) =>
                /\ clientBuff = AnswerTo(asked[handled])
                /\ down = << >> /\ z = << >>
<1> DEFINE r == asked[handled]
           a == AnswerTo(r)
<1>1. handled \in 1..Len(asked) /\ asked \in Seq(Polite)
  BY CountTypes
<1>2. r \in Polite
  BY <1>1, ElementOfSeq
<1>3. r \in Seq(Unit) /\ r # << >>
  <2>1. r \in Seq(Unit) /\ Whole(r, {"GET", "POST"})
    BY <1>2, PoliteText DEF Text
  <2> QED
    BY <2>1, WholeIs
<1>4. a \in Seq(Unit) /\ Text(a, {"HTTP"})
  BY <1>3, AnswerType
<1> HIDE DEF r, a
<1>5. clientBuff \in Seq(Unit) /\ down \in Seq(Unit)
  BY BuffTypes
<1>6. clientBuff \o (down \o z) = a /\ down \o z \in Seq(Unit)
  <2>0. z \in Seq(Unit)
    OBVIOUS
  <2>1. (clientBuff \o down) \o z = clientBuff \o (down \o z)
    BY ONLY <1>5, <2>0, ConcatAssociative
  <2>2. down \o z \in Seq(Unit)
    BY <1>5, ConcatProperties
  <2> QED
    BY <2>1, <2>2 DEF a, r
<1>7. /\ Agrees(clientBuff, a)
      /\ Len(a) <= Len(clientBuff) => clientBuff = a /\ down \o z = << >>
  BY <1>5, <1>6, Prefix
<1>8. down \o z = << >> => down = << >> /\ z = << >>
  BY <1>5, ConcatEqualIffEmpty
<1> QED
  BY <1>2, <1>4, <1>7, <1>8 DEF a, r

LEMMA SerialClientRecv ==
  ASSUME IInv, manner = "serial", ClientRecv
  PROVE  Counts' /\ AskInv' /\ AnswerInv' /\ KeepInv' /\ CloseInv'
<1>1. PICK n \in 1..Len(down) :
          /\ clientBuff' = clientBuff \o SubSeq(down, 1, n)
          /\ down' = SubSeq(down, n + 1, Len(down))
  BY DEF ClientRecv
<1>2. /\ clientOpen
      /\ UNCHANGED <<pc, up, recvBuff, sendBuff, clientOpen, asked, taken, keepalive,
                     closing, handled>>
  BY DEF ClientRecv, flags
<1>3. Counts /\ AskInv /\ AnswerInv /\ KeepInv /\ CloseInv
  BY DEF IInv, SerialInv
<1>4. down \in Seq(Unit) /\ clientBuff \in Seq(Unit) /\ n \in 0..Len(down) /\ down # << >>
  <2>1. down \in Seq(Unit) /\ clientBuff \in Seq(Unit)
    BY BuffTypes
  <2>2. Len(down) \in Nat
    BY <2>1, LenProperties
  <2>3. n \in 0..Len(down) /\ Len(down) # 0
    BY <2>2
  <2> QED
    BY <2>1, <2>3, EmptySeq
<1>5. clientBuff' \o down' = clientBuff \o down
  BY <1>1, <1>4, MoveUnits
<1>6. handled > Len(taken)
  <2>1. handled # Len(taken)
    BY <1>3, <1>4 DEF AnswerInv
  <2> QED
    BY <1>3, <2>1, CountTypes DEF Counts
<1>7. AnswerInv'
  <2>1. handled # Len(taken)
    BY <1>6, CountTypes
  <2> QED
    BY <1>2, <1>3, <1>5, <1>6, <2>1 DEF AnswerInv
<1> QED
  BY <1>2, <1>3, <1>7 DEF Counts, AskInv, KeepInv, CloseInv

\* A client takes an answer: it is the whole answer to its last request.
LEMMA Takes ==
  ASSUME IInv, manner = "serial", ClientTake
  PROVE  /\ handled \in 1..Len(asked) /\ handled = Len(taken) + 1
         /\ asked[handled] \in Polite
         /\ Front(clientBuff) = AnswerTo(asked[handled])
         /\ Behind(clientBuff) = << >>
         /\ down = << >> /\ sendBuff = << >>
<1> DEFINE a == AnswerTo(asked[handled])
<1>1. clientBuff \in Seq(Unit) /\ Whole(clientBuff, {"HTTP"}) /\ clientOpen
  BY BuffTypes DEF ClientTake, HasAnswer
<1>2. AnswerInv
  BY DEF IInv, SerialInv
<1>3. clientBuff # << >>
  BY <1>1, WholeIs
<1>4. handled > Len(taken) /\ handled = Len(taken) + 1 /\ handled \in 1..Len(asked)
  <2>1. handled # Len(taken)
    BY <1>2, <1>3 DEF AnswerInv
  <2> QED
    BY <2>1, CountTypes DEF Counts
<1>5. PICK z \in Seq(Unit) : /\ (clientBuff \o down) \o z = a
                             /\ pc # "gone" => z = sendBuff
  BY <1>1, <1>2, <1>4 DEF AnswerInv
<1>6. /\ asked[handled] \in Polite /\ a \in Seq(Unit)
      /\ Text(a, {"HTTP"}) /\ Agrees(clientBuff, a)
      /\ Len(a) <= Len(clientBuff) => clientBuff = a /\ down = << >> /\ z = << >>
  BY <1>1, <1>4, <1>5, Answering
<1> HIDE DEF a
<1>7. Len(a) <= Len(clientBuff) /\ TextLen(clientBuff) = Len(a)
  BY <1>1, <1>6, Recognised
<1>8. clientBuff = a /\ down = << >> /\ z = << >>
  BY <1>6, <1>7
<1>9. /\ Len(Behind(clientBuff)) = Len(clientBuff) - TextLen(clientBuff)
      /\ Front(clientBuff) \in Seq(Unit) /\ Behind(clientBuff) \in Seq(Unit)
      /\ Front(clientBuff) \o Behind(clientBuff) = clientBuff
  BY <1>1, FrontAndBehind
<1>10. Len(Behind(clientBuff)) = 0
  <2>1. Len(clientBuff) \in Nat
    BY <1>1, LenProperties
  <2> QED
    BY <1>7, <1>8, <1>9, <2>1
<1>11. Behind(clientBuff) = << >>
  BY <1>9, <1>10, EmptySeq
<1>12. Front(clientBuff) = clientBuff
  BY <1>9, <1>11, ConcatEmptySeq
<1>13. sendBuff = << >>
  BY <1>5, <1>8, BuffTypes
<1> QED
  BY <1>4, <1>6, <1>8, <1>11, <1>12, <1>13 DEF a

LEMMA SerialClientTake ==
  ASSUME IInv, manner = "serial", ClientTake
  PROVE  Counts' /\ AskInv' /\ AnswerInv' /\ KeepInv' /\ CloseInv'
<1>1. /\ clientOpen
      /\ UNCHANGED <<pc, up, recvBuff, sendBuff, down, clientOpen, asked, keepalive,
                     closing, handled>>
      /\ taken' = Append(taken, Front(clientBuff)) /\ clientBuff' = Behind(clientBuff)
  BY DEF ClientTake, flags
<1>2. /\ handled \in 1..Len(asked) /\ handled = Len(taken) + 1
      /\ Behind(clientBuff) = << >> /\ down = << >> /\ sendBuff = << >>
  BY Takes
<1>3. AskInv /\ KeepInv /\ CloseInv
  BY DEF IInv, SerialInv
<1>4. /\ Len(taken') = handled /\ handled = Len(asked) /\ handled \in Nat
  <2>1. taken \in Seq(Seq(Unit)) /\ Front(clientBuff) \in Seq(Unit)
    BY BuffTypes, FrontAndBehind DEF IInv, TypeOK, ClientTake, HasAnswer
  <2>2. Len(taken') = Len(taken) + 1
    BY <1>1, <2>1, AppendProperties
  <2> QED
    BY <1>2, <2>2, CountTypes DEF Counts
<1>5. Counts'
  BY <1>1, <1>4 DEF Counts
<1>6. AnswerInv'
  BY <1>1, <1>2, <1>4 DEF AnswerInv
<1> QED
  BY <1>1, <1>3, <1>5, <1>6 DEF AskInv, KeepInv, CloseInv

LEMMA SerialClientClose ==
  ASSUME IInv, manner = "serial", ClientClose
  PROVE  Counts' /\ AskInv' /\ AnswerInv' /\ KeepInv' /\ CloseInv'
<1>1. /\ clientOpen' = FALSE /\ clientBuff' = << >> /\ down' = << >>
      /\ UNCHANGED <<pc, up, recvBuff, sendBuff, asked, taken, keepalive, closing, handled>>
  BY DEF ClientClose, flags
<1>2. Counts /\ AskInv /\ AnswerInv /\ KeepInv /\ CloseInv
  BY DEF IInv, SerialInv
<1>3. AnswerInv'
  BY <1>1, <1>2 DEF AnswerInv
<1> QED
  BY <1>1, <1>2, <1>3 DEF Counts, AskInv, KeepInv, CloseInv

\* The Client is deleted: of an answer under way the beginning may still come.
LEMMA SerialRemove ==
  ASSUME IInv, manner = "serial", Remove, UNCHANGED clientVars,
         UNCHANGED <<keepalive, closing, handled>>
  PROVE  Counts' /\ AskInv' /\ AnswerInv' /\ KeepInv' /\ CloseInv'
<1>1. UNCHANGED <<clientBuff, clientOpen, asked, taken, keepalive, closing, handled>>
  BY DEF clientVars
<1>2. Counts /\ AnswerInv /\ KeepInv /\ CloseInv
  BY DEF IInv, SerialInv
<1>3. PICK n \in 0..Len(down) :
          /\ down' = SubSeq(down, 1, n)
          /\ pc' = "gone" /\ recvBuff' = << >> /\ sendBuff' = << >>
  BY DEF Remove
<1>4. down \in Seq(Unit) /\ clientBuff \in Seq(Unit)
  BY BuffTypes
<1>5. down = << >> => down' = << >>
  <2> SUFFICES ASSUME down = << >> PROVE down' = << >>
    OBVIOUS
  <2>1. n = 0 /\ down' \in Seq(Unit) /\ Len(down') = n
    BY <1>3, <1>4, Cut, EmptySeq
  <2> QED
    BY <2>1, EmptySeq
<1>6. ASSUME NEW z \in Seq(Unit), NEW a, (clientBuff \o down) \o z = a
      PROVE  \E y \in Seq(Unit) : (clientBuff \o down') \o y = a
  <2> DEFINE p == SubSeq(down, 1, n)
             q == SubSeq(down, n + 1, Len(down))
             c == clientBuff \o p
  <2>1. p \in Seq(Unit) /\ q \in Seq(Unit)
    BY <1>4, Cut
  <2>2. c \in Seq(Unit) /\ c \o q = clientBuff \o down
    BY <1>4, MoveUnits
  <2>3. z \in Seq(Unit) /\ down' = p
    BY <1>3
  <2>4. q \o z \in Seq(Unit)
    BY <2>1, <2>3, ConcatProperties
  <2> HIDE DEF p, q, c
  <2>5. q \in Seq(Unit) /\ c \in Seq(Unit) /\ z \in Seq(Unit)
    BY <2>1, <2>2, <2>3
  <2>6. (c \o q) \o z = c \o (q \o z)
    BY ONLY <2>5, ConcatAssociative
  <2>7. c \o (q \o z) = a
    BY <1>6, <2>2, <2>6
  <2> QED
    BY <2>3, <2>4, <2>7 DEF c
<1>7. AnswerInv'
  <2>1. ASSUME handled > Len(taken), clientOpen
        PROVE  \E y \in Seq(Unit) : (clientBuff \o down') \o y = AnswerTo(asked[handled])
    <3>1. PICK z \in Seq(Unit) : (clientBuff \o down) \o z = AnswerTo(asked[handled])
      BY <1>2, <2>1 DEF AnswerInv
    <3> QED
      BY <1>6, <3>1
  <2> QED
    BY <1>1, <1>2, <1>3, <1>5, <2>1 DEF AnswerInv
<1>8. Counts' /\ AskInv' /\ KeepInv' /\ CloseInv'
  BY <1>1, <1>2, <1>3 DEF Counts, AskInv, KeepInv, CloseInv
<1> QED
  BY <1>7, <1>8

LEMMA SerialRecv ==
  ASSUME IInv, manner = "serial", Recv
  PROVE  Counts' /\ AskInv' /\ AnswerInv' /\ KeepInv' /\ CloseInv'
<1>1. PICK n \in 0..Len(up) :
          /\ recvBuff' = recvBuff \o SubSeq(up, 1, n)
          /\ up' = SubSeq(up, n + 1, Len(up))
  BY DEF Recv
<1>2. /\ UNCHANGED <<sendBuff, down, clientBuff, clientOpen, asked, taken, keepalive,
                     closing, handled>>
      /\ pc = "recv" /\ pc' # "gone"
  BY DEF Recv, clientVars, flags
<1>3. Counts /\ AskInv /\ AnswerInv /\ KeepInv /\ CloseInv
  BY DEF IInv, SerialInv
<1>4. recvBuff' \o up' = recvBuff \o up
  BY <1>1, BuffTypes, MoveUnits
<1>5. ~closing
  BY <1>2, <1>3 DEF CloseInv
<1>6. AnswerInv'
  BY <1>2, <1>3 DEF AnswerInv
<1> QED
  BY <1>2, <1>3, <1>4, <1>5, <1>6 DEF Counts, AskInv, KeepInv, CloseInv

LEMMA SerialSend ==
  ASSUME IInv, manner = "serial", Send
  PROVE  Counts' /\ AskInv' /\ AnswerInv' /\ KeepInv' /\ CloseInv'
<1>1. PICK n \in 1..Len(sendBuff) :
          /\ down' = down \o SubSeq(sendBuff, 1, n)
          /\ sendBuff' = SubSeq(sendBuff, n + 1, Len(sendBuff))
          /\ closing' = (closing \/ (n = Len(sendBuff) /\ ~keepalive))
  BY DEF Send
<1>2. /\ UNCHANGED <<up, recvBuff, clientBuff, clientOpen, asked, taken, keepalive, handled>>
      /\ pc = "send" /\ pc' = "msg" /\ clientOpen
  BY DEF Send, clientVars
<1>3. Counts /\ AskInv /\ AnswerInv /\ KeepInv /\ CloseInv
  BY DEF IInv, SerialInv
<1>4. down \in Seq(Unit) /\ sendBuff \in Seq(Unit) /\ clientBuff \in Seq(Unit)
  BY BuffTypes
<1>5. n \in 0..Len(sendBuff) /\ sendBuff # << >> /\ Len(sendBuff) \in Nat
  <2>1. Len(sendBuff) \in Nat
    BY <1>4, LenProperties
  <2>2. n \in 0..Len(sendBuff) /\ Len(sendBuff) # 0
    BY <2>1
  <2> QED
    BY <2>1, <2>2, EmptySeq
<1>6. handled > Len(taken) /\ handled = Len(asked) /\ handled > 0 /\ handled # Len(taken)
      /\ ~(handled < Len(asked))
  <2>1. handled # Len(taken)
    BY <1>3, <1>5 DEF AnswerInv
  <2>2. handled \in Nat /\ Len(taken) \in Nat /\ Len(asked) \in Nat
    BY CountTypes
  <2>3. handled > Len(taken)
    BY <1>3, <2>1, <2>2 DEF Counts
  <2>4. handled = Len(asked)
    BY <2>3, CountTypes
  <2> QED
    BY <2>1, <2>2, <2>3, <2>4
<1>7. /\ down' \o sendBuff' = down \o sendBuff
      /\ down' \in Seq(Unit) /\ sendBuff' \in Seq(Unit)
      /\ Len(sendBuff') = Len(sendBuff) - n
  BY <1>1, <1>4, <1>5, MoveUnits
<1>8. (clientBuff \o down') \o sendBuff' = AnswerTo(asked[handled])
  <2>1. (clientBuff \o down) \o sendBuff = AnswerTo(asked[handled])
    BY <1>2, <1>3, <1>6 DEF AnswerInv
  <2>2. (clientBuff \o down) \o sendBuff = clientBuff \o (down \o sendBuff)
    BY ONLY <1>4, ConcatAssociative
  <2>3. (clientBuff \o down') \o sendBuff' = clientBuff \o (down' \o sendBuff')
    <3>1. clientBuff \in Seq(Unit) /\ down' \in Seq(Unit) /\ sendBuff' \in Seq(Unit)
      BY <1>4, <1>7
    <3> QED
      BY ONLY <3>1, ConcatAssociative
  <2> QED
    BY <1>7, <2>1, <2>2, <2>3
<1>9. AnswerInv'
  <2>1. \E z \in Seq(Unit) : /\ (clientBuff \o down') \o z = AnswerTo(asked[handled])
                             /\ z = sendBuff'
    BY <1>7, <1>8
  <2> QED
    BY <1>2, <1>6, <2>1 DEF AnswerInv
<1>10. CloseInv'
  <2>1. ASSUME closing' PROVE recvBuff' = << >> /\ sendBuff' = << >> /\ ~keepalive
    <3>1. ~closing
      BY <1>2, <1>3 DEF CloseInv
    <3>2. n = Len(sendBuff) /\ ~keepalive
      BY <1>1, <2>1, <3>1
    <3>3. Len(sendBuff') = 0
      BY <1>5, <1>7, <3>2
    <3>4. sendBuff' = << >>
      BY <1>7, <3>3, EmptySeq
    <3>5. recvBuff \o up = << >>
      BY <1>2, <1>3, <1>6 DEF AskInv
    <3>6. recvBuff \in Seq(Unit) /\ up \in Seq(Unit)
      BY BuffTypes
    <3>7. recvBuff = << >>
      BY ONLY <3>5, <3>6, ConcatEqualIffEmpty
    <3> QED
      BY <1>2, <3>2, <3>4, <3>7
  <2> QED
    BY <1>2, <1>6, <2>1 DEF CloseInv
<1>11. Counts' /\ AskInv' /\ KeepInv'
  BY <1>2, <1>3 DEF Counts, AskInv, KeepInv
<1> QED
  BY <1>9, <1>10, <1>11

\* The server handles a request: it is the whole last request of the client.
LEMMA Handles ==
  ASSUME IInv, manner = "serial", OnNetMsg
  PROVE  /\ handled \in Nat /\ handled = Len(taken) /\ handled + 1 = Len(asked)
         /\ handled + 1 \in 1..Len(asked)
         /\ recvBuff = asked[handled + 1] /\ up = << >>
         /\ sendBuff = << >> /\ ~closing
         /\ asked[handled + 1] \in Polite
<1> DEFINE r == asked[handled + 1]
<1>1. HasRequest(recvBuff) /\ pc = "msg"
  BY DEF OnNetMsg
<1>2. AskInv /\ AnswerInv /\ CloseInv
  BY DEF IInv, SerialInv
<1>3. /\ handled \in 0..(Len(asked) - 1) /\ r \in Polite
      /\ Len(r) <= Len(recvBuff)
  BY <1>1, WholeIsNext DEF IInv
<1>4. /\ handled \in Nat /\ Len(asked) \in Nat /\ handled < Len(asked)
      /\ handled = Len(taken) /\ handled + 1 = Len(asked)
  <2>1. handled \in Nat /\ Len(asked) \in Nat
    BY CountTypes
  <2>2. handled < Len(asked)
    BY <1>3, <2>1
  <2> QED
    BY <2>1, <2>2, CountTypes
<1>5. recvBuff \o up = r
  BY <1>1, <1>2, <1>4 DEF AskInv
<1>6. recvBuff \in Seq(Unit) /\ up \in Seq(Unit)
  BY BuffTypes
<1> HIDE DEF r
<1>7. recvBuff = r /\ up = << >>
  BY <1>3, <1>5, <1>6, Prefix
<1>8. sendBuff = << >>
  BY <1>2, <1>4 DEF AnswerInv
<1>9. recvBuff # << >>
  BY <1>1, <1>6, WholeIs DEF HasRequest
<1>10. ~closing
  BY <1>2, <1>9 DEF CloseInv
<1> QED
  BY <1>3, <1>4, <1>7, <1>8, <1>10 DEF r

LEMMA SerialOnNetMsg ==
  ASSUME IInv, manner = "serial", OnNetMsg
  PROVE  Counts' /\ AskInv' /\ AnswerInv' /\ KeepInv' /\ CloseInv'
<1> DEFINE r == asked[handled + 1]
<1>1. /\ handled \in Nat /\ handled = Len(taken) /\ handled + 1 = Len(asked)
      /\ recvBuff = r /\ up = << >> /\ sendBuff = << >> /\ ~closing
      /\ r \in Polite
  BY Handles
<1>2. /\ UNCHANGED <<pc, up, down, clientBuff, clientOpen, asked, taken, closing>>
      /\ keepalive' = Keeps(recvBuff)
      /\ sendBuff' = Written(sendBuff, Status(recvBuff), Content(recvBuff))
      /\ recvBuff' = Split(Behind(recvBuff), BodyLen(recvBuff) > 0)
      /\ handled' = handled + 1
  BY DEF OnNetMsg, clientVars
<1>3. Counts /\ AnswerInv
  BY DEF IInv, SerialInv
<1>4. r \in Seq(Unit) /\ r # << >> /\ Whole(r, {"GET", "POST"}) /\ Len(r) = TextLen(r)
  <2>1. r \in Seq(Unit) /\ Whole(r, {"GET", "POST"}) /\ Len(r) = TextLen(r)
    BY <1>1, PoliteText DEF Text
  <2> QED
    BY <2>1, WholeIs
<1> HIDE DEF r
<1>5. sendBuff' = AnswerTo(r) /\ AnswerTo(r) \in Seq(Unit)
  <2>1. Status(r) \in Int /\ Content(r) \in Int /\ AnswerTo(r) \in Seq(Unit)
    BY <1>4, AnswerType
  <2>2. Written(<< >>, Status(r), Content(r)) = Header(Status(r)) \o Body(Content(r))
    BY <2>1, WrittenWhole
  <2> QED
    BY <1>1, <1>2, <2>1, <2>2 DEF AnswerTo
<1>6. recvBuff' = << >>
  <2> DEFINE b == Behind(r)
             w == BodyLen(r) > 0
  <2>1. b \in Seq(Unit) /\ Len(b) = 0
    <3>1. b \in Seq(Unit) /\ Len(b) = Len(r) - TextLen(r) /\ Len(r) \in Nat
      BY <1>4, FrontAndBehind, LenProperties
    <3> QED
      BY <1>4, <3>1
  <2>2. w \in BOOLEAN /\ recvBuff' = Split(b, w)
    BY <1>1, <1>2
  <2> HIDE DEF b, w
  <2>3. recvBuff' \in Seq(Unit) /\ Len(recvBuff') = 0
    BY <2>1, <2>2, SplitIs
  <2> QED
    BY <2>3, EmptySeq
<1>7. Counts'
  BY <1>1, <1>2, <1>3 DEF Counts
<1>8. AskInv'
  <2>1. << >> \o << >> = << >>
    BY EmptySeq, ConcatEmptySeq
  <2>2. ~(handled' < Len(asked'))
    BY <1>1, <1>2
  <2>3. recvBuff' \o up' = << >>
    BY <1>1, <1>2, <1>6, <2>1
  <2> QED
    BY <2>2, <2>3 DEF AskInv
<1>9. AnswerInv'
  <2>1. clientBuff = << >> /\ down = << >>
    BY <1>1, <1>3 DEF AnswerInv
  <2>2. (clientBuff \o down) \o sendBuff' = AnswerTo(r)
    <3>1. << >> \o << >> = << >> /\ << >> \o AnswerTo(r) = AnswerTo(r)
      BY <1>5, EmptySeq, ConcatEmptySeq
    <3> QED
      BY <1>5, <2>1, <3>1
  <2>3. handled' # Len(taken') /\ asked'[handled'] = r
    BY <1>1, <1>2 DEF r
  <2> QED
    BY <1>2, <1>5, <2>1, <2>2, <2>3 DEF AnswerInv
<1>10. KeepInv'
  BY <1>1, <1>2 DEF KeepInv, r
<1>11. CloseInv'
  BY <1>1, <1>2 DEF CloseInv
<1> QED
  BY <1>7, <1>8, <1>9, <1>10, <1>11

LEMMA SerialMsgEnd ==
  ASSUME IInv, manner = "serial", MsgEnd
  PROVE  Counts' /\ AskInv' /\ AnswerInv' /\ KeepInv' /\ CloseInv'
<1>1. /\ UNCHANGED <<up, recvBuff, down, clientBuff, clientOpen, asked, taken, keepalive,
                     closing, handled>>
      /\ pc = "msg" /\ pc' = "check"
      /\ sendBuff' = IF BadRequest(recvBuff) THEN Written(sendBuff, 400, 0) ELSE sendBuff
  BY DEF MsgEnd, clientVars, flags
<1>2. Counts /\ AskInv /\ AnswerInv /\ KeepInv /\ CloseInv
  BY DEF IInv, SerialInv
<1>3. recvBuff \in Seq(Unit) /\ up \in Seq(Unit)
  BY BuffTypes
<1>4. ~BadRequest(recvBuff)
  <2>1. CASE handled < Len(asked)
    <3> DEFINE r == asked[handled + 1]
    <3>1. recvBuff \o up = r
      BY <1>1, <1>2, <2>1 DEF AskInv
    <3>2. r \in Polite
      <4>1. handled + 1 \in 1..Len(asked) /\ asked \in Seq(Polite)
        BY <2>1, CountTypes
      <4> QED
        BY <4>1, ElementOfSeq
    <3> HIDE DEF r
    <3>3. Text(r, {"GET", "POST"}) /\ Agrees(recvBuff, r)
      BY <1>3, <3>1, <3>2, PoliteText, Prefix
    <3> QED
      BY <1>3, <3>3, Recognised DEF BadRequest
  <2>2. CASE ~(handled < Len(asked))
    <3>1. recvBuff \o up = << >>
      BY <1>1, <1>2, <2>2 DEF AskInv
    <3>2. recvBuff = << >>
      BY ONLY <1>3, <3>1, ConcatEqualIffEmpty
    <3>3. Len(recvBuff) = 0
      BY <3>2, EmptySeq
    <3> QED
      BY <3>3, SizesAssumption DEF BadRequest, Headed
  <2> QED
    BY <2>1, <2>2
<1>5. sendBuff' = sendBuff
  BY <1>1, <1>4
<1>6. AnswerInv'
  BY <1>1, <1>2, <1>5 DEF AnswerInv
<1> QED
  BY <1>1, <1>2, <1>5, <1>6 DEF Counts, AskInv, KeepInv, CloseInv

LEMMA SerialNext == IInv /\ [Next]_vars => SerialInv'
<1> SUFFICES ASSUME IInv, [Next]_vars, manner = "serial"
             PROVE  Counts' /\ AskInv' /\ AnswerInv' /\ KeepInv' /\ CloseInv'
  <2>1. [Next]_vars => manner' = manner
    BY DEF Next, CellStep, vars, modes, Ask, ClientRecv, ClientTake, ClientClose, CheckTime,
           Poll, Recv, Send, SocketError, OnNetMsg, MsgEnd, LoopEnds
  <2> QED
    BY <2>1 DEF SerialInv
<1>0. Counts /\ AskInv /\ AnswerInv /\ KeepInv /\ CloseInv
  BY DEF IInv, SerialInv
<1>1. ASSUME NEW r \in Polite \union Odd, Ask(r)
      PROVE  Counts' /\ AskInv' /\ AnswerInv' /\ KeepInv' /\ CloseInv'
  BY <1>1, SerialAsk
<1>2. CASE ClientRecv
  BY <1>2, SerialClientRecv
<1>3. CASE ClientTake
  BY <1>3, SerialClientTake
<1>4. CASE ClientClose
  BY <1>4, SerialClientClose
<1>5. ASSUME NEW dt \in 0..MaxDt, CheckTime(dt)
      PROVE  Counts' /\ AskInv' /\ AnswerInv' /\ KeepInv' /\ CloseInv'
  <2>1. UNCHANGED clientVars /\ UNCHANGED <<keepalive, closing, handled>>
    BY <1>5 DEF CheckTime
  <2>2. CASE Remove
    BY <2>1, <2>2, SerialRemove
  <2>3. CASE ~Remove
    <3>1. /\ UNCHANGED <<up, recvBuff, sendBuff, down, clientBuff, clientOpen, asked, taken,
                         keepalive, closing, handled>>
          /\ ~closing /\ pc = "check" /\ pc' = "poll"
      BY <1>5, <2>3 DEF CheckTime, clientVars
    <3> QED
      BY <1>0, <3>1 DEF Counts, AskInv, AnswerInv, KeepInv, CloseInv
  <2> QED
    BY <2>2, <2>3
<1>6. ASSUME NEW in \in BOOLEAN, NEW out \in BOOLEAN, Poll(in, out)
      PROVE  Counts' /\ AskInv' /\ AnswerInv' /\ KeepInv' /\ CloseInv'
  <2>1. /\ UNCHANGED <<up, recvBuff, sendBuff, down, clientBuff, clientOpen, asked, taken,
                       keepalive, closing, handled>>
        /\ pc = "poll" /\ pc' # "gone"
    BY <1>6 DEF Poll, clientVars, flags
  <2>2. ~closing
    BY <1>0, <2>1 DEF CloseInv
  <2> QED
    BY <1>0, <2>1, <2>2 DEF Counts, AskInv, AnswerInv, KeepInv, CloseInv
<1>7. CASE Recv
  BY <1>7, SerialRecv
<1>8. CASE Send
  BY <1>8, SerialSend
<1>9. CASE SocketError
  BY <1>9, SerialRemove DEF SocketError, flags
<1>10. CASE OnNetMsg
  BY <1>10, SerialOnNetMsg
<1>11. CASE MsgEnd
  BY <1>11, SerialMsgEnd
<1>12. CASE LoopEnds
  BY <1>12, SerialRemove DEF LoopEnds, flags
<1>13. CASE UNCHANGED vars
  BY <1>0, <1>13 DEF vars, clientVars, flags, Counts, AskInv, AnswerInv, KeepInv, CloseInv
<1> QED
  BY <1>1, <1>2, <1>3, <1>4, <1>5, <1>6, <1>7, <1>8, <1>9, <1>10, <1>11, <1>12, <1>13
     DEF Next, CellStep

LEMMA Inductive == Spec => []IInv
<1>1. Init => IInv
  BY InitTypes, FrameInit, SerialInit DEF IInv
<1>2. IInv /\ [Next]_vars => IInv'
  <2>1. IInv /\ [Next]_vars => TypeOK' /\ FrameInv'
    BY TypesNext, FrameNext DEF IInv
  <2> QED
    BY <2>1, SerialNext DEF IInv
<1> QED
  BY <1>1, <1>2, PTL DEF Spec

\* The server closes the connection only when all of the answer is sent to a
\* request that did not ask to keep it, for every set of well formed requests.
THEOREM ClosedAfterAnswer == Spec => []CloseAfterAnswer
<1>1. IInv => CloseAfterAnswer
  BY DEF IInv, SerialInv, KeepInv, CloseInv, CloseAfterAnswer
<1> QED
  BY <1>1, Inductive, PTL
-----------------------------------------------------------------------------
(* The connection implements MsgChannel.tla.                               *)

\* The answers to the first h requests of q.
Answers(q, h) == [i \in 1..h |-> AnswerTo(q[i])]

LEMMA AnswersType ==
  ASSUME NEW q \in Seq(Polite), NEW h \in 0..Len(q)
  PROVE  /\ Answers(q, h) \in Seq(Seq(Unit)) /\ Len(Answers(q, h)) = h
         /\ \A i \in 1..h : Answers(q, h)[i] = AnswerTo(q[i])
         /\ \A i \in 1..h : AnswerTo(q[i]) \in Seq(Unit)
<1>1. Len(q) \in Nat /\ h \in Nat
  <2>1. Len(q) \in Nat
    BY LenProperties
  <2> QED
    BY <2>1
<1>2. ASSUME NEW i \in 1..h PROVE AnswerTo(q[i]) \in Seq(Unit)
  <2>1. q[i] \in Polite
    <3>1. i \in 1..Len(q)
      BY <1>1
    <3> QED
      BY <3>1, ElementOfSeq
  <2>2. q[i] \in Seq(Unit) /\ Whole(q[i], {"GET", "POST"})
    BY <2>1, PoliteText DEF Text
  <2>3. q[i] # << >>
    BY <2>2, WholeIs
  <2> QED
    BY <2>2, <2>3, AnswerType
<1> DEFINE f == Answers(q, h)
<1>3. f \in [1..h -> Seq(Unit)] /\ \A i \in 1..h : f[i] = AnswerTo(q[i])
  BY <1>2 DEF Answers
<1> HIDE DEF f
<1>4. f \in Seq(Seq(Unit))
  BY <1>1, <1>3, SeqDef
<1>5. Len(f) = h
  BY <1>1, <1>3, <1>4, LenProperties
<1> QED
  BY <1>2, <1>3, <1>4, <1>5 DEF f

LEMMA AnswersAppend ==
  ASSUME NEW q \in Seq(Polite), NEW h \in 0..(Len(q) - 1)
  PROVE  Answers(q, h + 1) = Append(Answers(q, h), AnswerTo(q[h + 1]))
<1> DEFINE f == Answers(q, h)
           g == Answers(q, h + 1)
           a == AnswerTo(q[h + 1])
<1>1. Len(q) \in Nat
  BY LenProperties
<1>2. h \in Nat /\ h \in 0..Len(q) /\ h + 1 \in 0..Len(q)
  BY <1>1
<1>3. /\ f \in Seq(Seq(Unit)) /\ Len(f) = h
      /\ \A i \in 1..h : f[i] = AnswerTo(q[i])
  BY <1>2, AnswersType
<1>4. /\ g \in Seq(Seq(Unit)) /\ Len(g) = h + 1
      /\ \A i \in 1..(h + 1) : g[i] = AnswerTo(q[i])
      /\ a \in Seq(Unit)
  <2>1. h + 1 \in 1..(h + 1)
    BY <1>2
  <2> QED
    BY <1>2, <2>1, AnswersType
<1> HIDE DEF f, g, a
<1>5. /\ Append(f, a) \in Seq(Seq(Unit)) /\ Len(Append(f, a)) = h + 1
      /\ \A i \in 1..h : Append(f, a)[i] = f[i]
      /\ Append(f, a)[h + 1] = a
  BY <1>3, <1>4, AppendProperties
<1>6. ASSUME NEW i \in 1..(h + 1) PROVE g[i] = Append(f, a)[i]
  <2>1. CASE i = h + 1
    BY <1>4, <1>5, <2>1 DEF a
  <2>2. CASE i # h + 1
    <3>1. i \in 1..h
      BY <1>2, <2>2
    <3> QED
      BY <1>3, <1>4, <1>5, <3>1
  <2> QED
    BY <2>1, <2>2
<1>7. g = Append(f, a)
  BY <1>4, <1>5, <1>6, SeqEqual
<1> QED
  BY <1>7 DEF f, g, a

\* Only OnNetMsg and ClientTake change what the channel shows.
LEMMA OtherSteps ==
  ASSUME IInv, [Next]_vars, ~OnNetMsg, ~ClientTake, manner = "serial"
  PROVE  /\ UNCHANGED <<handled, taken>>
         /\ Answers(asked', handled) = Answers(asked, handled)
<1>1. UNCHANGED <<handled, taken>> /\ (asked' = asked \/ \E r \in Polite : asked' = Append(asked, r))
  BY DEF Next, CellStep, vars, modes, clientVars, flags, Ask, ClientRecv, ClientClose,
         CheckTime, Poll, Recv, Send, SocketError, MsgEnd, LoopEnds
<1>2. ASSUME NEW r \in Polite, asked' = Append(asked, r)
      PROVE  Answers(asked', handled) = Answers(asked, handled)
  <2>1. asked \in Seq(Polite) /\ handled \in Nat /\ handled <= Len(asked) /\ Len(asked) \in Nat
    BY CountTypes DEF Counts
  <2>2. \A i \in 1..Len(asked) : asked'[i] = asked[i]
    BY <1>2, <2>1, AppendProperties
  <2>3. \A i \in 1..handled : asked'[i] = asked[i]
    BY <2>1, <2>2
  <2> QED
    BY <2>3 DEF Answers
<1> QED
  BY <1>1, <1>2

\* For a client that asks one thing at a time the connection implements
\* MsgChannel: it takes the answers to its requests, whole, in order and once.
THEOREM Refinement == Spec => AnswersInOrder
<1> DEFINE put == IF manner = "serial" THEN Answers(asked, handled) ELSE << >>
           got == IF manner = "serial" THEN taken ELSE << >>
<1>1. Init => Channel!Init
  <2> SUFFICES ASSUME Init PROVE put = << >> /\ got = << >>
    BY DEF Channel!Init, Answers
  <2>1. taken = << >> /\ asked = << >> /\ handled = 0
    BY DEF Init
  <2>2. Answers(asked, handled) = << >>
    <3>1. << >> \in Seq(Polite) /\ Len(<< >>) = 0 /\ 0 \in 0..0
      BY EmptySeq
    <3>2. Answers(<< >>, 0) \in Seq(Seq(Unit)) /\ Len(Answers(<< >>, 0)) = 0
      BY <3>1, AnswersType
    <3> QED
      BY <2>1, <3>2, EmptySeq
  <2> QED
    BY <2>1, <2>2
<1>2. ASSUME IInv, [Next]_vars PROVE [Channel!Next]_(Channel!vars)
  <2>0. manner' = manner
    BY <1>2 DEF Next, CellStep, vars, modes, Ask, ClientRecv, ClientTake, ClientClose,
                CheckTime, Poll, Recv, Send, SocketError, OnNetMsg, MsgEnd, LoopEnds
  <2>1. CASE manner # "serial"
    BY <2>0, <2>1 DEF Channel!vars
  <2>2. CASE manner = "serial" /\ OnNetMsg
    <3>1. /\ handled \in 0..(Len(asked) - 1) /\ asked \in Seq(Polite)
          /\ asked[handled + 1] \in Polite
      <4>1. /\ handled \in Nat /\ handled + 1 = Len(asked) /\ asked[handled + 1] \in Polite
            /\ asked \in Seq(Polite)
        BY <1>2, <2>2, Handles, CountTypes
      <4> QED
        BY <4>1
    <3>2. handled' = handled + 1 /\ asked' = asked /\ taken' = taken
      BY <2>2 DEF OnNetMsg, clientVars
    <3>3. Answers(asked, handled + 1) = Append(Answers(asked, handled), AnswerTo(asked[handled + 1]))
      BY <3>1, AnswersAppend
    <3>4. put' = Append(put, AnswerTo(asked[handled + 1])) /\ got' = got
      BY <2>0, <2>2, <3>2, <3>3
    <3>5. Channel!Put(AnswerTo(asked[handled + 1]))
      BY <3>4 DEF Channel!Put, Answers
    <3> QED
      BY <3>1, <3>5 DEF Channel!Next
  <2>3. CASE manner = "serial" /\ ClientTake
    <3>1. /\ handled \in 1..Len(asked) /\ handled = Len(taken) + 1
          /\ Front(clientBuff) = AnswerTo(asked[handled])
          /\ asked \in Seq(Polite) /\ Len(taken) \in Nat /\ Len(asked) \in Nat
      BY <1>2, <2>3, Takes, CountTypes
    <3>2. handled' = handled /\ asked' = asked /\ taken' = Append(taken, Front(clientBuff))
      BY <2>3 DEF ClientTake, flags
    <3>3. /\ Len(Answers(asked, handled)) = handled
          /\ Answers(asked, handled)[handled] = AnswerTo(asked[handled])
      <4>1. handled \in 0..Len(asked) /\ handled \in 1..handled
        BY <3>1
      <4> QED
        BY <3>1, <4>1, AnswersType
    <3>4. put' = put /\ Len(got) < Len(put) /\ got' = Append(got, put[Len(got) + 1])
      BY <2>0, <2>3, <3>1, <3>2, <3>3
    <3>5. Channel!Get
      BY <3>4 DEF Channel!Get, Answers
    <3> QED
      BY <3>5 DEF Channel!Next
  <2>4. CASE manner = "serial" /\ ~OnNetMsg /\ ~ClientTake
    <3>1. UNCHANGED <<handled, taken>> /\ Answers(asked', handled) = Answers(asked, handled)
      BY <1>2, <2>4, OtherSteps
    <3>2. put' = put /\ got' = got
      BY <2>0, <2>4, <3>1
    <3> QED
      BY <3>2 DEF Channel!vars, Answers
  <2> QED
    BY <2>1, <2>2, <2>3, <2>4
<1> QED
  BY <1>1, <1>2, Inductive, PTL DEF Spec, AnswersInOrder, Channel!Spec
===============================================================================
