------------------------ MODULE RequestParsedAsSent ------------------------
(***************************************************************************)
(* A regular request that is answered was parsed as it was sent, wherever  *)
(* it was cut between its lines or in its content: of any number of fields,*)
(* with any values, of any length.  One of which a recv() ends just before *)
(* the blank line is never answered.                                       *)
(***************************************************************************)
EXTENDS RequestParsingProofs

HIDE RequestParsingAssumption

----------------------------------------------------------------------------
(* Texts.                                                                  *)

LEMMA SameText ==
  ASSUME NEW a \in Seq(Token), NEW b \in Seq(Token), Len(a) = Len(b),
         \A q \in 1 .. Len(a) : a[q] = b[q]
  PROVE  a = b
  BY SeqEqual

(* Where a text is cut when the first byte of a kind is known.             *)
LEMMA UptoLen ==
  ASSUME NEW buf \in Seq(Token), NEW ends, NEW p \in 1 .. Len(buf), buf[p] \in ends,
         \A q \in 1 .. p - 1 : buf[q] \notin ends
  PROVE  /\ Upto(buf, ends) \in Seq(Token) /\ Len(Upto(buf, ends)) = p - 1
         /\ \A q \in 1 .. p - 1 : Upto(buf, ends)[q] = buf[q]
<1> DEFINE head == Upto(buf, ends)
<1>1. /\ head \in Seq(Token) /\ Len(head) <= Len(buf) /\ Len(head) \in Nat /\ Len(buf) \in Nat
      /\ \A q \in 1 .. Len(head) : head[q] = buf[q] /\ buf[q] \notin ends
      /\ Len(head) < Len(buf) => buf[Len(head) + 1] \in ends
  BY UptoIs, LenProperties
<1> HIDE DEF head
<1>2. Len(head) < p
  <2>1. SUFFICES ASSUME p <= Len(head) PROVE FALSE
    BY <1>1
  <2>2. p \in 1 .. Len(head)
    BY <1>1, <2>1
  <2> QED BY <1>1, <2>2
<1>3. Len(head) >= p - 1
  <2>1. SUFFICES ASSUME Len(head) + 1 <= p - 1 PROVE FALSE
    BY <1>1
  <2>2. Len(head) + 1 \in 1 .. p - 1 /\ Len(head) < Len(buf)
    BY <1>1, <2>1
  <2> QED BY <1>1, <2>2
<1>4. Len(head) = p - 1
  BY <1>1, <1>2, <1>3
<1> QED BY <1>1, <1>4 DEF head

(* strstr finds the first place where all bytes of the pattern are.        *)
LEMMA StrStrAt ==
  ASSUME NEW buf \in Seq(Token), NEW pattern \in Seq(Token), Len(pattern) \in Nat \ {0},
         NEW p \in 1 .. Len(buf) - Len(pattern) + 1,
         \A c \in 1 .. Len(pattern) : buf[p + c - 1] = pattern[c],
         \A q \in 1 .. p - 1 : \E c \in 1 .. Len(pattern) : buf[q + c - 1] # pattern[c]
  PROVE  StrStr(buf, pattern) = p
<1> DEFINE l == Len(pattern)
           found == {i \in 1 .. Len(buf) - l + 1 : SubSeq(buf, i, i + l - 1) = pattern}
<1>1. Len(buf) \in Nat /\ l \in Nat \ {0} /\ p \in Nat
  BY LenProperties
<1>2. ASSUME NEW i \in 1 .. Len(buf) - l + 1
      PROVE  /\ SubSeq(buf, i, i + l - 1) \in Seq(Token) /\ Len(SubSeq(buf, i, i + l - 1)) = l
             /\ \A c \in 1 .. l : SubSeq(buf, i, i + l - 1)[c] = buf[i + c - 1]
  <2> HIDE DEF l
  <2>1. PICK j \in Nat : i = j + 1 /\ j + l <= Len(buf) /\ i + l - 1 = j + l
    <3>1. i - 1 \in Nat /\ i = (i - 1) + 1 /\ (i - 1) + l <= Len(buf) /\ i + l - 1 = (i - 1) + l
      BY <1>1
    <3> QED BY <3>1
  <2>2. /\ SubSeq(buf, j + 1, j + l) \in Seq(Token) /\ Len(SubSeq(buf, j + 1, j + l)) = l
        /\ \A c \in 1 .. l : SubSeq(buf, j + 1, j + l)[c] = buf[j + c]
    BY <1>1, <2>1, PartIs
  <2>3. \A c \in 1 .. l : i + c - 1 = j + c
    BY <1>1, <2>1
  <2> QED BY <2>1, <2>2, <2>3
<1>3. \A i \in 1 .. Len(buf) - l + 1 :
        i \in found <=> \A c \in 1 .. l : buf[i + c - 1] = pattern[c]
  <2> TAKE i \in 1 .. Len(buf) - l + 1
  <2> DEFINE part == SubSeq(buf, i, i + l - 1)
  <2>1. /\ part \in Seq(Token) /\ Len(part) = l
        /\ \A c \in 1 .. l : part[c] = buf[i + c - 1]
    BY <1>2
  <2>2. i \in found <=> part = pattern
    OBVIOUS
  <2> HIDE DEF part, found
  <2>3. (\A c \in 1 .. l : part[c] = pattern[c]) => part = pattern
    BY <2>1, SameText
  <2> QED BY <2>1, <2>2, <2>3
<1>4. found \subseteq 1 .. Len(buf) - l + 1 /\ found \in SUBSET Nat
  BY <1>1
<1>5. StrStr(buf, pattern) = IF found = {} THEN 0 ELSE Min(found)
  BY DEF StrStr
<1> HIDE DEF found
<1>6. p \in found
  BY <1>3
<1>7. ASSUME NEW q \in found PROVE ~ (q < p)
  <2> SUFFICES ASSUME q < p PROVE FALSE
    OBVIOUS
  <2>1. q \in 1 .. Len(buf) - l + 1 /\ q \in 1 .. p - 1
    BY <1>1, <1>4
  <2> QED BY <1>3, <2>1
<1>8. Min(found) \in found /\ \A k \in found : Min(found) <= k
  BY <1>4, <1>6, HasMin
<1>9. Min(found) = p
  <2> DEFINE least == Min(found)
  <2>1. least \in Nat /\ least <= p /\ ~ (least < p)
    BY <1>4, <1>6, <1>7, <1>8
  <2> HIDE DEF least
  <2>2. least = p
    BY <1>1, <2>1
  <2> QED BY <2>2 DEF least
<1> QED BY <1>5, <1>6, <1>9

LEMMA StrStrNone ==
  ASSUME NEW buf \in Seq(Token), NEW pattern \in Seq(Token), Len(pattern) \in Nat \ {0},
         \A q \in 1 .. Len(buf) - Len(pattern) + 1 :
           \E c \in 1 .. Len(pattern) : buf[q + c - 1] # pattern[c]
  PROVE  StrStr(buf, pattern) = 0
<1> DEFINE l == Len(pattern)
           found == {i \in 1 .. Len(buf) - l + 1 : SubSeq(buf, i, i + l - 1) = pattern}
<1>1. Len(buf) \in Nat /\ l \in Nat \ {0}
  BY LenProperties
<1>2. ASSUME NEW i \in 1 .. Len(buf) - l + 1, SubSeq(buf, i, i + l - 1) = pattern PROVE FALSE
  <2> HIDE DEF l
  <2>1. PICK j \in Nat : i = j + 1 /\ j + l <= Len(buf) /\ i + l - 1 = j + l
    <3>1. i - 1 \in Nat /\ i = (i - 1) + 1 /\ (i - 1) + l <= Len(buf) /\ i + l - 1 = (i - 1) + l
      BY <1>1
    <3> QED BY <3>1
  <2>2. \A c \in 1 .. l : SubSeq(buf, j + 1, j + l)[c] = buf[j + c]
    BY <1>1, <2>1, PartIs
  <2>3. \A c \in 1 .. l : i + c - 1 = j + c
    BY <1>1, <2>1
  <2>5. SubSeq(buf, j + 1, j + l) = pattern
    BY <1>2, <2>1
  <2>4. \A c \in 1 .. l : buf[i + c - 1] = pattern[c]
    <3> TAKE c \in 1 .. l
    <3>1. buf[j + c] = pattern[c] /\ i + c - 1 = j + c
      BY <2>2, <2>3, <2>5
    <3> QED BY <3>1
  <2> QED BY <2>4 DEF l
<1>3. found = {}
  BY <1>2
<1> QED BY <1>3 DEF StrStr

----------------------------------------------------------------------------
(* Where the lines of the request are in its stream.                       *)

Stream     == StreamOf(request)
Fields     == Len(request.fields)
HeadEnd    == HeadLen(request)
LineEnd(j) == j * Width(request)
Part(a, b) == SubSeq(Stream, a + 1, b)
EndOf      == request.eol

(* A line end is CRLF or LF.                                               *)
LEMMA EndIs ==
  ASSUME request \in Requests
  PROVE  /\ Len(EndOf) \in 1 .. 2 /\ EndOf[Len(EndOf)] = "LF"
         /\ Len(EndOf) = 2 => EndOf[1] = "CR"
<1>1. EndOf = <<"CR", "LF">> \/ EndOf = <<"LF">>
  BY RequestIs DEF EndOf
<1>2. CASE EndOf = <<"CR", "LF">>
  BY <1>2
<1>3. CASE EndOf = <<"LF">>
  BY <1>3
<1> QED BY <1>1, <1>2, <1>3

LEMMA LayoutIs ==
  ASSUME request \in Requests
  PROVE  /\ Fields \in Nat /\ request.length \in Nat
         /\ Len(Stream) = HeadEnd + request.length /\ HeadEnd = LineEnd(Fields + 1) + Len(EndOf)
         /\ Len(EndOf) \in 1 .. 2 /\ Width(request) = 3 + Len(EndOf)
         /\ LineEnd(0) = 0 /\ \A i \in Nat : LineEnd(i) \in Nat
         /\ \A i, j \in Nat : j = i + 1 => LineEnd(j) = LineEnd(i) + 3 + Len(EndOf)
         /\ \A i, j \in Nat : i < j => LineEnd(i) + 3 + Len(EndOf) <= LineEnd(j)
<1>1. /\ Fields \in Nat /\ request.length \in Nat
      /\ \/ Width(request) = 5 /\ Len(EndOf) = 2
         \/ Width(request) = 4 /\ Len(EndOf) = 1
  BY RequestIs DEF Fields, EndOf
<1>2. /\ HeadEnd = (Fields + 1) * Width(request) + Len(EndOf)
      /\ Len(Stream) = HeadEnd + request.length
  BY StreamIs DEF HeadEnd, Fields, EndOf, Stream
<1>3. HeadEnd = LineEnd(Fields + 1) + Len(EndOf)
  BY <1>2 DEF LineEnd
<1>4. CASE Width(request) = 5 /\ Len(EndOf) = 2
  <2>1. \A i \in Nat : LineEnd(i) = 5 * i
    BY <1>4 DEF LineEnd
  <2>2. Width(request) = 3 + Len(EndOf) /\ Len(EndOf) \in 1 .. 2
    BY <1>4
  <2>3. LineEnd(0) = 0 /\ \A i \in Nat : LineEnd(i) \in Nat
    BY <2>1
  <2>4. \A i, j \in Nat : j = i + 1 => LineEnd(j) = LineEnd(i) + 3 + Len(EndOf)
    BY <1>4, <2>1
  <2>5. \A i, j \in Nat : i < j => LineEnd(i) + 3 + Len(EndOf) <= LineEnd(j)
    BY <1>4, <2>1
  <2> QED BY <1>1, <1>2, <1>3, <2>2, <2>3, <2>4, <2>5
<1>5. CASE Width(request) = 4 /\ Len(EndOf) = 1
  <2>1. \A i \in Nat : LineEnd(i) = 4 * i
    BY <1>5 DEF LineEnd
  <2>2. Width(request) = 3 + Len(EndOf) /\ Len(EndOf) \in 1 .. 2
    BY <1>5
  <2>3. LineEnd(0) = 0 /\ \A i \in Nat : LineEnd(i) \in Nat
    BY <2>1
  <2>4. \A i, j \in Nat : j = i + 1 => LineEnd(j) = LineEnd(i) + 3 + Len(EndOf)
    BY <1>5, <2>1
  <2>5. \A i, j \in Nat : i < j => LineEnd(i) + 3 + Len(EndOf) <= LineEnd(j)
    BY <1>5, <2>1
  <2> QED BY <1>1, <1>2, <1>3, <2>2, <2>3, <2>4, <2>5
<1> QED BY <1>1, <1>4, <1>5

LEMMA LineEndNat ==
  ASSUME request \in Requests, NEW i \in Nat
  PROVE  LineEnd(i) \in Nat
  BY LayoutIs

LEMMA LineEndOrder ==
  ASSUME request \in Requests, NEW i \in Nat, NEW j \in Nat, i < j
  PROVE  LineEnd(i) + 3 + Len(EndOf) <= LineEnd(j)
  BY LayoutIs

LEMMA LineIn ==
  ASSUME request \in Requests, NEW i \in 0 .. Fields
  PROVE  /\ Fields \in Nat /\ i \in Nat /\ LineEnd(i) \in Nat /\ LineEnd(0) = 0
         /\ LineEnd(i + 1) = LineEnd(i) + 3 + Len(EndOf)
         /\ LineEnd(i + 1) + Len(EndOf) <= HeadEnd
         /\ HeadEnd <= Len(Stream) /\ HeadEnd \in Nat /\ Len(Stream) \in Nat
         /\ Len(EndOf) \in 1 .. 2 /\ Width(request) = 3 + Len(EndOf)
<1>1. Fields \in Nat /\ LineEnd(0) = 0 /\ Len(EndOf) \in 1 .. 2 /\ Width(request) = 3 + Len(EndOf)
  BY LayoutIs
<1>2. i \in Nat /\ i + 1 \in Nat /\ Fields + 1 \in Nat /\ (i + 1 < Fields + 1 \/ i + 1 = Fields + 1)
  BY <1>1
<1>3. LineEnd(i) \in Nat /\ LineEnd(i + 1) \in Nat /\ LineEnd(Fields + 1) \in Nat
  BY <1>2, LayoutIs
<1>4. LineEnd(i + 1) = LineEnd(i) + 3 + Len(EndOf)
  BY <1>2, LayoutIs
<1>5. i + 1 < Fields + 1 => LineEnd(i + 1) + 3 + Len(EndOf) <= LineEnd(Fields + 1)
  BY <1>2, LayoutIs
<1>6. HeadEnd = LineEnd(Fields + 1) + Len(EndOf)
  BY LayoutIs
<1>7. LineEnd(i + 1) + Len(EndOf) <= HeadEnd /\ HeadEnd \in Nat
  BY <1>1, <1>2, <1>3, <1>5, <1>6
<1>8. HeadEnd <= Len(Stream) /\ Len(Stream) \in Nat
  <2>1. Len(Stream) = HeadEnd + request.length /\ request.length \in Nat
    BY LayoutIs
  <2> QED BY <1>7, <2>1
<1> QED BY <1>1, <1>2, <1>3, <1>4, <1>7, <1>8

(* The c-th byte of line i, the blank line included.                       *)
LEMMA StreamAt ==
  ASSUME request \in Requests, NEW i \in 0 .. Fields + 1, NEW c \in 1 .. Width(request),
         i = Fields + 1 => c <= Len(EndOf)
  PROVE  /\ LineEnd(i) + c \in 1 .. HeadEnd
         /\ Stream[LineEnd(i) + c] = LineByte(request, i, c)
<1> DEFINE p == LineEnd(i) + c
           w == Width(request)
<1>1. p \in 1 .. HeadEnd /\ p - 1 \in Nat /\ HeadEnd \in Nat
  <2>1. /\ Fields \in Nat /\ i \in Nat /\ Fields + 1 \in Nat
        /\ i < Fields + 1 \/ i = Fields + 1
        /\ HeadEnd = LineEnd(Fields + 1) + Len(EndOf) /\ Len(EndOf) \in 1 .. 2
        /\ w = 3 + Len(EndOf)
    <3>1. Fields \in Nat
      BY LayoutIs
    <3>2. i \in Nat /\ Fields + 1 \in Nat
      BY <3>1
    <3>3. i < Fields + 1 \/ i = Fields + 1
      BY <3>1
    <3>4. HeadEnd = LineEnd(Fields + 1) + Len(EndOf)
      BY LayoutIs
    <3>5. Len(EndOf) \in 1 .. 2 /\ w = 3 + Len(EndOf)
      BY LayoutIs
    <3> QED BY <3>1, <3>2, <3>3, <3>4, <3>5
  <2>2. /\ LineEnd(i) \in Nat /\ LineEnd(Fields + 1) \in Nat
        /\ i < Fields + 1 => LineEnd(i) + 3 + Len(EndOf) <= LineEnd(Fields + 1)
    BY <2>1, LayoutIs
  <2>3. CASE i < Fields + 1
    BY <2>1, <2>2, <2>3
  <2>4. CASE i = Fields + 1
    BY <2>1, <2>2, <2>4
  <2> QED BY <2>1, <2>3, <2>4
<1>2. (p - 1) \div w = i /\ ((p - 1) % w) + 1 = c
  <2>1. w \in {4, 5} /\ p = i * w + c
    BY RequestIs DEF LineEnd
  <2>2. i \in Nat /\ c \in 1 .. w
    BY LayoutIs
  <2> HIDE DEF p, w
  <2>3. ASSUME w = 5 PROVE (p - 1) \div w = i /\ ((p - 1) % w) + 1 = c
    <3>1. (5 * i + c - 1) \div 5 = i /\ (5 * i + c - 1) % 5 = c - 1
      BY <2>2, <2>3
    <3>2. p - 1 = 5 * i + c - 1
      BY <2>1, <2>2, <2>3
    <3> QED BY <2>2, <2>3, <3>1, <3>2
  <2>4. ASSUME w = 4 PROVE (p - 1) \div w = i /\ ((p - 1) % w) + 1 = c
    <3>1. (4 * i + c - 1) \div 4 = i /\ (4 * i + c - 1) % 4 = c - 1
      BY <2>2, <2>4
    <3>2. p - 1 = 4 * i + c - 1
      BY <2>1, <2>2, <2>4
    <3> QED BY <2>2, <2>4, <3>1, <3>2
  <2> QED BY <2>1, <2>3, <2>4
<1>3. \A q \in 1 .. HeadEnd : Stream[q] = LineByte(request, (q - 1) \div w, ((q - 1) % w) + 1)
  BY StreamIs DEF Stream, HeadEnd
<1>4. Stream[p] = LineByte(request, i, c)
  <2> HIDE DEF p, w
  <2>1. Stream[p] = LineByte(request, (p - 1) \div w, ((p - 1) % w) + 1)
    BY <1>1, <1>3
  <2> QED BY <1>2, <2>1
<1> QED BY <1>1, <1>4

(* What stands where.                                                      *)
LEMMA StreamLine ==
  ASSUME request \in Requests, NEW i \in 0 .. Fields
  PROVE  /\ i = 0 => Stream[1] = "GET" /\ Stream[2] = "target" /\ Stream[3] = "HTTP/1.1"
         /\ i >= 1 => /\ Stream[LineEnd(i) + 1] = request.fields[i]
                      /\ Stream[LineEnd(i) + 2] = "COLON"
                      /\ Stream[LineEnd(i) + 3] = ValueOf(request, i)
         /\ \A c \in 1 .. 3 : Stream[LineEnd(i) + c] \notin {"CR", "LF", "NUL"}
         /\ \A c \in 1 .. Len(EndOf) : Stream[LineEnd(i) + 3 + c] = EndOf[c]
<1>1. /\ Fields \in Nat /\ Width(request) = 3 + Len(EndOf) /\ Len(EndOf) \in 1 .. 2
      /\ i \in 0 .. Fields + 1 /\ i # Fields + 1 /\ LineEnd(0) = 0 /\ LineEnd(i) \in Nat
  <2>1. /\ Fields \in Nat /\ Width(request) = 3 + Len(EndOf) /\ Len(EndOf) \in 1 .. 2
        /\ LineEnd(0) = 0 /\ LineEnd(i) \in Nat
    BY LineIn
  <2>2. i \in 0 .. Fields + 1 /\ i # Fields + 1
    <3>1. Fields \in Nat
      BY <2>1
    <3> QED BY <3>1
  <2> QED BY <2>1, <2>2
<1>2. \A c \in 1 .. Width(request) : Stream[LineEnd(i) + c] = LineByte(request, i, c)
  BY <1>1, StreamAt
<1>3. /\ i = 0 => /\ LineByte(request, i, 1) = "GET" /\ LineByte(request, i, 2) = "target"
                  /\ LineByte(request, i, 3) = "HTTP/1.1"
      /\ i >= 1 => /\ LineByte(request, i, 1) = request.fields[i]
                   /\ LineByte(request, i, 2) = "COLON"
                   /\ LineByte(request, i, 3) = ValueOf(request, i)
      /\ \A j \in 1 .. Width(request) : j >= 4 => LineByte(request, i, j) = EndOf[j - 3]
  <2>1. i \in 0 .. Len(request.fields) + 1 /\ (i >= 1 => i \in 1 .. Len(request.fields))
    BY <1>1 DEF Fields
  <2>2. i # Len(request.fields) + 1
    BY <1>1 DEF Fields
  <2>3. ASSUME NEW j \in 1 .. Width(request)
        PROVE  /\ i = 0 => /\ LineByte(request, i, 1) = "GET" /\ LineByte(request, i, 2) = "target"
                           /\ LineByte(request, i, 3) = "HTTP/1.1"
               /\ i \in 1 .. Len(request.fields) =>
                    /\ LineByte(request, i, 1) = request.fields[i]
                    /\ LineByte(request, i, 2) = "COLON"
                    /\ LineByte(request, i, 3) = ValueOf(request, i)
               /\ j >= 4 => LineByte(request, i, j) = request.eol[j - 3]
    BY <1>1, <2>1, <2>2, LineByteIs
  <2>4. 1 \in 1 .. Width(request)
    BY <1>1
  <2> QED BY <2>1, <2>3, <2>4 DEF EndOf
<1>4. {1, 2, 3} \subseteq 1 .. Width(request)
  BY <1>1
<1>5. i >= 1 => /\ request.fields[i] \notin {"CR", "LF", "NUL"}
                /\ ValueOf(request, i) \notin {"CR", "LF", "NUL"}
  <2> SUFFICES ASSUME i >= 1
               PROVE  /\ request.fields[i] \notin {"CR", "LF", "NUL"}
                      /\ ValueOf(request, i) \notin {"CR", "LF", "NUL"}
    OBVIOUS
  <2>1. i \in 1 .. Len(request.fields)
    BY <1>1 DEF Fields
  <2>2. request.fields[i] \in FieldNames /\ ValueOf(request, i) \in Token \ (Special \cup {"NULL"})
    BY <2>1, RequestIs
  <2> QED BY <2>2 DEF FieldNames, Special
<1>6. /\ i = 0 => Stream[LineEnd(i) + 1] = "GET" /\ Stream[LineEnd(i) + 2] = "target"
                  /\ Stream[LineEnd(i) + 3] = "HTTP/1.1"
      /\ i >= 1 => /\ Stream[LineEnd(i) + 1] = request.fields[i]
                   /\ Stream[LineEnd(i) + 2] = "COLON"
                   /\ Stream[LineEnd(i) + 3] = ValueOf(request, i)
  BY <1>2, <1>3, <1>4
<1>7. \A c \in 1 .. Len(EndOf) : Stream[LineEnd(i) + 3 + c] = EndOf[c]
  <2> TAKE c \in 1 .. Len(EndOf)
  <2>1. 3 + c \in 1 .. Width(request) /\ 3 + c >= 4 /\ (3 + c) - 3 = c
    BY <1>1
  <2>2. LineEnd(i) + (3 + c) = LineEnd(i) + 3 + c
    BY <1>1
  <2>3. Stream[LineEnd(i) + (3 + c)] = EndOf[(3 + c) - 3]
    BY <1>2, <1>3, <2>1
  <2> QED BY <2>1, <2>2, <2>3
<1>8. \A c \in 1 .. 3 : Stream[LineEnd(i) + c] \notin {"CR", "LF", "NUL"}
  <2>1. i = 0 \/ i >= 1
    OBVIOUS
  <2>2. ASSUME NEW c \in {1, 2, 3} PROVE Stream[LineEnd(i) + c] \notin {"CR", "LF", "NUL"}
    BY <1>5, <1>6, <2>1
  <2> QED BY <2>2
<1>9. i = 0 => Stream[1] = "GET" /\ Stream[2] = "target" /\ Stream[3] = "HTTP/1.1"
  BY <1>1, <1>6
<1> QED BY <1>6, <1>7, <1>8, <1>9

LEMMA StreamBlank ==
  ASSUME request \in Requests
  PROVE  /\ \A c \in 1 .. Len(EndOf) : Stream[LineEnd(Fields + 1) + c] = EndOf[c]
         /\ \A p \in HeadEnd + 1 .. Len(Stream) : Stream[p] = "body"
<1>1. ASSUME NEW c \in 1 .. Len(EndOf)
      PROVE  Stream[LineEnd(Fields + 1) + c] = EndOf[c]
  <2> DEFINE i == Fields + 1
  <2>1. i \in 0 .. Fields + 1 /\ c \in 1 .. Width(request) /\ c <= Len(EndOf)
    <3>1. Fields \in Nat
      BY LayoutIs
    <3>2. Len(EndOf) \in 1 .. 2 /\ Width(request) = 3 + Len(EndOf)
      BY LayoutIs
    <3> QED BY <3>1, <3>2
  <2>2. Stream[LineEnd(i) + c] = LineByte(request, i, c)
    <3> HIDE DEF i
    <3> QED BY <2>1, StreamAt
  <2>3. LineByte(request, i, c) = EndOf[c]
    <3>1. i \in 0 .. Len(request.fields) + 1 /\ i = Len(request.fields) + 1 /\ c <= Len(request.eol)
      BY <2>1 DEF Fields, EndOf
    <3> HIDE DEF i
    <3> QED BY <2>1, <3>1, LineByteIs DEF EndOf
  <2> QED BY <2>2, <2>3
<1>2. \A p \in HeadEnd + 1 .. Len(Stream) : Stream[p] = "body"
  BY StreamIs DEF Stream, HeadEnd
<1> QED BY <1>1, <1>2

LEMMA PartBytes ==
  ASSUME request \in Requests, NEW a \in Nat, NEW b \in Nat, a <= b, b <= Len(Stream)
  PROVE  /\ Part(a, b) \in Seq(Token) /\ Len(Part(a, b)) = b - a
         /\ \A q \in 1 .. b - a : Part(a, b)[q] = Stream[a + q]
<1>1. Stream \in Seq(Token)
  BY StreamIs DEF Stream
<1> SUFFICES ASSUME NEW k \in Nat, k = b - a
             PROVE  /\ Part(a, b) \in Seq(Token) /\ Len(Part(a, b)) = k
                    /\ \A q \in 1 .. k : Part(a, b)[q] = Stream[a + q]
  <2>1. b - a \in Nat
    OBVIOUS
  <2> QED BY <2>1
<1>2. a + k = b
  OBVIOUS
<1>3. /\ SubSeq(Stream, a + 1, a + k) \in Seq(Token) /\ Len(SubSeq(Stream, a + 1, a + k)) = k
      /\ \A q \in 1 .. k : SubSeq(Stream, a + 1, a + k)[q] = Stream[a + q]
  BY <1>1, <1>2, PartIs
<1>4. Part(a, b) = SubSeq(Stream, a + 1, a + k)
  BY <1>2 DEF Part
<1> QED BY <1>3, <1>4

LEMMA PartFrom ==
  ASSUME request \in Requests, NEW a \in Nat, NEW b \in Nat, NEW c \in Nat, a <= c, c <= b,
         b <= Len(Stream), NEW i, i = c - a + 1
  PROVE  From(Part(a, b), i) = Part(c, b)
<1> DEFINE s == From(Part(a, b), i)
           t == Part(c, b)
<1>1. /\ Part(a, b) \in Seq(Token) /\ Len(Part(a, b)) = b - a
      /\ \A q \in 1 .. b - a : Part(a, b)[q] = Stream[a + q]
  <2>1. a <= b
    OBVIOUS
  <2> QED BY <2>1, PartBytes
<1>2. i \in Nat \ {0} /\ i <= b - a + 1
  OBVIOUS
<1>3. /\ s \in Seq(Token)
      /\ Len(s) = IF i <= Len(Part(a, b)) THEN Len(Part(a, b)) - i + 1 ELSE 0
      /\ \A q \in 1 .. Len(Part(a, b)) - i + 1 : s[q] = Part(a, b)[i + q - 1]
  BY <1>1, <1>2, FromIs
<1>4. Len(s) = b - c
  <2> HIDE DEF s
  <2>1. Len(s) = IF i <= b - a THEN b - a - i + 1 ELSE 0
    BY <1>1, <1>3
  <2>2. CASE i <= b - a
    BY <1>2, <2>1, <2>2
  <2>3. CASE ~ (i <= b - a)
    BY <1>2, <2>1, <2>3
  <2> QED BY <2>2, <2>3
<1>5. t \in Seq(Token) /\ Len(t) = b - c /\ \A q \in 1 .. b - c : t[q] = Stream[c + q]
  <2>1. c <= b /\ b <= Len(Stream)
    OBVIOUS
  <2> QED BY <2>1, PartBytes
<1> HIDE DEF s, t
<1>6. ASSUME NEW q \in 1 .. b - c PROVE s[q] = t[q]
  <2>1. q \in 1 .. Len(Part(a, b)) - i + 1 /\ i + q - 1 \in 1 .. b - a /\ a + (i + q - 1) = c + q
    BY <1>1, <1>2
  <2>2. s[q] = Part(a, b)[i + q - 1]
    BY <1>3, <2>1
  <2>3. Part(a, b)[i + q - 1] = Stream[a + (i + q - 1)]
    BY <1>1, <2>1
  <2> QED BY <1>5, <2>1, <2>2, <2>3
<1>7. s = t
  <2>1. Len(s) = Len(t) /\ \A q \in 1 .. Len(s) : s[q] = t[q]
    BY <1>4, <1>5, <1>6
  <2> QED BY <1>3, <1>5, <2>1, SameText
<1> QED BY <1>7 DEF s, t

LEMMA PartJoin ==
  ASSUME request \in Requests, NEW a \in Nat, NEW b \in Nat, NEW c \in Nat, a <= b, b <= c,
         c <= Len(Stream)
  PROVE  Part(a, b) \o Part(b, c) = Part(a, c)
<1> DEFINE s == Part(a, b)
           t == Part(b, c)
           u == Part(a, c)
<1>0. b <= Len(Stream) /\ a <= c /\ Len(Stream) \in Nat
  <2>1. Len(Stream) \in Nat
    BY StreamIs, LenProperties DEF Stream
  <2> QED BY <2>1
<1>1. s \in Seq(Token) /\ Len(s) = b - a /\ \A q \in 1 .. b - a : s[q] = Stream[a + q]
  BY <1>0, PartBytes
<1>2. t \in Seq(Token) /\ Len(t) = c - b /\ \A q \in 1 .. c - b : t[q] = Stream[b + q]
  BY <1>0, PartBytes
<1>3. u \in Seq(Token) /\ Len(u) = c - a /\ \A q \in 1 .. c - a : u[q] = Stream[a + q]
  BY <1>0, PartBytes
<1> HIDE DEF s, t, u
<1>4. /\ s \o t \in Seq(Token) /\ Len(s \o t) = Len(s) + Len(t)
      /\ \A q \in 1 .. Len(s) + Len(t) : (s \o t)[q] = IF q <= Len(s) THEN s[q] ELSE t[q - Len(s)]
  BY <1>1, <1>2, ConcatProperties
<1>5. Len(s \o t) = c - a
  BY <1>1, <1>2, <1>4
<1>6. ASSUME NEW q \in 1 .. c - a PROVE (s \o t)[q] = u[q]
  <2>1. q \in 1 .. Len(s) + Len(t) /\ u[q] = Stream[a + q]
    BY <1>1, <1>2, <1>3
  <2>2. CASE q <= b - a
    BY <1>1, <1>4, <2>1, <2>2
  <2>3. CASE ~ (q <= b - a)
    <3>1. (s \o t)[q] = t[q - (b - a)]
      BY <1>1, <1>4, <2>1, <2>3
    <3>2. q - (b - a) \in 1 .. c - b /\ b + (q - (b - a)) = a + q
      BY <2>3
    <3> QED BY <1>2, <2>1, <3>1, <3>2
  <2> QED BY <2>2, <2>3
<1>7. s \o t = u
  <2>1. Len(s \o t) = Len(u) /\ \A q \in 1 .. Len(s \o t) : (s \o t)[q] = u[q]
    BY <1>3, <1>5, <1>6
  <2> QED BY <1>3, <1>4, <2>1, SameText
<1> QED BY <1>7 DEF s, t, u

LEMMA PartNone ==
  ASSUME request \in Requests, NEW a \in Nat, a <= Len(Stream)
  PROVE  Part(a, a) = <<>>
<1>1. Part(a, a) \in Seq(Token) /\ Len(Part(a, a)) = 0
  <2>1. a <= a /\ a - a = 0
    OBVIOUS
  <2>2. Len(Part(a, a)) = a - a /\ Part(a, a) \in Seq(Token)
    BY <2>1, PartBytes
  <2> QED BY <2>1, <2>2
<1> QED BY <1>1, EmptySeq

(* What a CR or an LF is part of.                                          *)
LEMMA EndsAt ==
  ASSUME request \in Requests, NEW p \in 1 .. Len(Stream), Stream[p] \in {"CR", "LF"}
  PROVE  \/ \E i \in 0 .. Fields : \E c \in 1 .. Len(EndOf) :
              p = LineEnd(i) + 3 + c /\ Stream[p] = EndOf[c]
         \/ \E c \in 1 .. Len(EndOf) : p = LineEnd(Fields + 1) + c /\ Stream[p] = EndOf[c]
<1> DEFINE w == Width(request)
           i == (p - 1) \div w
           c == ((p - 1) % w) + 1
<1>1. /\ Fields \in Nat /\ Len(EndOf) \in 1 .. 2 /\ w = 3 + Len(EndOf) /\ HeadEnd \in Nat
      /\ Len(Stream) \in Nat
  <2>1. Fields \in Nat
    BY LayoutIs
  <2>2. 0 \in 0 .. Fields
    BY <2>1
  <2> QED BY <2>2, LineIn
<1>2. p <= HeadEnd
  <2> SUFFICES ASSUME p >= HeadEnd + 1 PROVE FALSE
    BY <1>1
  <2>1. p \in HeadEnd + 1 .. Len(Stream)
    BY <1>1
  <2>2. Stream[p] = "body"
    BY <2>1, StreamBlank
  <2> QED BY <2>2
<1>3. i \in Nat /\ c \in 1 .. w /\ p - 1 = i * w + (c - 1)
  <2>1. w = 4 \/ w = 5
    BY RequestIs
  <2> HIDE DEF w
  <2>2. CASE w = 4
    BY <2>2
  <2>3. CASE w = 5
    BY <2>3
  <2> QED BY <2>1, <2>2, <2>3
<1> HIDE DEF i, c
<1>4. LineEnd(i) \in Nat /\ LineEnd(Fields + 1) \in Nat /\ c \in Nat /\ c >= 1 /\ p \in Nat
  <2>1. Fields + 1 \in Nat /\ i \in Nat /\ c \in 1 .. w
    BY <1>1, <1>3
  <2> HIDE DEF w
  <2>2. c \in Nat /\ c >= 1
    BY <2>1
  <2>3. LineEnd(i) \in Nat /\ LineEnd(Fields + 1) \in Nat
    BY <2>1, LineEndNat
  <2>4. p \in Nat
    <3>1. Len(Stream) \in Nat
      BY <1>1
    <3> QED BY <3>1
  <2> QED BY <2>2, <2>3, <2>4
<1>5. p = LineEnd(i) + c
  <2>1. LineEnd(i) = i * w
    BY DEF LineEnd
  <2> HIDE DEF w
  <2>2. p - 1 = LineEnd(i) + (c - 1)
    BY <1>3, <2>1
  <2> QED BY <1>4, <2>2
<1>6. HeadEnd = LineEnd(Fields + 1) + Len(EndOf)
  BY LayoutIs
<1>7. i <= Fields + 1
  <2> SUFFICES ASSUME Fields + 1 < i PROVE FALSE
    BY <1>1, <1>3
  <2>1. LineEnd(Fields + 1) + 3 + Len(EndOf) <= LineEnd(i)
    <3>1. Fields + 1 \in Nat
      BY <1>1
    <3> QED BY <1>3, <3>1, LineEndOrder
  <2> HIDE DEF w
  <2>2. PICK e \in 1 .. 2 : e = Len(EndOf)
    BY <1>1
  <2>3. /\ LineEnd(Fields + 1) + 3 + e <= LineEnd(i) /\ p = LineEnd(i) + c
        /\ p <= LineEnd(Fields + 1) + e
    BY <1>2, <1>5, <1>6, <2>1, <2>2
  <2> QED BY <1>4, <2>3
<1>8. CASE i = Fields + 1
  <2> HIDE DEF w
  <2>1. c <= Len(EndOf)
    BY <1>1, <1>2, <1>4, <1>5, <1>6, <1>8
  <2>2. c \in 1 .. Len(EndOf)
    BY <1>1, <1>4, <2>1
  <2>3. Stream[p] = EndOf[c]
    BY <1>5, <1>8, <2>2, StreamBlank
  <2> QED BY <1>5, <1>8, <2>2, <2>3
<1>9. CASE i # Fields + 1
  <2>1. i \in 0 .. Fields
    BY <1>1, <1>3, <1>7, <1>9
  <2>2. c \notin 1 .. 3
    BY <1>5, <2>1, StreamLine
  <2>3. PICK d \in 1 .. Len(EndOf) : c = 3 + d
    <3>1. c - 3 \in 1 .. Len(EndOf) /\ c = 3 + (c - 3)
      BY <1>1, <1>3, <2>2
    <3> QED BY <3>1
  <2>4. p = LineEnd(i) + 3 + d
    BY <1>4, <1>5, <2>3
  <2>5. Stream[p] = EndOf[d]
    BY <2>1, <2>4, StreamLine
  <2> QED BY <2>1, <2>4, <2>5
<1> QED BY <1>8, <1>9

----------------------------------------------------------------------------
(* The blank line is found where it is, and nowhere else.                  *)

(* Before the blank line no line end follows another.                      *)
LEMMA NoPair ==
  ASSUME request \in Requests, NEW x \in 1 .. Len(Stream)
  PROVE  /\ Stream[x] = "LF" /\ x < LineEnd(Fields + 1) => Stream[x + 1] # "LF"
         /\ Stream[x] = "CR" => Len(EndOf) = 2
         /\ Stream[x] = "CR" /\ x < LineEnd(Fields + 1) - 1 => Stream[x + 2] # "CR"
<1>1. /\ Fields \in Nat /\ Fields + 1 \in Nat /\ LineEnd(Fields + 1) \in Nat /\ Len(EndOf) \in 1 .. 2
  <2>1. Fields \in Nat /\ Len(EndOf) \in 1 .. 2
    BY LayoutIs
  <2>2. Fields + 1 \in Nat
    BY <2>1
  <2> QED BY <2>1, <2>2, LineEndNat
<1>2. EndOf[Len(EndOf)] = "LF" /\ (Len(EndOf) = 2 => EndOf[1] = "CR")
  BY EndIs
<1>3. ASSUME Stream[x] = "CR" PROVE Len(EndOf) = 2
  <2>1. PICK c \in 1 .. Len(EndOf) : EndOf[c] = "CR"
    BY <1>3, EndsAt
  <2> QED BY <1>1, <1>2, <2>1
<1>4. ASSUME Stream[x] = "LF", x < LineEnd(Fields + 1) PROVE Stream[x + 1] # "LF"
  <2>1. PICK i \in 0 .. Fields : \E c \in 1 .. Len(EndOf) : x = LineEnd(i) + 3 + c /\ EndOf[c] = "LF"
    <3>1. ~ (\E c \in 1 .. Len(EndOf) : x = LineEnd(Fields + 1) + c)
      BY <1>1, <1>4
    <3> QED BY <1>4, <3>1, EndsAt
  <2>2. PICK c \in 1 .. Len(EndOf) : x = LineEnd(i) + 3 + c /\ EndOf[c] = "LF"
    BY <2>1
  <2>3. c = Len(EndOf)
    BY <1>1, <1>2, <2>2
  <2>4. LineEnd(i) \in Nat /\ LineEnd(i + 1) = LineEnd(i) + 3 + Len(EndOf) /\ i \in Nat
    BY LineIn
  <2>5. x = LineEnd(i + 1)
    BY <1>1, <2>2, <2>3, <2>4
  <2>6. i + 1 \in 0 .. Fields
    <3>1. i + 1 # Fields + 1
      BY <1>4, <2>5, <1>1
    <3> QED BY <1>1, <2>4, <3>1
  <2>7. Stream[LineEnd(i + 1) + 1] \notin {"CR", "LF", "NUL"}
    <3>1. 1 \in 1 .. 3
      OBVIOUS
    <3> QED BY <2>6, <3>1, StreamLine
  <2> QED BY <2>5, <2>7
<1>5. ASSUME Stream[x] = "CR", x < LineEnd(Fields + 1) - 1 PROVE Stream[x + 2] # "CR"
  <2>1. PICK i \in 0 .. Fields : \E c \in 1 .. Len(EndOf) : x = LineEnd(i) + 3 + c /\ EndOf[c] = "CR"
    <3>1. ~ (\E c \in 1 .. Len(EndOf) : x = LineEnd(Fields + 1) + c)
      BY <1>1, <1>5
    <3> QED BY <1>5, <3>1, EndsAt
  <2>2. PICK c \in 1 .. Len(EndOf) : x = LineEnd(i) + 3 + c /\ EndOf[c] = "CR"
    BY <2>1
  <2>3. c = 1 /\ Len(EndOf) = 2
    <3>1. Len(EndOf) = 2
      BY <1>3, <1>5
    <3>2. EndOf[2] = "LF" /\ c \in 1 .. 2
      BY <1>2, <3>1
    <3>3. c # 2
      BY <2>2, <3>2
    <3> QED BY <3>1, <3>2, <3>3
  <2>4. LineEnd(i) \in Nat /\ LineEnd(i + 1) = LineEnd(i) + 3 + Len(EndOf) /\ i \in Nat
    BY LineIn
  <2>5. x + 2 = LineEnd(i + 1) + 1 /\ x + 1 = LineEnd(i + 1)
    BY <1>1, <2>2, <2>3, <2>4
  <2>6. i + 1 \in 0 .. Fields
    <3>1. i + 1 # Fields + 1
      BY <1>1, <1>5, <2>2, <2>3, <2>4, <2>5
    <3> QED BY <1>1, <2>4, <3>1
  <2>7. Stream[LineEnd(i + 1) + 1] \notin {"CR", "LF", "NUL"}
    <3>1. 1 \in 1 .. 3
      OBVIOUS
    <3> QED BY <2>6, <3>1, StreamLine
  <2> QED BY <2>5, <2>7
<1> QED BY <1>3, <1>4, <1>5

Crlf2 == <<"CR", "LF", "CR", "LF">>
Lf2   == <<"LF", "LF">>

LEMMA PatternsAre ==
  /\ Crlf2 \in Seq(Token) /\ Len(Crlf2) = 4
  /\ Crlf2[1] = "CR" /\ Crlf2[2] = "LF" /\ Crlf2[3] = "CR" /\ Crlf2[4] = "LF"
  /\ Lf2 \in Seq(Token) /\ Len(Lf2) = 2 /\ Lf2[1] = "LF" /\ Lf2[2] = "LF"
<1>1. Crlf2 \in Seq(Token) /\ Len(Crlf2) = 4
  BY Tokens DEF Crlf2
<1>2. Lf2 \in Seq(Token) /\ Len(Lf2) = 2
  BY Tokens DEF Lf2
<1>3. Crlf2[1] = "CR" /\ Crlf2[2] = "LF" /\ Crlf2[3] = "CR" /\ Crlf2[4] = "LF"
  BY DEF Crlf2
<1>4. Lf2[1] = "LF" /\ Lf2[2] = "LF"
  BY DEF Lf2
<1> QED BY <1>1, <1>2, <1>3, <1>4

LEMMA BlankNone ==
  ASSUME request \in Requests, NEW a \in Nat, NEW b \in Nat, a <= b, b < LineEnd(Fields + 1)
  PROVE  BlankLine(Part(a, b)).at = 0
<1> DEFINE buf == Part(a, b)
<1>1. Fields \in Nat /\ LineEnd(Fields + 1) \in Nat /\ LineEnd(Fields + 1) <= Len(Stream) /\ Len(Stream) \in Nat
  <2>1. Fields \in Nat
    BY LayoutIs
  <2>2. Fields \in 0 .. Fields /\ Fields + 1 \in Nat
    BY <2>1
  <2>3. LineEnd(Fields + 1) \in Nat
    BY <2>2, LineEndNat
  <2>4. /\ LineEnd(Fields + 1) + Len(EndOf) <= HeadEnd /\ Len(EndOf) \in 1 .. 2
        /\ HeadEnd <= Len(Stream) /\ HeadEnd \in Nat /\ Len(Stream) \in Nat
    BY <2>2, LineIn
  <2> QED BY <2>1, <2>3, <2>4
<1>2. /\ buf \in Seq(Token) /\ Len(buf) = b - a
      /\ \A q \in 1 .. b - a : buf[q] = Stream[a + q]
  <2>1. b <= Len(Stream)
    BY <1>1
  <2> QED BY <2>1, PartBytes
<1> HIDE DEF buf
<1>3. StrStr(buf, Crlf2) = 0
  <2> SUFFICES ASSUME NEW q \in 1 .. Len(buf) - 4 + 1
               PROVE  \E c \in 1 .. 4 : buf[q + c - 1] # Crlf2[c]
    <3>1. Len(Crlf2) \in Nat \ {0} /\ Len(Crlf2) = 4 /\ Crlf2 \in Seq(Token)
      BY PatternsAre
    <3>2. \A q \in 1 .. Len(buf) - Len(Crlf2) + 1 :
            \E c \in 1 .. Len(Crlf2) : buf[q + c - 1] # Crlf2[c]
      BY <3>1
    <3> QED BY <1>2, <3>1, <3>2, StrStrNone
  <2>1. /\ q \in 1 .. b - a /\ q + 2 \in 1 .. b - a /\ a + q \in 1 .. Len(Stream)
        /\ a + q < LineEnd(Fields + 1) - 1
    BY <1>1, <1>2
  <2>2. buf[q] = Stream[a + q] /\ buf[q + 2] = Stream[a + q + 2]
    <3>1. buf[q + 2] = Stream[a + (q + 2)] /\ a + (q + 2) = a + q + 2
      BY <1>2, <2>1
    <3> QED BY <1>2, <2>1, <3>1
  <2>3. ~ (buf[q] = "CR" /\ buf[q + 2] = "CR")
    BY <2>1, <2>2, NoPair
  <2>4. q + 1 - 1 = q /\ q + 3 - 1 = q + 2 /\ {1, 3} \subseteq 1 .. 4
    BY <2>1
  <2> QED BY <2>3, <2>4, PatternsAre
<1>4. StrStr(buf, Lf2) = 0
  <2> SUFFICES ASSUME NEW q \in 1 .. Len(buf) - 2 + 1
               PROVE  \E c \in 1 .. 2 : buf[q + c - 1] # Lf2[c]
    <3>1. Len(Lf2) \in Nat \ {0} /\ Len(Lf2) = 2 /\ Lf2 \in Seq(Token)
      BY PatternsAre
    <3>2. \A q \in 1 .. Len(buf) - Len(Lf2) + 1 :
            \E c \in 1 .. Len(Lf2) : buf[q + c - 1] # Lf2[c]
      BY <3>1
    <3> QED BY <1>2, <3>1, <3>2, StrStrNone
  <2>1. /\ q \in 1 .. b - a /\ q + 1 \in 1 .. b - a /\ a + q \in 1 .. Len(Stream)
        /\ a + q < LineEnd(Fields + 1)
    BY <1>1, <1>2
  <2>2. buf[q] = Stream[a + q] /\ buf[q + 1] = Stream[a + q + 1]
    <3>1. buf[q + 1] = Stream[a + (q + 1)] /\ a + (q + 1) = a + q + 1
      BY <1>2, <2>1
    <3> QED BY <1>2, <2>1, <3>1
  <2>3. ~ (buf[q] = "LF" /\ buf[q + 1] = "LF")
    BY <2>1, <2>2, NoPair
  <2>4. q + 1 - 1 = q /\ q + 2 - 1 = q + 1 /\ {1, 2} \subseteq 1 .. 2
    BY <2>1
  <2> QED BY <2>3, <2>4, PatternsAre
<1>5. BlankLine(buf).at = 0
  BY <1>3, <1>4 DEF BlankLine, Crlf2, Lf2
<1> QED BY <1>5 DEF buf

LEMMA BlankFound ==
  ASSUME request \in Requests, NEW a \in Nat, NEW b \in Nat, a < LineEnd(Fields + 1) - 2,
         HeadEnd <= b, b <= Len(Stream)
  PROVE  /\ BlankLine(Part(a, b)).at = LineEnd(Fields + 1) - a + 1 - Len(EndOf)
         /\ BlankLine(Part(a, b)).body = HeadEnd - a + 1
<1> DEFINE buf == Part(a, b)
           e == LineEnd(Fields + 1)
<1>1. /\ Fields \in 0 .. Fields /\ e \in Nat /\ HeadEnd = e + Len(EndOf) /\ HeadEnd \in Nat
      /\ Len(EndOf) \in 1 .. 2 /\ LineEnd(Fields) \in Nat
      /\ e = LineEnd(Fields) + 3 + Len(EndOf) /\ Len(Stream) \in Nat
  <2>1. Fields \in Nat /\ HeadEnd = e + Len(EndOf)
    BY LayoutIs
  <2>2. Fields \in 0 .. Fields /\ Fields + 1 \in Nat
    BY <2>1
  <2>3. e \in Nat
    BY <2>2, LineEndNat
  <2>4. /\ Len(EndOf) \in 1 .. 2 /\ LineEnd(Fields) \in Nat /\ HeadEnd \in Nat
        /\ e = LineEnd(Fields) + 3 + Len(EndOf) /\ Len(Stream) \in Nat
    BY <2>2, LineIn
  <2> QED BY <2>1, <2>2, <2>3, <2>4
<1>2. /\ buf \in Seq(Token) /\ Len(buf) = b - a
      /\ \A q \in 1 .. b - a : buf[q] = Stream[a + q]
  <2>1. a <= b
    BY <1>1, SMTT(20)
  <2> QED BY <2>1, PartBytes
<1>3. /\ \A c \in 1 .. Len(EndOf) : Stream[LineEnd(Fields) + 3 + c] = EndOf[c]
      /\ \A c \in 1 .. Len(EndOf) : Stream[e + c] = EndOf[c]
  BY <1>1, StreamLine, StreamBlank
<1>4. EndOf[Len(EndOf)] = "LF" /\ (Len(EndOf) = 2 => EndOf[1] = "CR")
  BY EndIs
<1>7. a < e - 2 /\ e + Len(EndOf) <= b /\ b <= Len(Stream) /\ e \in Nat /\ Len(Stream) \in Nat
  BY <1>1
<1> HIDE DEF buf, e
<1>5. CASE Len(EndOf) = 2
  <2> DEFINE p == e - a - 1
  <2>1. p \in 1 .. b - a - 4 + 1 /\ p \in Nat
    BY <1>5, <1>7
  <2>2. /\ Stream[e - 1] = "CR" /\ Stream[e] = "LF" /\ Stream[e + 1] = "CR" /\ Stream[e + 2] = "LF"
    <3>1. 1 \in 1 .. Len(EndOf) /\ 2 \in 1 .. Len(EndOf)
      BY <1>5
    <3>2. LineEnd(Fields) + 3 + 1 = e - 1 /\ LineEnd(Fields) + 3 + 2 = e
      BY <1>1, <1>5, SMTT(20)
    <3>3. EndOf[1] = "CR" /\ EndOf[2] = "LF"
      BY <1>4, <1>5
    <3>4. Stream[LineEnd(Fields) + 3 + 1] = "CR" /\ Stream[LineEnd(Fields) + 3 + 2] = "LF"
      BY <1>3, <3>1, <3>3
    <3>5. Stream[e + 1] = "CR" /\ Stream[e + 2] = "LF"
      BY <1>3, <3>1, <3>3
    <3> QED BY <3>2, <3>4, <3>5
  <2>3. /\ buf[p] = Stream[e - 1] /\ buf[p + 1] = Stream[e]
        /\ buf[p + 2] = Stream[e + 1] /\ buf[p + 3] = Stream[e + 2]
    <3>1. {p, p + 1, p + 2, p + 3} \subseteq 1 .. b - a
      BY <2>1
    <3>2. a + p = e - 1 /\ a + (p + 1) = e /\ a + (p + 2) = e + 1 /\ a + (p + 3) = e + 2
      BY <1>7
    <3> HIDE DEF p
    <3> QED BY <1>2, <3>1, <3>2
  <2> HIDE DEF p
  <2>4. \A c \in 1 .. 4 : buf[p + c - 1] = Crlf2[c]
    <3> TAKE c \in 1 .. 4
    <3>1. c = 1 \/ c = 2 \/ c = 3 \/ c = 4
      OBVIOUS
    <3>2. p + 1 - 1 = p /\ p + 2 - 1 = p + 1 /\ p + 3 - 1 = p + 2 /\ p + 4 - 1 = p + 3
      BY <2>1
    <3> QED BY <2>2, <2>3, <3>1, <3>2, PatternsAre
  <2>5. \A q \in 1 .. p - 1 : \E c \in 1 .. 4 : buf[q + c - 1] # Crlf2[c]
    <3> TAKE q \in 1 .. p - 1
    <3>1. q \in 1 .. b - a /\ q + 2 \in 1 .. b - a /\ a + q \in 1 .. Len(Stream) /\ a + q < e - 1
      BY <1>7, <2>1 DEF p
    <3>2. buf[q] = Stream[a + q] /\ buf[q + 2] = Stream[a + q + 2]
      <4>1. buf[q + 2] = Stream[a + (q + 2)] /\ a + (q + 2) = a + q + 2
        BY <1>2, <3>1
      <4> QED BY <1>2, <3>1, <4>1
    <3>3. ~ (buf[q] = "CR" /\ buf[q + 2] = "CR")
      BY <3>1, <3>2, NoPair DEF e
    <3>4. q + 1 - 1 = q /\ q + 3 - 1 = q + 2 /\ {1, 3} \subseteq 1 .. 4
      BY <3>1
    <3> QED BY <3>3, <3>4, PatternsAre
  <2>6. StrStr(buf, Crlf2) = p
    <3>1. Len(Crlf2) = 4 /\ Len(Crlf2) \in Nat \ {0} /\ Crlf2 \in Seq(Token)
      BY PatternsAre
    <3>2. /\ p \in 1 .. Len(buf) - Len(Crlf2) + 1
          /\ \A c \in 1 .. Len(Crlf2) : buf[p + c - 1] = Crlf2[c]
          /\ \A q \in 1 .. p - 1 : \E c \in 1 .. Len(Crlf2) : buf[q + c - 1] # Crlf2[c]
      BY <1>2, <2>1, <2>4, <2>5, <3>1
    <3> QED BY <1>2, <3>1, <3>2, StrStrAt
  <2>7. BlankLine(buf).at = p /\ BlankLine(buf).body = p + 4
    <3>1. p # 0
      BY <2>1
    <3> QED BY <2>6, <3>1 DEF BlankLine, Crlf2
  <2>8. p = e - a + 1 - Len(EndOf) /\ p + 4 = HeadEnd - a + 1
    BY <1>1, <1>5, SMTT(20) DEF p
  <2> QED BY <2>7, <2>8 DEF buf, e
<1>6. CASE Len(EndOf) = 1
  <2> DEFINE p == e - a
  <2>1. p \in 1 .. b - a - 2 + 1 /\ p \in Nat
    BY <1>6, <1>7
  <2>2. Stream[e] = "LF" /\ Stream[e + 1] = "LF"
    <3>1. 1 \in 1 .. Len(EndOf) /\ EndOf[1] = "LF"
      BY <1>4, <1>6
    <3>2. LineEnd(Fields) + 3 + 1 = e
      BY <1>1, <1>6
    <3>3. Stream[LineEnd(Fields) + 3 + 1] = "LF" /\ Stream[e + 1] = "LF"
      BY <1>3, <3>1
    <3> QED BY <3>2, <3>3
  <2>3. buf[p] = Stream[e] /\ buf[p + 1] = Stream[e + 1]
    <3>1. {p, p + 1} \subseteq 1 .. b - a
      BY <2>1
    <3>2. a + p = e /\ a + (p + 1) = e + 1
      BY <1>7
    <3> HIDE DEF p
    <3> QED BY <1>2, <3>1, <3>2
  <2> HIDE DEF p
  <2>4. \A c \in 1 .. 2 : buf[p + c - 1] = Lf2[c]
    <3> TAKE c \in 1 .. 2
    <3>1. c = 1 \/ c = 2
      OBVIOUS
    <3>2. p + 1 - 1 = p /\ p + 2 - 1 = p + 1
      BY <2>1
    <3> QED BY <2>2, <2>3, <3>1, <3>2, PatternsAre
  <2>5. \A q \in 1 .. p - 1 : \E c \in 1 .. 2 : buf[q + c - 1] # Lf2[c]
    <3> TAKE q \in 1 .. p - 1
    <3>1. q \in 1 .. b - a /\ q + 1 \in 1 .. b - a /\ a + q \in 1 .. Len(Stream) /\ a + q < e
      BY <1>7, <2>1 DEF p
    <3>2. buf[q] = Stream[a + q] /\ buf[q + 1] = Stream[a + q + 1]
      <4>1. buf[q + 1] = Stream[a + (q + 1)] /\ a + (q + 1) = a + q + 1
        BY <1>2, <3>1
      <4> QED BY <1>2, <3>1, <4>1
    <3>3. ~ (buf[q] = "LF" /\ buf[q + 1] = "LF")
      BY <3>1, <3>2, NoPair DEF e
    <3>4. q + 1 - 1 = q /\ q + 2 - 1 = q + 1 /\ {1, 2} \subseteq 1 .. 2
      BY <3>1
    <3> QED BY <3>3, <3>4, PatternsAre
  <2>6. StrStr(buf, Lf2) = p
    <3>1. Len(Lf2) = 2 /\ Len(Lf2) \in Nat \ {0} /\ Lf2 \in Seq(Token)
      BY PatternsAre
    <3>2. /\ p \in 1 .. Len(buf) - Len(Lf2) + 1
          /\ \A c \in 1 .. Len(Lf2) : buf[p + c - 1] = Lf2[c]
          /\ \A q \in 1 .. p - 1 : \E c \in 1 .. Len(Lf2) : buf[q + c - 1] # Lf2[c]
      BY <1>2, <2>1, <2>4, <2>5, <3>1
    <3> QED BY <1>2, <3>1, <3>2, StrStrAt
  <2>7. StrStr(buf, Crlf2) = 0
    <3>1. Len(Crlf2) = 4 /\ Len(Crlf2) \in Nat \ {0} /\ Crlf2 \in Seq(Token)
      BY PatternsAre
    <3>2. ASSUME NEW q \in 1 .. Len(buf) - 4 + 1
          PROVE  \E c \in 1 .. 4 : buf[q + c - 1] # Crlf2[c]
      <4>1. q \in 1 .. b - a /\ a + q \in 1 .. Len(Stream) /\ q + 1 - 1 = q
        BY <1>1, <1>2
      <4>2. buf[q] # "CR"
        <5>1. buf[q] = Stream[a + q]
          BY <1>2, <4>1
        <5>2. Len(EndOf) # 2
          BY <1>6
        <5> QED BY <4>1, <5>1, <5>2, NoPair
      <4>3. 1 \in 1 .. 4 /\ Crlf2[1] = "CR"
        BY PatternsAre
      <4> QED BY <4>1, <4>2, <4>3
    <3>3. \A q \in 1 .. Len(buf) - Len(Crlf2) + 1 :
            \E c \in 1 .. Len(Crlf2) : buf[q + c - 1] # Crlf2[c]
      BY <3>1, <3>2
    <3> QED BY <1>2, <3>1, <3>3, StrStrNone
  <2>8. BlankLine(buf).at = p /\ BlankLine(buf).body = p + 2
    BY <2>6, <2>7 DEF BlankLine, Crlf2, Lf2
  <2>9. p = e - a + 1 - Len(EndOf) /\ p + 2 = HeadEnd - a + 1
    BY <1>1, <1>6, SMTT(20) DEF p
  <2> QED BY <2>8, <2>9 DEF buf, e
<1> QED BY <1>1, <1>5, <1>6

----------------------------------------------------------------------------
(* Texts in which strstr finds no blank line.                              *)

(* No two LFs are so near that nothing, or only a CR, is between them.     *)
NoBlank(buf) ==
  \A p, q \in 1 .. Len(buf) : buf[p] = "LF" /\ buf[q] = "LF" /\ p < q => p + 3 <= q

LEMMA NoBlankFound ==
  ASSUME NEW buf \in Seq(Token), NoBlank(buf)
  PROVE  BlankLine(buf).at = 0
<1>1. Len(buf) \in Nat
  BY LenProperties
<1>2. StrStr(buf, Crlf2) = 0
  <2> SUFFICES ASSUME NEW q \in 1 .. Len(buf) - 4 + 1
               PROVE  \E c \in 1 .. 4 : buf[q + c - 1] # Crlf2[c]
    <3>1. Len(Crlf2) \in Nat \ {0} /\ Len(Crlf2) = 4 /\ Crlf2 \in Seq(Token)
      BY PatternsAre
    <3>2. \A q \in 1 .. Len(buf) - Len(Crlf2) + 1 :
            \E c \in 1 .. Len(Crlf2) : buf[q + c - 1] # Crlf2[c]
      BY <3>1
    <3> QED BY <3>1, <3>2, StrStrNone
  <2>1. q + 1 \in 1 .. Len(buf) /\ q + 3 \in 1 .. Len(buf) /\ q + 1 < q + 3 /\ ~ (q + 1 + 3 <= q + 3)
    BY <1>1
  <2>2. ~ (buf[q + 1] = "LF" /\ buf[q + 3] = "LF")
    BY <2>1 DEF NoBlank
  <2>3. q + 2 - 1 = q + 1 /\ q + 4 - 1 = q + 3 /\ {2, 4} \subseteq 1 .. 4
    BY <1>1
  <2> QED BY <2>2, <2>3, PatternsAre
<1>3. StrStr(buf, Lf2) = 0
  <2> SUFFICES ASSUME NEW q \in 1 .. Len(buf) - 2 + 1
               PROVE  \E c \in 1 .. 2 : buf[q + c - 1] # Lf2[c]
    <3>1. Len(Lf2) \in Nat \ {0} /\ Len(Lf2) = 2 /\ Lf2 \in Seq(Token)
      BY PatternsAre
    <3>2. \A q \in 1 .. Len(buf) - Len(Lf2) + 1 :
            \E c \in 1 .. Len(Lf2) : buf[q + c - 1] # Lf2[c]
      BY <3>1
    <3> QED BY <3>1, <3>2, StrStrNone
  <2>1. q \in 1 .. Len(buf) /\ q + 1 \in 1 .. Len(buf) /\ q < q + 1 /\ ~ (q + 3 <= q + 1)
    BY <1>1
  <2>2. ~ (buf[q] = "LF" /\ buf[q + 1] = "LF")
    BY <2>1 DEF NoBlank
  <2>3. q + 1 - 1 = q /\ q + 2 - 1 = q + 1 /\ {1, 2} \subseteq 1 .. 2
    BY <1>1
  <2> QED BY <2>2, <2>3, PatternsAre
<1> QED BY <1>2, <1>3 DEF BlankLine, Crlf2, Lf2

(* What is taken from such a text, from some place on, is one as well.     *)
LEMMA NoBlankWithin ==
  ASSUME NEW buf \in Seq(Token), NoBlank(buf), NEW s \in Seq(Token), NEW d \in Int,
         \A p \in 1 .. Len(s) : s[p] = "LF" => p + d \in 1 .. Len(buf) /\ buf[p + d] = "LF"
  PROVE  NoBlank(s)
<1> SUFFICES ASSUME NEW p \in 1 .. Len(s), NEW q \in 1 .. Len(s), s[p] = "LF", s[q] = "LF", p < q
             PROVE  p + 3 <= q
  BY DEF NoBlank
<1>1. p \in Int /\ q \in Int /\ p + d < q + d
  OBVIOUS
<1>2. (p + d) + 3 <= q + d
  BY <1>1 DEF NoBlank
<1> QED BY <1>1, <1>2

LEMMA NoBlankFrom ==
  ASSUME NEW buf \in Seq(Token), NoBlank(buf), NEW i \in Nat \ {0}
  PROVE  From(buf, i) \in Seq(Token) /\ NoBlank(From(buf, i))
<1> DEFINE s == From(buf, i)
<1>1. /\ s \in Seq(Token) /\ Len(buf) \in Nat /\ Len(s) \in Nat
      /\ Len(s) = IF i <= Len(buf) THEN Len(buf) - i + 1 ELSE 0
      /\ \A j \in 1 .. Len(buf) - i + 1 : s[j] = buf[i + j - 1]
  BY FromIs, LenProperties
<1> HIDE DEF s
<1>2. i - 1 \in Int
  OBVIOUS
<1>3. ASSUME NEW p \in 1 .. Len(s) PROVE p + (i - 1) \in 1 .. Len(buf) /\ s[p] = buf[p + (i - 1)]
  <2>1. i <= Len(buf) /\ p \in 1 .. Len(buf) - i + 1 /\ p + (i - 1) \in 1 .. Len(buf)
        /\ i + p - 1 = p + (i - 1)
    BY <1>1
  <2> QED BY <1>1, <2>1
<1>4. NoBlank(s)
  BY <1>1, <1>2, <1>3, NoBlankWithin
<1> QED BY <1>1, <1>4 DEF s

(* As is one that agrees with it as far as it goes, or has other bytes than*)
(* an LF there.                                                            *)
LEMMA NoBlankLess ==
  ASSUME NEW buf \in Seq(Token), NoBlank(buf), NEW s \in Seq(Token), Len(s) <= Len(buf),
         \A p \in 1 .. Len(s) : s[p] = "LF" => buf[p] = "LF"
  PROVE  NoBlank(s)
<1>1. Len(s) \in Nat /\ Len(buf) \in Nat
  BY LenProperties
<1>2. ASSUME NEW p \in 1 .. Len(s), NEW q \in 1 .. Len(s), s[p] = "LF", s[q] = "LF", p < q
      PROVE  p + 3 <= q
  <2>1. p \in 1 .. Len(buf) /\ q \in 1 .. Len(buf) /\ buf[p] = "LF" /\ buf[q] = "LF"
    BY <1>1, <1>2
  <2> QED BY <1>2, <2>1 DEF NoBlank
<1> QED BY <1>2 DEF NoBlank

LEMMA NoBlankFirst ==
  ASSUME NEW buf \in Seq(Token), NoBlank(buf), NEW k \in Nat
  PROVE  First(buf, k) \in Seq(Token) /\ NoBlank(First(buf, k))
<1> DEFINE s == First(buf, k)
<1>1. /\ s \in Seq(Token) /\ Len(buf) \in Nat
      /\ Len(s) = (IF Len(buf) <= k THEN Len(buf) ELSE k)
      /\ \A j \in 1 .. Len(s) : s[j] = buf[j]
  BY FirstIs, LenProperties
<1> HIDE DEF s
<1>2. Len(s) <= Len(buf)
  BY <1>1
<1> QED BY <1>1, <1>2, NoBlankLess DEF s

LEMMA NoBlankCut ==
  ASSUME NEW buf \in Seq(Token), NoBlank(buf), NEW i \in 0 .. Len(buf)
  PROVE  NoBlank(Cut(buf, i))
<1> DEFINE s == Cut(buf, i)
<1>1. /\ s \in Seq(Token) /\ Len(s) = Len(buf) /\ Len(buf) \in Nat
      /\ \A j \in 1 .. Len(buf) : s[j] = IF j = i THEN "NUL" ELSE buf[j]
  BY CutIs, LenProperties
<1> HIDE DEF s
<1>2. Len(s) <= Len(buf) /\ \A p \in 1 .. Len(s) : s[p] = "LF" => buf[p] = "LF"
  BY <1>1
<1> QED BY <1>1, <1>2, NoBlankLess DEF s

LEMMA NoBlankFurther ==
  ASSUME NEW buf \in Seq(Token), NoBlank(buf), NEW i \in Nat
  PROVE  OneFurther(buf, i) \in Seq(Token) /\ NoBlank(OneFurther(buf, i))
<1> DEFINE rear  == From(buf, i + 1)
           after == Upto(rear, {"NUL"})
           put   == <<"junk">> \o after
<1>1. rear \in Seq(Token) /\ NoBlank(rear)
  <2>1. i + 1 \in Nat \ {0}
    OBVIOUS
  <2> QED BY <2>1, NoBlankFrom
<1> HIDE DEF rear
<1>2. after \in Seq(Token) /\ NoBlank(after) /\ Len(after) \in Nat
  <2>1. /\ after \in Seq(Token) /\ Len(after) <= Len(rear) /\ Len(after) \in Nat
        /\ \A j \in 1 .. Len(after) : after[j] = rear[j]
    BY <1>1, UptoIs, LenProperties
  <2> HIDE DEF after
  <2> QED BY <1>1, <2>1, NoBlankLess
<1>3. OneFurther(buf, i) = after \/ OneFurther(buf, i) = put
  BY DEF OneFurther, rear
<1> HIDE DEF after
<1>4. put \in Seq(Token) /\ NoBlank(put)
  <2>1. <<"junk">> \in Seq(Token) /\ Len(<<"junk">>) = 1 /\ <<"junk">>[1] = "junk"
    BY Tokens
  <2>2. /\ put \in Seq(Token) /\ Len(put) = 1 + Len(after)
        /\ \A q \in 1 .. 1 + Len(after) : put[q] = IF q <= 1 THEN "junk" ELSE after[q - 1]
    <3>1. /\ put \in Seq(Token) /\ Len(put) = Len(<<"junk">>) + Len(after)
          /\ \A q \in 1 .. Len(<<"junk">>) + Len(after) :
               put[q] = IF q <= Len(<<"junk">>) THEN <<"junk">>[q] ELSE after[q - Len(<<"junk">>)]
      BY <1>2, <2>1, ConcatProperties
    <3> HIDE DEF put
    <3>2. \A q \in 1 .. 1 + Len(after) : q <= 1 => q = 1
      OBVIOUS
    <3> QED BY <2>1, <3>1, <3>2
  <2> HIDE DEF put
  <2>3. ASSUME NEW p \in 1 .. Len(put), put[p] = "LF"
        PROVE  p + (-1) \in 1 .. Len(after) /\ after[p + (-1)] = "LF"
    <3>1. ~ (p <= 1)
      BY <2>2, <2>3
    <3>2. p - 1 = p + (-1) /\ p + (-1) \in 1 .. Len(after)
      BY <1>2, <2>2, <3>1
    <3> QED BY <2>2, <2>3, <3>1, <3>2
  <2>4. -1 \in Int
    OBVIOUS
  <2> QED BY <1>2, <2>2, <2>3, <2>4, NoBlankWithin
<1> QED BY <1>2, <1>3, <1>4

(* Where the LFs of the stream are: the last bytes of its lines.           *)
LEMMA LineFeedAt ==
  ASSUME request \in Requests, NEW p \in 1 .. Len(Stream), Stream[p] = "LF"
  PROVE  p = HeadEnd \/ \E i \in 1 .. Fields + 1 : p = LineEnd(i)
<1>1. /\ Fields \in Nat /\ Len(EndOf) \in 1 .. 2 /\ HeadEnd = LineEnd(Fields + 1) + Len(EndOf)
      /\ EndOf[Len(EndOf)] = "LF" /\ (Len(EndOf) = 2 => EndOf[1] = "CR")
  BY LayoutIs, EndIs
<1>2. ASSUME NEW c \in 1 .. Len(EndOf), EndOf[c] = "LF" PROVE c = Len(EndOf)
  BY <1>1, <1>2
<1>3. CASE \E i \in 0 .. Fields : \E c \in 1 .. Len(EndOf) :
             p = LineEnd(i) + 3 + c /\ Stream[p] = EndOf[c]
  <2>1. PICK i \in 0 .. Fields : \E c \in 1 .. Len(EndOf) :
               p = LineEnd(i) + 3 + c /\ Stream[p] = EndOf[c]
    BY <1>3
  <2>2. PICK c \in 1 .. Len(EndOf) : p = LineEnd(i) + 3 + c /\ Stream[p] = EndOf[c]
    BY <2>1
  <2>3. c = Len(EndOf)
    BY <1>2, <2>2
  <2>4. p = LineEnd(i + 1)
    BY <2>2, <2>3, LineIn
  <2>5. i + 1 \in 1 .. Fields + 1
    BY <1>1
  <2> QED BY <2>4, <2>5
<1>4. CASE \E c \in 1 .. Len(EndOf) : p = LineEnd(Fields + 1) + c /\ Stream[p] = EndOf[c]
  <2>1. PICK c \in 1 .. Len(EndOf) : p = LineEnd(Fields + 1) + c /\ Stream[p] = EndOf[c]
    BY <1>4
  <2> QED BY <1>1, <1>2, <2>1
<1> QED BY <1>3, <1>4, EndsAt

(* Of the stream, what does not reach beyond the header lines, and what    *)
(* begins past them.                                                       *)
LEMMA NoBlankPart ==
  ASSUME request \in Requests, NEW a \in Nat, NEW b \in Nat, a <= b, b <= Len(Stream),
         b <= LineEnd(Fields + 1) \/ a >= LineEnd(Fields + 1)
  PROVE  NoBlank(Part(a, b))
<1> DEFINE buf  == Part(a, b)
           last == Fields + 1
<1>1. buf \in Seq(Token) /\ Len(buf) = b - a /\ \A q \in 1 .. b - a : buf[q] = Stream[a + q]
  BY PartBytes
<1>2. /\ last \in Nat /\ LineEnd(last) \in Nat /\ HeadEnd = LineEnd(last) + Len(EndOf)
      /\ Len(EndOf) \in 1 .. 2 /\ Len(Stream) \in Nat
  <2>1. Fields \in Nat
    BY LayoutIs
  <2>2. last \in Nat
    BY <2>1
  <2>3. HeadEnd = LineEnd(last) + Len(EndOf) /\ Len(EndOf) \in 1 .. 2
    BY LayoutIs
  <2>4. 0 \in 0 .. Fields
    BY <2>1
  <2>5. Len(Stream) \in Nat
    BY <2>4, LineIn
  <2>6. LineEnd(last) \in Nat
    BY <2>2, LineEndNat
  <2> QED BY <2>2, <2>3, <2>5, <2>6
<1> HIDE DEF buf, last
<1> SUFFICES ASSUME NEW p \in 1 .. Len(buf), NEW q \in 1 .. Len(buf),
                    buf[p] = "LF", buf[q] = "LF", p < q
             PROVE  p + 3 <= q
  BY DEF NoBlank, buf
<1>3. /\ a + p \in 1 .. Len(Stream) /\ a + q \in 1 .. Len(Stream) /\ a + q <= b
      /\ Stream[a + p] = "LF" /\ Stream[a + q] = "LF" /\ a + p < a + q
  <2>1. p \in 1 .. b - a /\ q \in 1 .. b - a
    BY <1>1
  <2>2. Stream[a + p] = "LF" /\ Stream[a + q] = "LF"
    BY <1>1, <2>1
  <2>3. a + p \in 1 .. Len(Stream) /\ a + q \in 1 .. Len(Stream) /\ a + q <= b /\ a + p < a + q
    BY <1>2, <2>1
  <2> QED BY <2>2, <2>3
<1>4. \A i \in 1 .. last : i \in Nat /\ LineEnd(i) \in Nat /\ LineEnd(i) <= LineEnd(last)
  <2> SUFFICES ASSUME NEW i \in 1 .. last
               PROVE  i \in Nat /\ LineEnd(i) \in Nat /\ LineEnd(i) <= LineEnd(last)
    OBVIOUS
  <2>1. i \in Nat /\ (i < last \/ i = last)
    BY <1>2
  <2>2. LineEnd(i) \in Nat
    BY <2>1, LineEndNat
  <2>3. i < last => LineEnd(i) + 3 + Len(EndOf) <= LineEnd(last)
    BY <1>2, <2>1, LineEndOrder
  <2> QED BY <1>2, <2>1, <2>2, <2>3
<1>5. PICK i \in 1 .. last : a + p = LineEnd(i)
  <2>1. a + p # HeadEnd
    <3> SUFFICES ASSUME a + p = HeadEnd PROVE FALSE
      OBVIOUS
    <3>1. a + q # HeadEnd /\ ~ (a + q <= LineEnd(last))
      BY <1>2, <1>3
    <3>2. \E j \in 1 .. last : a + q = LineEnd(j)
      BY <1>3, <3>1, LineFeedAt DEF last
    <3> QED BY <1>4, <3>1, <3>2
  <2> QED BY <1>3, <2>1, LineFeedAt DEF last
<1>6. b <= LineEnd(last)
  <2> SUFFICES ASSUME a >= LineEnd(last) PROVE FALSE
    BY DEF last
  <2> QED BY <1>2, <1>4, <1>5
<1>7. PICK j \in 1 .. last : a + q = LineEnd(j)
  <2>1. a + q # HeadEnd
    <3>1. HeadEnd > LineEnd(last) /\ HeadEnd \in Nat
      <4>1. PICK e \in 1 .. 2 : e = Len(EndOf)
        BY <1>2
      <4>2. PICK w \in Nat : w = LineEnd(last)
        BY <1>2
      <4>3. HeadEnd = w + e
        BY <1>2, <4>1, <4>2
      <4> QED BY <4>2, <4>3
    <3>2. a + q \in Nat /\ a + q <= LineEnd(last)
      <4>1. a + q \in Nat /\ a + q <= b
        BY <1>2, <1>3
      <4> QED BY <1>2, <1>6, <4>1
    <3> QED BY <1>2, <3>1, <3>2
  <2> QED BY <1>3, <2>1, LineFeedAt DEF last
<1>8. i < j
  <2> SUFFICES ASSUME ~ (i < j) PROVE FALSE
    OBVIOUS
  <2>1. i \in Nat /\ j \in Nat /\ (j < i \/ i = j) /\ LineEnd(i) \in Nat /\ LineEnd(j) \in Nat
    BY <1>4
  <2>2. LineEnd(i) < LineEnd(j)
    BY <1>3, <1>5, <1>7
  <2>3. i # j
    BY <2>1, <2>2
  <2>4. j < i => LineEnd(j) + 3 + Len(EndOf) <= LineEnd(i)
    BY <2>1, LineEndOrder
  <2> QED BY <1>2, <2>1, <2>2, <2>3, <2>4
<1>9. LineEnd(i) + 3 + Len(EndOf) <= LineEnd(j)
  BY <1>4, <1>8, LineEndOrder
<1> QED BY <1>2, <1>3, <1>4, <1>5, <1>7, <1>9

----------------------------------------------------------------------------
(* A map of the first fields, and one more of them.                        *)

LEMMA NamedStep ==
  ASSUME NEW r, NEW name, NEW k \in Nat \ {0}
  PROVE  /\ Lower(r.fields[k]) = name =>
              Cardinality(FieldsNamed(r, name, k)) = Cardinality(FieldsNamed(r, name, k - 1)) + 1
         /\ Lower(r.fields[k]) # name => FieldsNamed(r, name, k) = FieldsNamed(r, name, k - 1)
         /\ Cardinality(FieldsNamed(r, name, k - 1)) \in Nat
<1> DEFINE before == FieldsNamed(r, name, k - 1)
           now    == FieldsNamed(r, name, k)
<1>1. IsFiniteSet(before)
  <2>1. before \subseteq 1 .. k - 1
    BY DEF FieldsNamed
  <2>2. IsFiniteSet(1 .. k - 1)
    BY FS_Interval
  <2> HIDE DEF before
  <2> QED BY <2>1, <2>2, FS_Subset
<1>2. Lower(r.fields[k]) = name => now = before \cup {k}
  BY DEF FieldsNamed
<1>3. Lower(r.fields[k]) # name => now = before
  BY DEF FieldsNamed
<1>4. k \notin before
  BY DEF FieldsNamed
<1> HIDE DEF before, now
<1>5. Cardinality(before) \in Nat
  BY <1>1, FS_CardinalityType
<1>6. Cardinality(before \cup {k}) = Cardinality(before) + 1
  BY <1>1, <1>4, FS_AddElement
<1> QED BY <1>2, <1>3, <1>5, <1>6 DEF before, now

LEMMA NamedGrows ==
  ASSUME NEW r, NEW name, NEW k \in Nat, NEW i \in 1 .. k
  PROVE  /\ Cardinality(FieldsNamed(r, name, i)) \in Nat
         /\ Cardinality(FieldsNamed(r, name, k)) \in Nat
         /\ Cardinality(FieldsNamed(r, name, i)) <= Cardinality(FieldsNamed(r, name, k))
         /\ i \in FieldsNamed(r, name, k) => Cardinality(FieldsNamed(r, name, i)) >= 1
<1>1. FieldsNamed(r, name, k) \subseteq 1 .. k /\ FieldsNamed(r, name, i) \subseteq FieldsNamed(r, name, k)
  BY DEF FieldsNamed
<1>2. IsFiniteSet(FieldsNamed(r, name, k))
  BY <1>1, FS_Interval, FS_Subset
<1>3. IsFiniteSet(FieldsNamed(r, name, i))
  BY <1>1, <1>2, FS_Subset
<1>4. Cardinality(FieldsNamed(r, name, i)) <= Cardinality(FieldsNamed(r, name, k))
  BY <1>1, <1>2, FS_Subset
<1>5. /\ Cardinality(FieldsNamed(r, name, i)) \in Nat
      /\ Cardinality(FieldsNamed(r, name, k)) \in Nat
  BY <1>2, <1>3, FS_CardinalityType
<1>6. i \in FieldsNamed(r, name, k) => FieldsNamed(r, name, i) # {}
  BY DEF FieldsNamed
<1>7. FieldsNamed(r, name, i) # {} => Cardinality(FieldsNamed(r, name, i)) # 0
  BY <1>3, FS_EmptySet
<1> QED BY <1>4, <1>5, <1>6, <1>7

(* One more value is joined to those of its name, or cut off.              *)
LEMMA JoinedNext ==
  ASSUME NEW r, NEW i \in Nat \ {0}, NEW name, Lower(r.fields[i]) = name,
         NEW old \in Seq(Token), NEW v \in Token, v = ValueOf(r, i), Joined(old, r, name, i - 1)
  PROVE  Joined(First(old \o <<v>>, ValueMax), r, name, i)
<1> USE RequestParsingAssumption
<1> DEFINE all    == Cardinality(FieldsNamed(r, name, i - 1))
           longer == old \o <<v>>
           new    == First(longer, ValueMax)
<1>1. all \in Nat /\ Cardinality(FieldsNamed(r, name, i)) = all + 1 /\ ValueMax \in Nat \ {0}
  BY NamedStep
<1>2. /\ Len(old) = IF all <= ValueMax THEN all ELSE ValueMax
      /\ \A k \in FieldsNamed(r, name, i - 1) :
           Rank(r, k) <= ValueMax => old[Rank(r, k)] = ValueOf(r, k)
  BY DEF Joined
<1>3. Rank(r, i) = all + 1
  BY <1>1 DEF Rank
<1>4. /\ longer \in Seq(Token) /\ Len(longer) = Len(old) + 1
      /\ \A q \in 1 .. Len(old) : longer[q] = old[q]
      /\ longer[Len(old) + 1] = v
  <2>1. <<v>> \in Seq(Token) /\ Len(<<v>>) = 1 /\ <<v>>[1] = v /\ Len(old) \in Nat
    BY LenProperties
  <2>2. /\ longer \in Seq(Token) /\ Len(longer) = Len(old) + 1
        /\ \A q \in 1 .. Len(old) + 1 :
             longer[q] = IF q <= Len(old) THEN old[q] ELSE <<v>>[q - Len(old)]
    BY <2>1, ConcatProperties
  <2> HIDE DEF longer
  <2>3. \A q \in 1 .. Len(old) : q \in 1 .. Len(old) + 1 /\ q <= Len(old)
    BY <2>1
  <2>4. Len(old) + 1 \in 1 .. Len(old) + 1 /\ ~ (Len(old) + 1 <= Len(old)) /\ Len(old) + 1 - Len(old) = 1
    BY <2>1
  <2>5. longer[Len(old) + 1] = <<v>>[1]
    BY <2>2, <2>4
  <2> QED BY <2>1, <2>2, <2>3, <2>5
<1> HIDE DEF longer
<1>5. /\ new \in Seq(Token) /\ Len(new) = IF Len(longer) <= ValueMax THEN Len(longer) ELSE ValueMax
      /\ \A q \in 1 .. Len(new) : new[q] = longer[q]
  BY <1>1, <1>4, FirstIs
<1> HIDE DEF new, all
<1>6. Len(new) = IF all + 1 <= ValueMax THEN all + 1 ELSE ValueMax
  <2>1. CASE all <= ValueMax
    BY <1>1, <1>2, <1>4, <1>5, <2>1
  <2>2. CASE ~ (all <= ValueMax)
    BY <1>1, <1>2, <1>4, <1>5, <2>2
  <2> QED BY <2>1, <2>2
<1>7. ASSUME NEW k \in FieldsNamed(r, name, i), Rank(r, k) <= ValueMax
      PROVE  new[Rank(r, k)] = ValueOf(r, k)
  <2>1. CASE k = i
    <3>1. all + 1 <= ValueMax /\ Len(old) = all /\ Len(new) = all + 1
      BY <1>1, <1>2, <1>3, <1>6, <1>7, <2>1
    <3>2. new[all + 1] = longer[all + 1] /\ longer[all + 1] = v
      BY <1>1, <1>4, <1>5, <3>1
    <3> QED BY <1>3, <2>1, <3>2
  <2>2. CASE k # i
    <3>1. k \in FieldsNamed(r, name, i - 1) /\ k \in 1 .. i - 1 /\ Lower(r.fields[k]) = name
      BY <2>2 DEF FieldsNamed
    <3>2. Rank(r, k) \in Nat /\ Rank(r, k) <= all /\ Rank(r, k) >= 1
      <4>1. i - 1 \in Nat
        OBVIOUS
      <4> QED BY <3>1, <4>1, NamedGrows DEF Rank, all
    <3>3. Rank(r, k) \in 1 .. Len(old)
      <4>1. CASE all <= ValueMax
        BY <1>1, <1>2, <3>2, <4>1
      <4>2. CASE ~ (all <= ValueMax)
        BY <1>1, <1>2, <1>7, <3>2, <4>2
      <4> QED BY <4>1, <4>2
    <3>4. Rank(r, k) \in 1 .. Len(new)
      <4>1. CASE all + 1 <= ValueMax
        BY <1>1, <1>6, <3>2, <4>1
      <4>2. CASE ~ (all + 1 <= ValueMax)
        BY <1>1, <1>6, <1>7, <3>2, <4>2
      <4> QED BY <4>1, <4>2
    <3>5. new[Rank(r, k)] = old[Rank(r, k)]
      BY <1>4, <1>5, <3>3, <3>4
    <3> QED BY <1>2, <1>7, <3>1, <3>5
  <2> QED BY <2>1, <2>2
<1>8. Joined(new, r, name, i)
  <2>1. Len(new) = LET total == Cardinality(FieldsNamed(r, name, i)) IN
                   IF total <= ValueMax THEN total ELSE ValueMax
    BY <1>1, <1>6
  <2> QED BY <1>7, <2>1 DEF Joined
<1> QED BY <1>8 DEF new, longer

NameOf(i) == <<Lower(request.fields[i])>>

(* A map holds the first k fields, but for those that have been popped.    *)
Gathered(m, k, popped) ==
  /\ \A f \in DOMAIN m : \E i \in 1 .. k : f = NameOf(i) /\ f \notin popped
  /\ \A i \in 1 .. k : NameOf(i) \notin popped =>
       NameOf(i) \in DOMAIN m /\ Joined(m[NameOf(i)], request, Lower(request.fields[i]), k)

LEMMA NameIs ==
  \A i, k : NameOf(i) = NameOf(k) <=> Lower(request.fields[i]) = Lower(request.fields[k])
<1> TAKE i, k
<1>1. NameOf(i)[1] = Lower(request.fields[i]) /\ NameOf(k)[1] = Lower(request.fields[k])
  BY DEF NameOf
<1>2. Lower(request.fields[i]) = Lower(request.fields[k]) => NameOf(i) = NameOf(k)
  BY DEF NameOf
<1> QED BY <1>1, <1>2

LEMMA GathersNext ==
  ASSUME request \in Requests, NEW m, ValidMap(m), NEW i \in 1 .. Fields, Gathered(m, i - 1, {}),
         NEW new, new = AddField(m, NameOf(i), <<ValueOf(request, i)>>)
  PROVE  Gathered(new, i, {})
<1> DEFINE name == Lower(request.fields[i])
           v    == ValueOf(request, i)
<1>1. Fields \in Nat /\ i \in Nat \ {0} /\ v \in Token
  <2>1. Fields \in Nat
    BY LayoutIs
  <2>2. v \in Token
    BY RequestIs DEF Fields
  <2> QED BY <2>1, <2>2
<1>2. /\ \A f \in DOMAIN m : \E k \in 1 .. i - 1 : f = NameOf(k)
      /\ \A k \in 1 .. i - 1 :
           NameOf(k) \in DOMAIN m /\ Joined(m[NameOf(k)], request, Lower(request.fields[k]), i - 1)
  BY DEF Gathered
<1>3. /\ DOMAIN new = DOMAIN m \cup {NameOf(i)}
      /\ \A f \in DOMAIN m : f # NameOf(i) => new[f] = m[f]
      /\ NameOf(i) \in DOMAIN m => new[NameOf(i)] = First(m[NameOf(i)] \o <<v>>, ValueMax)
      /\ NameOf(i) \notin DOMAIN m => new[NameOf(i)] = <<v>>
  BY DEF AddField
<1> HIDE DEF name, v
<1>4. ASSUME NEW k \in 1 .. i - 1, Lower(request.fields[k]) # name
      PROVE  NameOf(k) \in DOMAIN new /\ Joined(new[NameOf(k)], request, Lower(request.fields[k]), i)
  <2>1. NameOf(k) # NameOf(i)
    BY <1>4, NameIs DEF name
  <2>2. /\ NameOf(k) \in DOMAIN m /\ new[NameOf(k)] = m[NameOf(k)]
        /\ Joined(m[NameOf(k)], request, Lower(request.fields[k]), i - 1)
    BY <1>2, <1>3, <2>1
  <2>3. FieldsNamed(request, Lower(request.fields[k]), i)
          = FieldsNamed(request, Lower(request.fields[k]), i - 1)
    BY <1>1, <1>4, NamedStep DEF name
  <2>4. Joined(m[NameOf(k)], request, Lower(request.fields[k]), i)
    BY <2>2, <2>3 DEF Joined
  <2> QED BY <1>3, <2>2, <2>4
<1>5. Joined(new[NameOf(i)], request, name, i)
  <2>1. CASE NameOf(i) \in DOMAIN m
    <3>1. PICK k \in 1 .. i - 1 : NameOf(i) = NameOf(k)
      BY <1>2, <2>1
    <3>2. Lower(request.fields[k]) = name
      BY <3>1, NameIs DEF name
    <3>3. Joined(m[NameOf(i)], request, name, i - 1)
      BY <1>2, <3>1, <3>2
    <3>4. m[NameOf(i)] \in Seq(Token)
      BY <2>1 DEF ValidMap
    <3>5. Joined(First(m[NameOf(i)] \o <<v>>, ValueMax), request, name, i)
      BY <1>1, <3>3, <3>4, JoinedNext DEF name, v
    <3> QED BY <1>3, <2>1, <3>5
  <2>2. CASE NameOf(i) \notin DOMAIN m
    <3>1. \A k \in 1 .. i - 1 : Lower(request.fields[k]) # name
      BY <1>2, <2>2, NameIs DEF name
    <3>2. FieldsNamed(request, name, i - 1) = {}
      BY <3>1 DEF FieldsNamed
    <3>3. Cardinality(FieldsNamed(request, name, i)) = 1
      <4>1. Cardinality(FieldsNamed(request, name, i - 1)) = 0
        BY <3>2, FS_EmptySet
      <4> QED BY <1>1, <4>1, NamedStep DEF name
    <3>4. \A k \in FieldsNamed(request, name, i) : k = i
      BY <1>1, <3>1 DEF FieldsNamed
    <3>5. Rank(request, i) = 1
      BY <3>3 DEF Rank, name
    <3>6. new[NameOf(i)] = <<v>> /\ Len(<<v>>) = 1 /\ <<v>>[1] = v
      BY <1>3, <2>2
    <3>7. 1 <= ValueMax
      BY RequestParsingAssumption
    <3>8. Len(<<v>>) = LET total == Cardinality(FieldsNamed(request, name, i)) IN
                       IF total <= ValueMax THEN total ELSE ValueMax
      BY <3>3, <3>6, <3>7
    <3>9. \A k \in FieldsNamed(request, name, i) :
            Rank(request, k) <= ValueMax => <<v>>[Rank(request, k)] = ValueOf(request, k)
      BY <3>4, <3>5, <3>6 DEF v
    <3> QED BY <3>6, <3>8, <3>9 DEF Joined
  <2> QED BY <2>1, <2>2
<1>6. ASSUME NEW k \in 1 .. i
      PROVE  NameOf(k) \in DOMAIN new /\ Joined(new[NameOf(k)], request, Lower(request.fields[k]), i)
  <2>1. CASE Lower(request.fields[k]) = name
    <3>1. NameOf(k) = NameOf(i)
      BY <2>1, NameIs DEF name
    <3> QED BY <1>3, <1>5, <2>1, <3>1
  <2>2. CASE Lower(request.fields[k]) # name
    <3>1. k # i
      BY <2>2 DEF name
    <3>2. k \in 1 .. i - 1
      BY <1>1, <3>1
    <3> QED BY <1>4, <2>2, <3>2
  <2> QED BY <2>1, <2>2
<1>7. \A f \in DOMAIN new : \E k \in 1 .. i : f = NameOf(k)
  <2> TAKE f \in DOMAIN new
  <2>1. CASE f \in DOMAIN m
    <3>1. PICK k \in 1 .. i - 1 : f = NameOf(k)
      BY <1>2, <2>1
    <3>2. k \in 1 .. i
      BY <1>1
    <3> QED BY <3>1, <3>2
  <2>2. CASE f \notin DOMAIN m
    <3>1. f = NameOf(i) /\ i \in 1 .. i
      BY <1>1, <1>3, <2>2
    <3> QED BY <3>1
  <2> QED BY <2>1, <2>2
<1> QED BY <1>6, <1>7 DEF Gathered

----------------------------------------------------------------------------
(* How far a regular request is, at each point of its parsing.             *)

(* Nothing has been received yet.                                          *)
Nothing ==
  /\ ~isRequestLineSet /\ ~areHeadersSet /\ ~isContentSet /\ content = <<>>
  /\ taken = 0 /\ remainingBuf = NoBuf /\ headers = NoMap /\ ~continueProcessing

(* The request line and the header lines before the j-th have been read.   *)
ReadTo(j) ==
  /\ isRequestLineSet /\ ~areHeadersSet /\ ~isContentSet /\ content = <<>>
  /\ taken >= LineEnd(j) /\ remainingBuf = Part(LineEnd(j), taken)
  /\ continueProcessing <=> taken > LineEnd(j)
  /\ continueProcessing => taken - LineEnd(j) <= n
  /\ headers = NoMap => j = 1
  /\ headers # NoMap => Gathered(headers, j - 1, {})

(* Where a call that began at line j is when it has come to line i: past   *)
(* the last one it has come to the last byte of its text.                  *)
Place(j, i) == LineEnd(i) - LineEnd(j) + 1 - (IF i = Fields + 1 THEN Len(EndOf) - 1 ELSE 0)

(* A call reads the lines from the j-th to the one before the l-th, and    *)
(* has read those before the i-th.  Its text is cut where line l begins.   *)
Reads(j, l, i) ==
  /\ isRequestLineSet /\ ~areHeadersSet /\ ~isContentSet /\ content = <<>>
  /\ chunkSize >= taken - LineEnd(j)
  /\ l <= Fields => taken = LineEnd(l) /\ rest = NoBuf
  /\ l = Fields + 1 => taken >= HeadEnd /\ rest = Part(HeadEnd, taken)
  /\ text = Cut(Part(LineEnd(j), taken), Place(j, l) - 1)
  /\ at = Place(j, i)
  /\ Gathered(map, i - 1, {})

(* The headers are complete.                                               *)
HeadersDone ==
  /\ isRequestLineSet /\ areHeadersSet /\ ~isContentSet /\ content = <<>>
  /\ taken >= HeadEnd /\ remainingBuf = Part(HeadEnd, taken)
  /\ continueProcessing <=> taken > HeadEnd
  /\ Gathered(headers, Fields, {})

(* The content has been set, and has room for all of it.                   *)
ContentBegun ==
  /\ isRequestLineSet /\ areHeadersSet /\ isContentSet
  /\ taken >= HeadEnd /\ remainingBuf = NoBuf /\ ~continueProcessing
  /\ content = Part(HeadEnd, taken) /\ request.length < contentSize
  /\ Gathered(headers, Fields, {<<"content-length">>})

Progress ==
  IF Running
  THEN \E j \in 1 .. Fields : \E l \in j + 1 .. Fields + 1 : \E i \in j .. l : Reads(j, l, i)
  ELSE Nothing \/ (\E j \in 1 .. Fields : ReadTo(j)) \/ HeadersDone \/ ContentBegun

OnCourse ==
  /\ outcome = "ok"
  /\ {sent, taken} \subseteq {0} \cup Cuts(request)
  /\ Progress

LEMMA RegularIs ==
  ASSUME ParserInv, OnCourse, Regular
  PROVE  /\ request \in Requests /\ ParseOK /\ ~anyCut /\ outcome = "ok" /\ Progress
         /\ sent \in Nat /\ taken \in Nat /\ taken <= sent /\ sent <= Len(Stream)
         /\ Len(Stream) \in Nat /\ Len(Stream) < BufSize /\ Fields \in Nat \ {0}
         /\ {sent, taken} \subseteq {0} \cup Cuts(request)
<1>1. EnvOK /\ ParseOK /\ request \in Requests
  BY DEF ParserInv, EnvOK
<1>2. taken \in 0 .. sent /\ sent \in 0 .. Len(Stream)
  BY <1>1 DEF EnvOK, Stream
<1>3. 0 \in 0 .. Fields
  <2>1. Fields \in Nat
    BY <1>1, LayoutIs
  <2> QED BY <2>1
<1>4. Len(Stream) \in Nat /\ Fields \in Nat
  BY <1>1, <1>3, LineIn
<1>5. ~anyCut /\ Len(Stream) < BufSize /\ Fields # 0
  <2>1. request.fields \in Seq(FieldNames)
    BY <1>1 DEF Requests
  <2> QED BY <2>1, EmptySeq DEF Regular, Stream, Fields
<1> QED BY <1>1, <1>2, <1>4, <1>5 DEF OnCourse

(* Where the segments end that do not end just before the blank line.      *)
LEMMA CutsAre ==
  ASSUME request \in Requests, ~anyCut, NEW c \in Cuts(request), c # LineEnd(Fields + 1)
  PROVE  (\E l \in 1 .. Fields : c = LineEnd(l)) \/ c \in HeadEnd .. Len(Stream)
<1>1. CASE \E l \in 1 .. Fields + 1 : c = LineEnd(l)
  <2>1. PICK l \in 1 .. Fields + 1 : c = LineEnd(l)
    BY <1>1
  <2>2. l # Fields + 1
    BY <2>1
  <2>3. Fields \in Nat
    BY LayoutIs
  <2>4. l \in 1 .. Fields
    BY <2>2, <2>3
  <2> QED BY <2>1, <2>4
<1>2. CASE c \in HeadEnd .. Len(Stream)
  BY <1>2
<1> QED BY <1>1, <1>2 DEF Cuts, Fields, LineEnd, HeadEnd, Stream

(* What the next state is, by what its variables are.                      *)
LEMMA ReadToNext ==
  ASSUME request' = request, NEW j, NEW c, taken' = c,
         isRequestLineSet', ~areHeadersSet', ~isContentSet', content' = <<>>,
         c >= LineEnd(j), remainingBuf' = Part(LineEnd(j), c),
         continueProcessing' <=> c > LineEnd(j), continueProcessing' => c - LineEnd(j) <= n',
         headers' = NoMap => j = 1, headers' # NoMap => Gathered(headers', j - 1, {})
  PROVE  ReadTo(j)'
  BY DEF ReadTo, Part, LineEnd, Stream, Gathered, NameOf

LEMMA ReadsNext ==
  ASSUME request' = request, NEW j, NEW l, NEW i, NEW c, taken' = c,
         isRequestLineSet', ~areHeadersSet', ~isContentSet', content' = <<>>,
         chunkSize' >= c - LineEnd(j),
         l <= Fields => c = LineEnd(l) /\ rest' = NoBuf,
         l = Fields + 1 => c >= HeadEnd /\ rest' = Part(HeadEnd, c),
         text' = Cut(Part(LineEnd(j), c), Place(j, l) - 1), at' = Place(j, i),
         Gathered(map', i - 1, {})
  PROVE  Reads(j, l, i)'
  BY DEF Reads, Part, LineEnd, Stream, Gathered, NameOf, Place, Fields, HeadEnd, EndOf

LEMMA HeadersDoneNext ==
  ASSUME request' = request, NEW c, taken' = c,
         isRequestLineSet', areHeadersSet', ~isContentSet', content' = <<>>,
         c >= HeadEnd, remainingBuf' = Part(HeadEnd, c),
         continueProcessing' <=> c > HeadEnd, Gathered(headers', Fields, {})
  PROVE  HeadersDone'
  BY DEF HeadersDone, Part, Stream, Gathered, NameOf, Fields, HeadEnd

LEMMA ContentBegunNext ==
  ASSUME request' = request, NEW c, taken' = c,
         isRequestLineSet', areHeadersSet', isContentSet',
         c >= HeadEnd, remainingBuf' = NoBuf, ~continueProcessing',
         content' = Part(HeadEnd, c), request.length < contentSize',
         Gathered(headers', Fields, {<<"content-length">>})
  PROVE  ContentBegun'
  BY DEF ContentBegun, Part, Stream, Gathered, NameOf, Fields, HeadEnd

(* What a call is given: all that has arrived and not been read.           *)
LEMMA Called ==
  ASSUME request \in Requests, Len(Stream) < BufSize, Len(Stream) \in Nat,
         NEW a \in Nat, NEW b \in Nat, NEW c \in Nat, a <= b, b <= c, c <= Len(Stream),
         remainingBuf = Part(a, b) \/ (remainingBuf = NoBuf /\ a = b),
         NEW k, ProcessRequestChunk(Part(b, c), k)
  PROVE  /\ ~isRequestLineSet => ParseRequestLine(Part(a, c), k)
         /\ isRequestLineSet /\ ~areHeadersSet => ParseHeaders(Part(a, c), k)
         /\ isRequestLineSet /\ areHeadersSet /\ ~isContentSet => SetContent(Part(a, c), k)
         /\ isRequestLineSet /\ areHeadersSet /\ isContentSet => AppendContent(Part(a, c), k)
<1>1. /\ Part(a, b) \in Seq(Token) /\ Part(b, c) \in Seq(Token)
      /\ Part(a, c) \in Seq(Token) /\ Len(Part(a, c)) = c - a
  <2>1. b <= Len(Stream) /\ a <= c
    OBVIOUS
  <2> QED BY <2>1, PartBytes
<1>2. Text(remainingBuf) \o Part(b, c) = Part(a, c)
  <2>1. CASE remainingBuf = Part(a, b)
    <3>1. Text(remainingBuf) = Part(a, b)
      BY <1>1, <2>1, NoBufApart DEF Text
    <3>2. Part(a, b) \o Part(b, c) = Part(a, c)
      BY PartJoin
    <3> QED BY <3>1, <3>2
  <2>2. CASE remainingBuf = NoBuf /\ a = b
    <3>1. Text(remainingBuf) = <<>>
      BY <2>2 DEF Text
    <3>2. <<>> \o Part(b, c) = Part(b, c)
      BY <1>1, ConcatEmptySeq
    <3> QED BY <2>2, <3>1, <3>2
  <2> QED BY <2>1, <2>2
<1>3. ~ (Len(Part(a, c)) >= BufSize)
  BY <1>1, RequestParsingAssumption
<1> HIDE DEF Part
<1>4. CASE ~isRequestLineSet
  BY <1>2, <1>3, <1>4 DEF ProcessRequestChunk
<1>5. CASE isRequestLineSet /\ ~areHeadersSet
  BY <1>2, <1>3, <1>5 DEF ProcessRequestChunk
<1>6. CASE isRequestLineSet /\ areHeadersSet /\ ~isContentSet
  BY <1>2, <1>3, <1>6 DEF ProcessRequestChunk
<1>7. CASE isRequestLineSet /\ areHeadersSet /\ isContentSet
  BY <1>2, <1>3, <1>7 DEF ProcessRequestChunk
<1> QED BY <1>4, <1>5, <1>6, <1>7

(* recv() takes all that has arrived.                                      *)
LEMMA RecvTakes ==
  ASSUME ParserInv, OnCourse, Regular, Recv
  PROVE  /\ ~Running /\ ~continueProcessing /\ taken' = sent /\ taken < sent
         /\ sent \in Cuts(request)
         /\ ProcessRequestChunk(Part(taken, sent), sent - taken)
         /\ UNCHANGED <<request, anyCut, sent>>
<1>1. /\ taken \in Nat /\ sent \in Nat /\ sent <= Len(Stream) /\ Len(Stream) < BufSize
      /\ {sent, taken} \subseteq {0} \cup Cuts(request) /\ Len(Stream) \in Nat
  BY RegularIs
<1>2. taken < sent /\ Reading /\ UNCHANGED <<request, anyCut, sent>>
  BY DEF Recv
<1>3. sent - taken < BufSize /\ taken + (sent - taken) = sent
  BY <1>1, RequestParsingAssumption
<1>4. /\ taken' = taken + (sent - taken)
      /\ ProcessRequestChunk(SubSeq(StreamOf(request), taken + 1, taken + (sent - taken)), sent - taken)
  <2>1. LET k == IF sent - taken < BufSize THEN sent - taken ELSE BufSize - 1 IN
          /\ taken' = taken + k
          /\ ProcessRequestChunk(SubSeq(StreamOf(request), taken + 1, taken + k), k)
    BY DEF Recv
  <2>2. (IF sent - taken < BufSize THEN sent - taken ELSE BufSize - 1) = sent - taken
    BY <1>3
  <2> QED BY <2>1, <2>2
<1>5. taken' = sent /\ ProcessRequestChunk(Part(taken, sent), sent - taken)
  BY <1>3, <1>4 DEF Part, Stream
<1>6. sent \in Cuts(request)
  BY <1>1, <1>2
<1> QED BY <1>2, <1>5, <1>6 DEF Reading

(* A call returns with what it has not read of the stream.                 *)
LEMMA ReturnsWith ==
  ASSUME request \in Requests, NEW a \in Nat, NEW b \in Nat, a <= b, b <= Len(Stream),
         NEW k, Returns(k), remainingBuf' = Part(a, b)
  PROVE  outcome' = "ok" /\ ~Running' /\ n' = k /\ (continueProcessing' <=> b > a)
<1>1. outcome' = "ok" /\ n' = k /\ text' = NoBuf
  BY DEF Returns, Leaves
<1>2. continueProcessing' = (Part(a, b) \notin {NoBuf, <<>>})
  BY DEF Returns
<1>3. Part(a, b) \in Seq(Token) /\ Len(Part(a, b)) = b - a
  BY PartBytes
<1>4. Part(a, b) # NoBuf /\ (Part(a, b) = <<>> <=> b - a = 0)
  BY <1>3, NoBufApart, EmptySeq
<1>5. Part(a, b) \notin {NoBuf, <<>>} <=> b > a
  <2>1. b - a = 0 <=> ~ (b > a)
    OBVIOUS
  <2> QED BY <1>4, <2>1
<1>6. continueProcessing' <=> b > a
  <2> HIDE DEF Part
  <2> QED BY <1>2, <1>5, Zenon
<1> QED BY <1>1, <1>6 DEF Running

LEMMA ReturnsWithout ==
  ASSUME NEW k, Returns(k), remainingBuf' = NoBuf
  PROVE  outcome' = "ok" /\ ~Running' /\ ~continueProcessing'
<1>1. outcome' = "ok" /\ text' = NoBuf /\ continueProcessing' = (remainingBuf' \notin {NoBuf, <<>>})
  BY DEF Returns, Leaves
<1>2. ~ (remainingBuf' \notin {NoBuf, <<>>})
  OBVIOUS
<1>3. ~continueProcessing'
  BY <1>1, <1>2, Zenon
<1> QED BY <1>1, <1>3 DEF Running

(* The first line is a request line that getRequestLine takes.             *)
LEMMA RequestLineRead ==
  ASSUME request \in Requests, Len(Stream) < BufSize, NEW c \in Nat, LineEnd(1) <= c,
         c <= Len(Stream), NEW k \in Nat, c <= k, ParseRequestLine(Part(0, c), k)
  PROVE  /\ isRequestLineSet' = TRUE /\ remainingBuf' = Part(LineEnd(1), c) /\ Returns(k)
         /\ UNCHANGED <<areHeadersSet, isContentSet, requestVars>>
<1> DEFINE buf  == Part(0, c)
           line == Upto(buf, {"LF"})
           p    == LineEnd(1)
           e    == Len(EndOf)
<1>1. /\ p = 3 + e /\ e \in 1 .. 2 /\ p \in Nat /\ LineEnd(0) = 0 /\ Fields \in Nat
      /\ Len(Stream) \in Nat
  <2>1. Fields \in Nat
    BY LayoutIs
  <2>2. 0 \in 0 .. Fields /\ 0 + 1 = 1
    BY <2>1
  <2> HIDE DEF e
  <2>3. /\ LineEnd(0 + 1) = LineEnd(0) + 3 + Len(EndOf) /\ LineEnd(0) = 0 /\ Len(EndOf) \in 1 .. 2
        /\ Len(Stream) \in Nat
    BY <2>2, LineIn
  <2>4. p = 3 + e
    BY <2>2, <2>3 DEF e
  <2> QED BY <2>1, <2>3, <2>4 DEF e
<1>2. /\ buf \in Seq(Token) /\ Len(buf) = c /\ \A q \in 1 .. c : buf[q] = Stream[q]
  <2>1. 0 <= c /\ c - 0 = c /\ 0 \in Nat
    OBVIOUS
  <2>2. /\ buf \in Seq(Token) /\ Len(buf) = c - 0
        /\ \A q \in 1 .. c - 0 : buf[q] = Stream[0 + q]
    BY <2>1, PartBytes
  <2>3. \A q \in 1 .. c : 0 + q = q
    OBVIOUS
  <2> QED BY <2>1, <2>2, <2>3
<1>3. /\ Stream[1] = "GET" /\ Stream[2] = "target" /\ Stream[3] = "HTTP/1.1"
      /\ \A d \in 1 .. e : Stream[3 + d] = EndOf[d]
  <2>1. 0 \in 0 .. Fields
    BY <1>1
  <2>2. /\ Stream[1] = "GET" /\ Stream[2] = "target" /\ Stream[3] = "HTTP/1.1"
        /\ \A d \in 1 .. Len(EndOf) : Stream[LineEnd(0) + 3 + d] = EndOf[d]
    BY <2>1, StreamLine
  <2>3. LineEnd(0) + 3 = 3
    BY <1>1
  <2> QED BY <2>2, <2>3
<1>4. EndOf[e] = "LF" /\ (e = 2 => EndOf[1] = "CR")
  BY EndIs
<1> HIDE DEF buf, e
<1>5. p \in 1 .. Len(buf) /\ buf[p] \in {"LF"} /\ \A q \in 1 .. p - 1 : buf[q] \notin {"LF"}
  <2>1. p \in 1 .. c /\ buf[p] = "LF"
    <3>1. p \in 1 .. c /\ e \in 1 .. e
      BY <1>1
    <3> QED BY <1>1, <1>2, <1>3, <1>4, <3>1
  <2>2. ASSUME NEW q \in 1 .. p - 1 PROVE buf[q] # "LF"
    <3>1. q \in 1 .. c /\ (q \in {1, 2, 3} \/ (q = 4 /\ e = 2))
      BY <1>1
    <3>2. e = 2 => Stream[4] = "CR"
      <4>1. e = 2 => 1 \in 1 .. e /\ 3 + 1 = 4
        OBVIOUS
      <4> QED BY <1>3, <1>4, <4>1
    <3> QED BY <1>2, <1>3, <3>1, <3>2
  <2> QED BY <1>2, <2>1, <2>2
<1>6. line \in Seq(Token) /\ Len(line) = p - 1 /\ \A q \in 1 .. p - 1 : line[q] = buf[q]
  <2> HIDE DEF p
  <2> QED BY <1>2, <1>5, UptoLen
<1> HIDE DEF line
<1>7. Len(line) >= 3 /\ line[1] = "GET" /\ line[2] = "target" /\ line[3] = "HTTP/1.1"
  <2>1. {1, 2, 3} \subseteq 1 .. p - 1 /\ {1, 2, 3} \subseteq 1 .. c /\ Len(line) >= 3
    BY <1>1, <1>6
  <2> QED BY <1>2, <1>3, <1>6, <2>1
<1>8. RequestLine(line) = "ok"
  <2>1. line # <<>> /\ At(line, 2) = "target" /\ At(line, 3) = "HTTP/1.1" /\ ~ (Len(line) < 3)
    <3>1. Len(line) \in Nat /\ 2 <= Len(line) /\ 3 <= Len(line)
      BY <1>1, <1>6, <1>7
    <3> QED BY <1>6, <1>7, <3>1, EmptySeq DEF At
  <2> QED BY <1>7, <2>1 DEF RequestLine
<1>9. Len(line) + 2 = p + 1 /\ ~ (Len(line) + 2 > BufSize)
  BY <1>1, <1>6, RequestParsingAssumption
<1>10. /\ isRequestLineSet' = TRUE
       /\ remainingBuf' = First(From(buf, Len(line) + 2), k)
       /\ Returns(k)
       /\ UNCHANGED <<areHeadersSet, isContentSet, requestVars>>
  BY <1>8, <1>9 DEF ParseRequestLine, line, buf
<1>11. First(From(buf, Len(line) + 2), k) = Part(p, c)
  <2>1. p - 0 + 1 = Len(line) + 2 /\ 0 <= p /\ 0 \in Nat /\ p <= c
    BY <1>1, <1>9
  <2>2. From(buf, Len(line) + 2) = Part(p, c)
    <3> HIDE DEF p
    <3> QED BY <1>1, <2>1, PartFrom DEF buf
  <2>3. Part(p, c) \in Seq(Token) /\ Len(Part(p, c)) = c - p
    <3> HIDE DEF p
    <3> QED BY <1>1, PartBytes DEF p
  <2>4. Len(Part(p, c)) <= k
    BY <1>1, <2>3
  <2> QED BY <2>2, <2>3, <2>4, FirstIs
<1> QED BY <1>10, <1>11

LEMMA RequestLineTaken ==
  ASSUME request \in Requests, Len(Stream) < BufSize, ~anyCut, Fields \in Nat \ {0}, Nothing,
         NEW c \in Cuts(request), c # LineEnd(Fields + 1), c <= Len(Stream),
         taken' = c, request' = request,
         ParseRequestLine(Part(0, c), c)
  PROVE  outcome' = "ok" /\ Progress'
<1>1. LineEnd(1) \in Nat /\ LineEnd(1) <= c /\ c \in Nat /\ 1 \in 1 .. Fields
  <2>1. /\ LineEnd(1) \in Nat /\ LineEnd(1) <= HeadEnd /\ HeadEnd \in Nat /\ Len(Stream) \in Nat
    <3>1. 0 \in 0 .. Fields /\ 0 + 1 = 1 /\ 1 \in Nat
      OBVIOUS
    <3>2. /\ LineEnd(0 + 1) + Len(EndOf) <= HeadEnd /\ Len(EndOf) \in 1 .. 2 /\ HeadEnd \in Nat
          /\ Len(Stream) \in Nat
      BY <3>1, LineIn
    <3>3. LineEnd(1) \in Nat /\ LineEnd(1) + Len(EndOf) <= HeadEnd
      BY <3>1, <3>2, LineEndNat
    <3> QED BY <3>2, <3>3
  <2>2. CASE \E l \in 1 .. Fields : c = LineEnd(l)
    <3>1. PICK l \in 1 .. Fields : c = LineEnd(l)
      BY <2>2
    <3>2. l \in Nat /\ 1 \in Nat /\ (1 < l \/ l = 1)
      OBVIOUS
    <3>3. LineEnd(l) \in Nat /\ Len(EndOf) \in Nat
      <4>1. LineEnd(l) \in Nat
        BY <3>2, LineEndNat
      <4>2. Len(EndOf) \in 1 .. 2
        BY EndIs
      <4> QED BY <4>1, <4>2
    <3>4. CASE 1 < l
      <4>1. LineEnd(1) + 3 + Len(EndOf) <= LineEnd(l)
        BY <3>2, <3>4, LineEndOrder
      <4> QED BY <2>1, <3>1, <3>3, <4>1
    <3>5. CASE l = 1
      BY <2>1, <3>1, <3>5
    <3> QED BY <3>2, <3>4, <3>5
  <2>3. CASE c \in HeadEnd .. Len(Stream)
    BY <2>1, <2>3
  <2> QED BY <2>2, <2>3, CutsAre
<1>2. /\ isRequestLineSet' = TRUE /\ remainingBuf' = Part(LineEnd(1), c) /\ Returns(c)
      /\ UNCHANGED <<areHeadersSet, isContentSet, requestVars>>
  <2>1. c <= c
    BY <1>1
  <2> QED BY <1>1, <2>1, RequestLineRead
<1>3. outcome' = "ok" /\ ~Running' /\ n' = c /\ (continueProcessing' <=> c > LineEnd(1))
  BY <1>1, <1>2, ReturnsWith
<1>4. ReadTo(1)'
  <2>1. /\ isRequestLineSet' /\ ~areHeadersSet' /\ ~isContentSet' /\ content' = <<>>
        /\ headers' = NoMap
    BY <1>2 DEF requestVars, Nothing
  <2>2. c >= LineEnd(1) /\ c - LineEnd(1) <= n'
    BY <1>1, <1>3
  <2> QED BY <1>2, <1>3, <2>1, <2>2, ReadToNext
<1>5. Fields' = Fields
  BY DEF Fields
<1> QED BY <1>1, <1>3, <1>4, <1>5 DEF Progress

(* The byte before a line is an LF.                                        *)
LEMMA BeforeLine ==
  ASSUME request \in Requests, NEW l \in 1 .. Fields + 1
  PROVE  Stream[LineEnd(l)] = "LF" /\ LineEnd(l) \in 1 .. Len(Stream)
<1> DEFINE i == l - 1
<1>1. Fields \in Nat
  BY LayoutIs
<1>2. i \in 0 .. Fields /\ i + 1 = l
  BY <1>1
<1> HIDE DEF i
<1>3. /\ LineEnd(i) \in Nat /\ LineEnd(i + 1) = LineEnd(i) + 3 + Len(EndOf)
      /\ LineEnd(i + 1) + Len(EndOf) <= HeadEnd /\ HeadEnd <= Len(Stream)
      /\ HeadEnd \in Nat /\ Len(Stream) \in Nat /\ Len(EndOf) \in 1 .. 2
  BY <1>2, LineIn
<1>4. Stream[LineEnd(i) + 3 + Len(EndOf)] = "LF"
  <2>1. PICK e \in 1 .. 2 : e = Len(EndOf)
    BY <1>3
  <2>2. \A c \in 1 .. e : Stream[LineEnd(i) + 3 + c] = EndOf[c]
    BY <1>2, <2>1, StreamLine
  <2>3. EndOf[e] = "LF"
    BY <2>1, EndIs
  <2>4. e \in 1 .. e
    OBVIOUS
  <2> QED BY <2>1, <2>2, <2>3, <2>4
<1>5. Stream[LineEnd(i + 1)] = "LF" /\ LineEnd(i + 1) \in 1 .. Len(Stream)
  BY <1>3, <1>4
<1> QED BY <1>2, <1>5

(* Which line a call that begins at line j comes to.                       *)
LEMMA CutAfter ==
  ASSUME request \in Requests, ~anyCut, Fields \in Nat, NEW j \in 1 .. Fields,
         NEW c \in Cuts(request), c # LineEnd(Fields + 1), LineEnd(j) < c
  PROVE  (\E l \in j + 1 .. Fields : c = LineEnd(l)) \/ c \in HeadEnd .. Len(Stream)
<1>1. CASE \E l \in 1 .. Fields : c = LineEnd(l)
  <2>1. PICK l \in 1 .. Fields : c = LineEnd(l)
    BY <1>1
  <2>2. j \in Nat /\ l \in Nat
    OBVIOUS
  <2>3. LineEnd(j) \in Nat /\ LineEnd(l) \in Nat /\ Len(EndOf) \in Nat
    <3>1. LineEnd(j) \in Nat /\ LineEnd(l) \in Nat
      BY <2>2, LineEndNat
    <3>2. Len(EndOf) \in 1 .. 2
      BY EndIs
    <3> QED BY <3>1, <3>2
  <2>4. ~ (l < j)
    <3> SUFFICES ASSUME l < j PROVE FALSE
      OBVIOUS
    <3>1. LineEnd(l) + 3 + Len(EndOf) <= LineEnd(j)
      BY <2>2, LineEndOrder
    <3> QED BY <2>1, <2>3, <3>1
  <2>5. l # j
    BY <2>1, <2>3
  <2>6. l \in j + 1 .. Fields
    BY <2>2, <2>4, <2>5
  <2> QED BY <2>1, <2>6
<1>2. CASE c \in HeadEnd .. Len(Stream)
  BY <1>2
<1> QED BY <1>1, <1>2, CutsAre

LEMMA PlaceIs ==
  ASSUME request \in Requests, NEW j \in 1 .. Fields
  PROVE  /\ Place(j, j) = 1
         /\ \A l \in Nat : l <= Fields => Place(j, l) = LineEnd(l) - LineEnd(j) + 1
         /\ Place(j, Fields + 1) = LineEnd(Fields + 1) - LineEnd(j) + 1 - (Len(EndOf) - 1)
<1>1. Fields \in Nat /\ j \in Nat /\ LineEnd(j) \in Nat
  <2>1. Fields \in Nat
    BY LayoutIs
  <2> QED BY <2>1, LineEndNat
<1>2. ASSUME NEW l \in Nat, l <= Fields PROVE Place(j, l) = LineEnd(l) - LineEnd(j) + 1
  <2>1. l # Fields + 1 /\ LineEnd(l) \in Nat
    BY <1>1, <1>2, LineEndNat
  <2>2. Place(j, l) = LineEnd(l) - LineEnd(j) + 1 - 0
    BY <2>1 DEF Place
  <2> QED BY <1>1, <2>1, <2>2
<1>3. Place(j, j) = 1
  <2>1. Place(j, j) = LineEnd(j) - LineEnd(j) + 1
    BY <1>1, <1>2
  <2> QED BY <1>1, <2>1
<1> QED BY <1>2, <1>3 DEF Place

LEMMA EmptyGathered == Gathered(<<>>, 0, {})
<1>1. DOMAIN <<>> = {} /\ 1 .. 0 = {}
  OBVIOUS
<1> QED BY <1>1 DEF Gathered

(* Without the blank line all of the text is read.                         *)
LEMMA LinesBegun ==
  ASSUME request \in Requests, Fields \in Nat, NEW j \in 1 .. Fields, NEW l \in j + 1 .. Fields,
         NEW k, ParseHeaders(Part(LineEnd(j), LineEnd(l)), k)
  PROVE  /\ text' = Cut(Part(LineEnd(j), LineEnd(l)), Place(j, l) - 1) /\ rest' = NoBuf
         /\ text' \in Seq(Token)
         /\ at' = 1 /\ map' = (IF headers = NoMap THEN <<>> ELSE headers) /\ chunkSize' = k
         /\ UNCHANGED <<builderVars, requestVars, n, continueProcessing, outcome>>
<1> DEFINE a   == LineEnd(j)
           b   == LineEnd(l)
           buf == Part(a, b)
<1>1. j \in Nat /\ l \in Nat /\ j < l /\ Fields + 1 \in Nat /\ l < Fields + 1 /\ l \in 1 .. Fields + 1
  OBVIOUS
<1>2. /\ a \in Nat /\ b \in Nat /\ Len(EndOf) \in Nat /\ a + 3 + Len(EndOf) <= b
      /\ b + 3 + Len(EndOf) <= LineEnd(Fields + 1) /\ LineEnd(Fields + 1) \in Nat
  <2>1. a \in Nat /\ b \in Nat /\ LineEnd(Fields + 1) \in Nat
    BY <1>1, LineEndNat
  <2>2. a + 3 + Len(EndOf) <= b
    BY <1>1, LineEndOrder
  <2>3. b + 3 + Len(EndOf) <= LineEnd(Fields + 1)
    BY <1>1, LineEndOrder
  <2>4. Len(EndOf) \in Nat
    BY EndIs
  <2> HIDE DEF a, b
  <2> QED BY <2>1, <2>2, <2>3, <2>4
<1>3. Stream[b] = "LF" /\ b \in 1 .. Len(Stream)
  BY <1>1, BeforeLine
<1>4. Place(j, l) - 1 = b - a
  <2>1. Place(j, l) = b - a + 1
    BY <1>1, PlaceIs
  <2> HIDE DEF a, b
  <2> QED BY <1>2, <2>1
<1> HIDE DEF a, b
<1>5. buf \in Seq(Token) /\ Len(buf) = b - a /\ \A q \in 1 .. b - a : buf[q] = Stream[a + q]
  <2>1. a <= b /\ b <= Len(Stream)
    BY <1>2, <1>3
  <2> QED BY <1>2, <2>1, PartBytes
<1>6. BlankLine(buf).at = 0
  <2>1. a <= b /\ b < LineEnd(Fields + 1)
    BY <1>2
  <2> QED BY <1>2, <2>1, BlankNone
<1> HIDE DEF buf
<1>7. LastLf(buf) = b - a
  <2>1. b - a \in 1 .. Len(buf) /\ a + (b - a) = b
    BY <1>2, <1>5
  <2>2. buf[b - a] = "LF"
    BY <1>3, <1>5, <2>1
  <2>3. b - a <= LastLf(buf) /\ LastLf(buf) \in 0 .. Len(buf)
    BY <1>5, <2>1, <2>2, LastLfIs
  <2> QED BY <1>2, <1>5, <2>3
<1>8. /\ text' = Cut(buf, LastLf(buf)) /\ rest' = NoBuf
      /\ at' = 1 /\ map' = (IF headers = NoMap THEN <<>> ELSE headers) /\ chunkSize' = k
      /\ UNCHANGED <<builderVars, requestVars, n, continueProcessing, outcome>>
  <2>1. ParseHeaders(buf, k)
    BY DEF buf, a, b
  <2> QED BY <1>6, <2>1 DEF ParseHeaders, LastLf
<1>9. Cut(buf, LastLf(buf)) \in Seq(Token)
  <2>1. LastLf(buf) \in 0 .. Len(buf)
    BY <1>5, LastLfIs
  <2> QED BY <1>5, <2>1, CutIs
<1> QED BY <1>4, <1>7, <1>8, <1>9 DEF buf, a, b

(* With it the text ends before the last line end, and the rest is kept.   *)
LEMMA BlankLineSeen ==
  ASSUME request \in Requests, Fields \in Nat, NEW j \in 1 .. Fields,
         NEW c \in HeadEnd .. Len(Stream), NEW k \in Nat, c - LineEnd(j) <= k,
         ParseHeaders(Part(LineEnd(j), c), k)
  PROVE  /\ text' = Cut(Part(LineEnd(j), c), Place(j, Fields + 1) - 1)
         /\ text' \in Seq(Token) /\ rest' = Part(HeadEnd, c)
         /\ at' = 1 /\ map' = (IF headers = NoMap THEN <<>> ELSE headers) /\ chunkSize' = k
         /\ UNCHANGED <<builderVars, requestVars, n, continueProcessing, outcome>>
<1> DEFINE a   == LineEnd(j)
           e   == LineEnd(Fields + 1)
           buf == Part(a, c)
<1>1. j \in Nat /\ Fields + 1 \in Nat /\ j < Fields + 1 /\ Fields \in 0 .. Fields
  OBVIOUS
<1>2. /\ a \in Nat /\ e \in Nat /\ Len(EndOf) \in 1 .. 2 /\ a + 3 + Len(EndOf) <= e
      /\ HeadEnd = e + Len(EndOf) /\ HeadEnd \in Nat /\ Len(Stream) \in Nat
      /\ c \in Nat /\ HeadEnd <= c /\ c <= Len(Stream)
  <2>1. a \in Nat /\ e \in Nat
    BY <1>1, LineEndNat
  <2>2. a + 3 + Len(EndOf) <= e
    BY <1>1, LineEndOrder
  <2>3. HeadEnd = e + Len(EndOf)
    BY LayoutIs
  <2>4. HeadEnd \in Nat /\ Len(Stream) \in Nat /\ Len(EndOf) \in 1 .. 2
    BY <1>1, LineIn
  <2>5. c \in Nat /\ HeadEnd <= c /\ c <= Len(Stream)
    BY <2>4
  <2> QED BY <2>1, <2>2, <2>3, <2>4, <2>5
<1>3. Place(j, Fields + 1) - 1 = e - a + 1 - Len(EndOf)
  <2>1. Place(j, Fields + 1) = e - a + 1 - (Len(EndOf) - 1)
    BY PlaceIs
  <2> HIDE DEF a, e
  <2> QED BY <1>2, <2>1
<1> HIDE DEF a
<1>4. /\ BlankLine(buf).at = e - a + 1 - Len(EndOf)
      /\ BlankLine(buf).body = HeadEnd - a + 1
  <2>1. a < e - 2
    <3> HIDE DEF e
    <3> QED BY <1>2
  <2> QED BY <1>2, <2>1, BlankFound
<1> HIDE DEF e
<1>5. buf \in Seq(Token) /\ Len(buf) = c - a
  <2>1. a <= c
    BY <1>2
  <2> QED BY <1>2, <2>1, PartBytes
<1>6. BlankLine(buf).at # 0 /\ ~ (BlankLine(buf).body > k + 1)
  <2>1. c - a <= k
    BY DEF a
  <2> HIDE DEF buf
  <2>2. e - a + 1 - Len(EndOf) # 0 /\ ~ (HeadEnd - a + 1 > k + 1)
    BY <1>2, <2>1
  <2> QED BY <1>4, <2>2
<1>7. From(First(buf, k), BlankLine(buf).body) = Part(HeadEnd, c)
  <2>1. First(buf, k) = buf
    <3>1. Len(buf) <= k
      BY <1>5 DEF a
    <3> QED BY <1>5, <3>1, FirstIs
  <2>2. a <= HeadEnd /\ BlankLine(buf).body = HeadEnd - a + 1
    BY <1>2, <1>4
  <2>3. From(buf, BlankLine(buf).body) = Part(HeadEnd, c)
    BY <1>2, <2>2, PartFrom
  <2> QED BY <2>1, <2>3
<1> HIDE DEF buf
<1>8. /\ text' = Cut(buf, BlankLine(buf).at) /\ rest' = From(First(buf, k), BlankLine(buf).body)
      /\ at' = 1 /\ map' = (IF headers = NoMap THEN <<>> ELSE headers) /\ chunkSize' = k
      /\ UNCHANGED <<builderVars, requestVars, n, continueProcessing, outcome>>
  <2>1. ParseHeaders(buf, k)
    BY DEF buf, a
  <2> QED BY <1>6, <2>1 DEF ParseHeaders
<1>9. Cut(buf, BlankLine(buf).at) \in Seq(Token)
  <2>1. BlankLine(buf).at \in 0 .. Len(buf)
    BY <1>5, BlankLineIs
  <2> QED BY <1>5, <2>1, CutIs
<1> QED BY <1>3, <1>4, <1>7, <1>8, <1>9 DEF buf, a

(* A call that reads headers begins.                                       *)
LEMMA HeadersBegun ==
  ASSUME request \in Requests, ~anyCut, Fields \in Nat, outcome = "ok", NEW j \in 1 .. Fields,
         NEW c \in Cuts(request), c # LineEnd(Fields + 1), LineEnd(j) < c, c \in Nat,
         isRequestLineSet, ~areHeadersSet, ~isContentSet, content = <<>>,
         headers = NoMap => j = 1, headers # NoMap => Gathered(headers, j - 1, {}),
         NEW k \in Nat, c - LineEnd(j) <= k,
         taken' = c, request' = request, ParseHeaders(Part(LineEnd(j), c), k)
  PROVE  outcome' = "ok" /\ Progress'
<1>1. ASSUME NEW l \in j + 1 .. Fields + 1,
             l <= Fields => c = LineEnd(l) /\ rest' = NoBuf,
             l = Fields + 1 => c >= HeadEnd /\ rest' = Part(HeadEnd, c),
             text' = Cut(Part(LineEnd(j), c), Place(j, l) - 1), text' \in Seq(Token),
             at' = 1, map' = (IF headers = NoMap THEN <<>> ELSE headers), chunkSize' = k,
             UNCHANGED <<builderVars, requestVars, n, continueProcessing, outcome>>
      PROVE  outcome' = "ok" /\ Progress'
  <2>1. Gathered(map', j - 1, {})
    <3>1. CASE headers = NoMap
      <4>1. j - 1 = 0 /\ map' = <<>>
        BY <1>1, <3>1
      <4> QED BY <4>1, EmptyGathered
    <3>2. CASE headers # NoMap
      BY <1>1, <3>2
    <3> QED BY <3>1, <3>2
  <2>2. /\ isRequestLineSet' /\ ~areHeadersSet' /\ ~isContentSet' /\ content' = <<>>
        /\ outcome' = "ok" /\ chunkSize' >= c - LineEnd(j)
    <3>1. LineEnd(j) \in Nat
      <4>1. j \in Nat
        OBVIOUS
      <4> QED BY <4>1, LineEndNat
    <3> QED BY <1>1, <3>1 DEF builderVars, requestVars
  <2>3. at' = Place(j, j)
    BY <1>1, PlaceIs
  <2>4. Reads(j, l, j)'
    BY <1>1, <2>1, <2>2, <2>3, ReadsNext
  <2>5. Running' /\ Fields' = Fields
    BY <1>1, NoBufApart DEF Running, Fields
  <2>6. j \in 1 .. Fields /\ l \in j + 1 .. Fields + 1 /\ j \in j .. l
    OBVIOUS
  <2> QED BY <2>2, <2>4, <2>5, <2>6 DEF Progress
<1>2. CASE \E l \in j + 1 .. Fields : c = LineEnd(l)
  <2>1. PICK l \in j + 1 .. Fields : c = LineEnd(l)
    BY <1>2
  <2>2. /\ text' = Cut(Part(LineEnd(j), c), Place(j, l) - 1) /\ rest' = NoBuf
        /\ text' \in Seq(Token)
        /\ at' = 1 /\ map' = (IF headers = NoMap THEN <<>> ELSE headers) /\ chunkSize' = k
        /\ UNCHANGED <<builderVars, requestVars, n, continueProcessing, outcome>>
    BY <2>1, LinesBegun
  <2>3. l \in j + 1 .. Fields + 1 /\ l # Fields + 1
    OBVIOUS
  <2> QED BY <1>1, <2>1, <2>2, <2>3
<1>3. CASE c \in HeadEnd .. Len(Stream)
  <2>1. /\ text' = Cut(Part(LineEnd(j), c), Place(j, Fields + 1) - 1)
        /\ text' \in Seq(Token) /\ rest' = Part(HeadEnd, c)
        /\ at' = 1 /\ map' = (IF headers = NoMap THEN <<>> ELSE headers) /\ chunkSize' = k
        /\ UNCHANGED <<builderVars, requestVars, n, continueProcessing, outcome>>
    BY <1>3, BlankLineSeen
  <2>2. Fields + 1 \in j + 1 .. Fields + 1 /\ ~ (Fields + 1 <= Fields) /\ c >= HeadEnd
    <3>1. HeadEnd \in Nat /\ Len(Stream) \in Nat
      <4>1. 0 \in 0 .. Fields
        OBVIOUS
      <4> QED BY <4>1, LineIn
    <3> QED BY <1>3, <3>1
  <2> QED BY <1>1, <2>1, <2>2
<1> QED BY <1>2, <1>3, CutAfter

----------------------------------------------------------------------------
(* The text of a call that reads the lines from the j-th to the one before *)
(* the l-th, b bytes of the request having been received.                  *)
TextOf(j, l, b) == Cut(Part(LineEnd(j), b), Place(j, l) - 1)

CallOf(j, l, b) ==
  /\ j \in 1 .. Fields /\ l \in j + 1 .. Fields + 1 /\ b \in Nat
  /\ l <= Fields => b = LineEnd(l)
  /\ l = Fields + 1 => HeadEnd <= b /\ b <= Len(Stream)

LEMMA CallLayout ==
  ASSUME request \in Requests, NEW j, NEW l, NEW b, CallOf(j, l, b)
  PROVE  /\ Fields \in Nat /\ j \in Nat /\ l \in Nat /\ j < l /\ l <= Fields + 1
         /\ LineEnd(j) \in Nat /\ LineEnd(l) \in Nat /\ LineEnd(j) + 3 + Len(EndOf) <= LineEnd(l)
         /\ LineEnd(l) <= b /\ b <= Len(Stream) /\ Len(Stream) \in Nat /\ Len(EndOf) \in 1 .. 2
         /\ l <= Fields => Place(j, l) = LineEnd(l) - LineEnd(j) + 1
         /\ l = Fields + 1 => /\ Place(j, l) = LineEnd(l) - LineEnd(j) + 1 - (Len(EndOf) - 1)
                              /\ LineEnd(l) + Len(EndOf) <= b
<1>1. Fields \in Nat
  BY LayoutIs
<1>2. /\ j \in Nat /\ l \in Nat /\ j < l /\ l <= Fields + 1 /\ 0 \in 0 .. Fields
      /\ l \in 1 .. Fields + 1 /\ b \in Nat
  BY <1>1 DEF CallOf
<1>3. LineEnd(j) \in Nat /\ LineEnd(l) \in Nat /\ LineEnd(j) + 3 + Len(EndOf) <= LineEnd(l)
  BY <1>2, LineEndNat, LineEndOrder
<1>4. Len(Stream) \in Nat /\ Len(EndOf) \in 1 .. 2 /\ HeadEnd \in Nat
  BY <1>2, LineIn
<1>5. HeadEnd = LineEnd(Fields + 1) + Len(EndOf)
  BY LayoutIs
<1>6. CASE l <= Fields
  <2>1. b = LineEnd(l) /\ l # Fields + 1
    BY <1>1, <1>2, <1>6 DEF CallOf
  <2>2. LineEnd(l) \in 1 .. Len(Stream)
    BY <1>2, BeforeLine
  <2>3. LineEnd(l) <= b /\ b <= Len(Stream)
    BY <1>3, <1>4, <2>1, <2>2
  <2>4. j \in 1 .. Fields
    BY DEF CallOf
  <2>5. Place(j, l) = LineEnd(l) - LineEnd(j) + 1
    BY <1>2, <1>6, <2>4, PlaceIs
  <2> QED BY <1>1, <1>2, <1>3, <1>4, <2>1, <2>3, <2>5
<1>7. CASE l = Fields + 1
  <2>1. HeadEnd <= b /\ b <= Len(Stream) /\ ~ (l <= Fields)
    BY <1>1, <1>7 DEF CallOf
  <2>2. LineEnd(l) + Len(EndOf) <= b
    BY <1>5, <1>7, <2>1
  <2>3. LineEnd(l) <= b
    BY <1>2, <1>3, <1>4, <2>2
  <2>4. j \in 1 .. Fields
    BY DEF CallOf
  <2>5. Place(j, l) = LineEnd(l) - LineEnd(j) + 1 - (Len(EndOf) - 1)
    BY <1>7, <2>4, PlaceIs
  <2> QED BY <1>1, <1>2, <1>3, <1>4, <2>1, <2>2, <2>3, <2>5
<1> QED BY <1>1, <1>2, <1>6, <1>7

LEMMA TextBytes ==
  ASSUME request \in Requests, NEW j, NEW l, NEW b, CallOf(j, l, b)
  PROVE  /\ TextOf(j, l, b) \in Seq(Token) /\ Len(TextOf(j, l, b)) = b - LineEnd(j)
         /\ Place(j, l) - 1 \in 1 .. b - LineEnd(j)
         /\ \A q \in 1 .. b - LineEnd(j) :
              TextOf(j, l, b)[q] = IF q = Place(j, l) - 1 THEN "NUL" ELSE Stream[LineEnd(j) + q]
<1> DEFINE a   == LineEnd(j)
           buf == Part(a, b)
           p   == Place(j, l)
<1>0. PICK e \in 1 .. 2 : e = Len(EndOf)
  BY CallLayout
<1>1. /\ a \in Nat /\ LineEnd(l) \in Nat /\ a + 3 + e <= LineEnd(l)
      /\ LineEnd(l) <= b /\ b <= Len(Stream) /\ Len(Stream) \in Nat
      /\ b \in Nat
  BY <1>0, CallLayout DEF CallOf
<1>2. p - 1 \in 1 .. b - a
  <2>1. \/ p = LineEnd(l) - a + 1
        \/ p = LineEnd(l) - a + 1 - (e - 1)
    <3>1. /\ l <= Fields => Place(j, l) = LineEnd(l) - LineEnd(j) + 1
          /\ l = Fields + 1 => Place(j, l) = LineEnd(l) - LineEnd(j) + 1 - (Len(EndOf) - 1)
      BY CallLayout
    <3>2. l <= Fields \/ l = Fields + 1
      <4>1. Fields \in Nat /\ l \in Nat /\ l <= Fields + 1
        BY CallLayout
      <4> QED BY <4>1
    <3> QED BY <1>0, <3>1, <3>2
  <2> HIDE DEF a, p, buf
  <2> QED BY <1>1, <2>1
<1> HIDE DEF a
<1>3. buf \in Seq(Token) /\ Len(buf) = b - a /\ \A q \in 1 .. b - a : buf[q] = Stream[a + q]
  <2>1. a <= b
    BY <1>1
  <2> QED BY <1>1, <2>1, PartBytes
<1> HIDE DEF buf, p
<1>4. /\ Cut(buf, p - 1) \in Seq(Token) /\ Len(Cut(buf, p - 1)) = Len(buf)
      /\ \A q \in 1 .. Len(buf) : Cut(buf, p - 1)[q] = IF q = p - 1 THEN "NUL" ELSE buf[q]
  <2>1. p - 1 \in 0 .. Len(buf)
    BY <1>1, <1>2, <1>3
  <2> QED BY <1>3, <2>1, CutIs
<1> QED BY <1>2, <1>3, <1>4 DEF TextOf, buf, p, a

(* The arithmetic of it: d bytes on from p, where line i begins.  Line l,  *)
(* where the text is cut, is the next one after the last field, or the     *)
(* next one, or one further on.                                            *)
LEMMA PlaceArith ==
  ASSUME NEW a \in Nat, NEW b \in Nat, NEW e \in 1 .. 2, NEW u \in Nat, NEW w \in Nat,
         NEW cut \in Int, NEW next \in Int, NEW p, p = u - a + 1, a <= u,
         \/ w = u + 3 + e /\ w + e <= b /\ cut = w - a + 1 - (e - 1) /\ next = cut
         \/ w = u + 3 + e /\ w <= b /\ cut = w - a + 1 /\ next = cut
         \/ /\ u + 6 + e + e <= w /\ w <= b /\ next = u + 3 + e - a + 1
            /\ cut = w - a + 1 \/ cut = w - a + 1 - (e - 1)
  PROVE  \E d \in {3, 4} :
           /\ p \in Nat \ {0} /\ p + d <= b - a /\ next = p + d + 1
           /\ p + 2 < cut - 1 /\ (d = 4 => p + 3 < cut - 1 /\ e = 2 /\ a + (p + 3) = u + 3 + 1)
           /\ p + d = cut - 1 \/ a + (p + d) = u + 3 + e
           /\ a + p = u + 1 /\ a + (p + 1) = u + 2 /\ a + (p + 2) = u + 3
<1>1. CASE w = u + 3 + e /\ w + e <= b /\ cut = w - a + 1 - (e - 1) /\ next = cut
  <2>1. p + 3 = cut - 1
    BY <1>1
  <2> QED BY <1>1, <2>1
<1>2. CASE w = u + 3 + e /\ w <= b /\ cut = w - a + 1 /\ next = cut
  <2>1. p + (2 + e) = cut - 1 /\ 2 + e \in {3, 4}
    BY <1>2
  <2> QED BY <1>2, <2>1
<1>3. CASE /\ u + 6 + e + e <= w /\ w <= b /\ next = u + 3 + e - a + 1
           /\ cut = w - a + 1 \/ cut = w - a + 1 - (e - 1)
  <2>1. a + (p + (2 + e)) = u + 3 + e /\ 2 + e \in {3, 4}
    BY <1>3
  <2> QED BY <1>3, <2>1
<1> QED BY <1>1, <1>2, <1>3

(* Line i from byte p on: three words, maybe a CR, and an end at p + d.    *)
LineFrom(txt, p, d, i) ==
  /\ p \in Nat \ {0} /\ p + d <= Len(txt)
  /\ txt[p] = request.fields[i] /\ txt[p + 1] = "COLON"
  /\ txt[p + 2] = ValueOf(request, i) /\ txt[p + d] \in {"LF", "NUL"}
  /\ d = 4 => txt[p + 3] = "CR"

LEMMA LineThere ==
  ASSUME request \in Requests, NEW j, NEW l, NEW b, CallOf(j, l, b), NEW i \in j .. l - 1,
         NEW txt, txt = TextOf(j, l, b)
  PROVE  \E d \in {3, 4} : LineFrom(txt, Place(j, i), d, i) /\ Place(j, i + 1) = Place(j, i) + d + 1
<1> DEFINE a    == LineEnd(j)
           u    == LineEnd(i)
           w    == LineEnd(l)
           p    == Place(j, i)
           cut  == Place(j, l)
           next == Place(j, i + 1)
<1>0. PICK e \in 1 .. 2 : e = Len(EndOf)
  BY CallLayout
<1>1. /\ Fields \in Nat /\ j \in Nat /\ l \in Nat /\ j < l /\ l <= Fields + 1
      /\ a \in Nat /\ w \in Nat /\ b \in Nat /\ w <= b
      /\ l <= Fields => cut = w - a + 1
      /\ l = Fields + 1 => cut = w - a + 1 - (e - 1) /\ w + e <= b
  BY <1>0, CallLayout DEF CallOf
<1>2. i \in Nat /\ i \in 0 .. Fields /\ i \in 1 .. Fields /\ i >= 1 /\ i + 1 \in Nat
  BY <1>1 DEF CallOf
<1>3. u \in Nat /\ LineEnd(i + 1) = u + 3 + e
  BY <1>0, <1>2, LineIn
<1>4. a <= u
  <2>1. j = i \/ j < i
    BY <1>1
  <2>2. j < i => a + 3 + e <= u
    BY <1>0, <1>1, <1>2, LineEndOrder
  <2>3. j = i => a = u
    OBVIOUS
  <2> HIDE DEF a, u
  <2> QED BY <1>1, <1>3, <2>1, <2>2, <2>3
<1>5. p = u - a + 1
  <2>1. j \in 1 .. Fields /\ i <= Fields
    BY <1>2 DEF CallOf
  <2> QED BY <1>2, <2>1, PlaceIs
<1>6. i + 1 = l \/ u + 6 + e + e <= w
  <2>1. i + 1 = l \/ i + 1 < l
    BY <1>1
  <2>2. i + 1 < l => LineEnd(i + 1) + 3 + e <= w
    BY <1>0, <1>1, <1>2, LineEndOrder
  <2>3. LineEnd(i + 1) + 3 + e = u + 6 + e + e
    <3> HIDE DEF u
    <3> QED BY <1>3
  <2> QED BY <2>1, <2>2, <2>3
<1>7. next = LineEnd(i + 1) - a + 1 - (IF i + 1 = Fields + 1 THEN e - 1 ELSE 0)
  BY <1>0 DEF Place
<1> HIDE DEF a, u, w, p, cut, next
<1>8. cut \in Int /\ next \in Int
  <2>1. l <= Fields \/ l = Fields + 1
    BY <1>1
  <2>2. cut = w - a + 1 \/ cut = w - a + 1 - (e - 1)
    BY <1>1, <2>1
  <2>3. next = LineEnd(i + 1) - a + 1 - (e - 1) \/ next = LineEnd(i + 1) - a + 1 - 0
    BY <1>7
  <2> QED BY <1>1, <1>3, <2>2, <2>3
<1>9. \/ w = u + 3 + e /\ w + e <= b /\ cut = w - a + 1 - (e - 1) /\ next = cut
      \/ w = u + 3 + e /\ w <= b /\ cut = w - a + 1 /\ next = cut
      \/ /\ u + 6 + e + e <= w /\ w <= b /\ next = u + 3 + e - a + 1
         /\ cut = w - a + 1 \/ cut = w - a + 1 - (e - 1)
  <2>1. CASE i + 1 = l
    <3>1. w = u + 3 + e /\ next = cut
      BY <1>3, <2>1 DEF w, next, cut
    <3>2. l <= Fields \/ l = Fields + 1
      BY <1>1
    <3> QED BY <1>1, <3>1, <3>2
  <2>2. CASE i + 1 # l
    <3>1. u + 6 + e + e <= w /\ i + 1 # Fields + 1
      BY <1>1, <1>6, <2>2
    <3>2. next = u + 3 + e - a + 1
      <4>1. next = LineEnd(i + 1) - a + 1 - 0
        BY <1>7, <3>1
      <4> QED BY <1>1, <1>3, <4>1
    <3>3. l <= Fields \/ l = Fields + 1
      BY <1>1
    <3>4. cut = w - a + 1 \/ cut = w - a + 1 - (e - 1)
      BY <1>1, <3>3
    <3> QED BY <1>1, <3>1, <3>2, <3>4
  <2> QED BY <2>1, <2>2
<1>10. PICK d \in {3, 4} :
         /\ p \in Nat \ {0} /\ p + d <= b - a /\ next = p + d + 1
         /\ p + 2 < cut - 1 /\ (d = 4 => p + 3 < cut - 1 /\ e = 2 /\ a + (p + 3) = u + 3 + 1)
         /\ p + d = cut - 1 \/ a + (p + d) = u + 3 + e
         /\ a + p = u + 1 /\ a + (p + 1) = u + 2 /\ a + (p + 2) = u + 3
  BY <1>1, <1>3, <1>4, <1>5, <1>8, <1>9, PlaceArith
<1>11. /\ txt \in Seq(Token) /\ Len(txt) = b - a
       /\ \A q \in 1 .. b - a : txt[q] = IF q = cut - 1 THEN "NUL" ELSE Stream[a + q]
  BY TextBytes DEF a, cut
<1>12. /\ Stream[u + 1] = request.fields[i] /\ Stream[u + 2] = "COLON"
       /\ Stream[u + 3] = ValueOf(request, i)
       /\ \A c \in 1 .. e : Stream[u + 3 + c] = EndOf[c]
  BY <1>0, <1>2, StreamLine DEF u
<1>13. EndOf[e] = "LF" /\ (e = 2 => EndOf[1] = "CR")
  BY <1>0, EndIs
<1>14. txt[p] = request.fields[i] /\ txt[p + 1] = "COLON" /\ txt[p + 2] = ValueOf(request, i)
  <2>1. \A q \in {p, p + 1, p + 2} : q \in 1 .. b - a /\ q # cut - 1
    BY <1>1, <1>8, <1>10
  <2> QED BY <1>10, <1>11, <1>12, <2>1
<1>15. txt[p + d] \in {"LF", "NUL"}
  <2>1. p + d \in 1 .. b - a /\ e \in 1 .. e
    BY <1>1, <1>10
  <2>2. Stream[u + 3 + e] = "LF"
    BY <1>12, <1>13, <2>1
  <2> QED BY <1>10, <1>11, <2>1, <2>2
<1>16. d = 4 => txt[p + 3] = "CR"
  <2> SUFFICES ASSUME d = 4 PROVE txt[p + 3] = "CR"
    OBVIOUS
  <2>1. p + 3 \in 1 .. b - a /\ p + 3 # cut - 1 /\ 1 \in 1 .. e
    BY <1>1, <1>8, <1>10
  <2>2. Stream[u + 3 + 1] = "CR"
    BY <1>10, <1>12, <1>13, <2>1
  <2> QED BY <1>10, <1>11, <2>1, <2>2
<1>17. LineFrom(txt, p, d, i)
  BY <1>10, <1>11, <1>14, <1>15, <1>16 DEF LineFrom
<1> QED BY <1>10, <1>17 DEF p, next

(* What readHeaders makes of such a line.                                  *)
Ends           == {"LF", "NUL"}
RawAt(txt, p)  == Upto(From(txt, p), Ends)
LineAt(txt, p) == Trim(RawAt(txt, p))
NameIn(line)   == [q \in 1 .. Colon(line) - 1 |-> Lower(line[q])]

LEMMA LineRead ==
  ASSUME request \in Requests, NEW i \in 1 .. Fields,
         NEW txt \in Seq(Token), NEW p, NEW d \in {3, 4}, LineFrom(txt, p, d, i)
  PROVE  /\ At(txt, p) \notin Ends /\ Len(RawAt(txt, p)) = d
         /\ LineAt(txt, p) # <<>> /\ Colon(LineAt(txt, p)) = 2
         /\ NameIn(LineAt(txt, p)) = NameOf(i)
         /\ From(LineAt(txt, p), 3) = <<ValueOf(request, i)>>
<1> DEFINE raw  == RawAt(txt, p)
           line == LineAt(txt, p)
           tail == From(txt, p)
           x == request.fields[i]
           v == ValueOf(request, i)
<1>0. /\ p \in Nat \ {0} /\ p + d <= Len(txt)
      /\ txt[p] = x /\ txt[p + 1] = "COLON" /\ txt[p + 2] = v
      /\ txt[p + d] \in {"LF", "NUL"} /\ (d = 4 => txt[p + 3] = "CR")
  BY DEF LineFrom
<1>00. x \in Token \ Special /\ v \in Token \ Special
  <2>1. x \in FieldNames /\ v \in Token \ (Special \cup {"NULL"})
    BY RequestIs DEF Fields
  <2> QED BY <2>1 DEF FieldNames, Special, Token
<1> SUFFICES /\ At(txt, p) \notin Ends /\ Len(raw) = d
             /\ line # <<>> /\ Colon(line) = 2
             /\ NameIn(line) = <<Lower(x)>> /\ From(line, 3) = <<v>>
  BY DEF NameOf
<1>000. line = Trim(raw)
  BY DEF LineAt
<1> HIDE DEF line, raw, x, v
<1>1. /\ x \notin {"CR", "LF", "COLON", "NUL"} /\ v \notin {"CR", "LF", "COLON", "NUL"}
      /\ Len(txt) \in Nat /\ x \in Token /\ v \in Token
  BY <1>00, LenProperties DEF Special
<1>2. /\ tail \in Seq(Token) /\ Len(tail) = Len(txt) - p + 1
      /\ \A q \in 1 .. d + 1 : tail[q] = txt[p + q - 1]
  <2>1. p <= Len(txt)
    BY <1>0, <1>1
  <2>2. /\ tail \in Seq(Token) /\ Len(tail) = IF p <= Len(txt) THEN Len(txt) - p + 1 ELSE 0
        /\ \A q \in 1 .. Len(txt) - p + 1 : tail[q] = txt[p + q - 1]
    BY <1>0, FromIs
  <2>3. \A q \in 1 .. d + 1 : q \in 1 .. Len(txt) - p + 1
    BY <1>0, <1>1
  <2> QED BY <2>1, <2>2, <2>3
<1> HIDE DEF tail
<1>3. /\ tail[1] = x /\ tail[2] = "COLON" /\ tail[3] = v /\ tail[d + 1] \in {"LF", "NUL"}
      /\ d = 4 => tail[4] = "CR"
  <2>1. p + 1 - 1 = p /\ p + 2 - 1 = p + 1 /\ p + 3 - 1 = p + 2 /\ p + 4 - 1 = p + 3
        /\ p + (d + 1) - 1 = p + d
    BY <1>0
  <2>2. {1, 2, 3, 4, d + 1} \subseteq 1 .. d + 1
    OBVIOUS
  <2> QED BY <1>0, <1>2, <2>1, <2>2
<1>4. /\ raw \in Seq(Token) /\ Len(raw) = d /\ \A q \in 1 .. d : raw[q] = tail[q]
  <2>1. PICK z \in 1 .. Len(tail) : z = d + 1
    <3>1. d + 1 \in 1 .. Len(tail)
      BY <1>0, <1>1, <1>2
    <3> QED BY <3>1
  <2>2. ASSUME NEW q \in 1 .. z - 1 PROVE tail[q] \notin {"LF", "NUL"}
    <3>1. q = 1 \/ q = 2 \/ q = 3 \/ (q = 4 /\ d = 4)
      BY <2>1
    <3> QED BY <1>1, <1>3, <3>1
  <2>3. tail \in Seq(Token) /\ tail[z] \in Ends
    BY <1>2, <1>3, <2>1 DEF Ends
  <2>7. \A q \in 1 .. z - 1 : tail[q] \notin Ends
    BY <2>2 DEF Ends
  <2>4. /\ Upto(tail, Ends) \in Seq(Token) /\ Len(Upto(tail, Ends)) = z - 1
        /\ \A q \in 1 .. z - 1 : Upto(tail, Ends)[q] = tail[q]
    BY <2>3, <2>7, UptoLen
  <2>5. z - 1 = d
    BY <2>1
  <2>6. raw = Upto(tail, Ends)
    BY DEF raw, tail, RawAt
  <2> QED BY <2>4, <2>5, <2>6
<1>5. line \in Seq(Token) /\ Len(line) = 3 /\ \A q \in 1 .. 3 : line[q] = raw[q]
  <2>1. /\ Trim(raw) \in Seq(Token) /\ Len(Trim(raw)) <= Len(raw)
        /\ \A q \in 1 .. Len(Trim(raw)) : Trim(raw)[q] = raw[q]
    BY <1>4, TrimIs
  <2>2. raw # <<>> /\ Last(raw) = raw[d]
    <3>1. Len(raw) # 0
      BY <1>4
    <3> QED BY <1>4, <3>1 DEF Last
  <2>3. CASE d = 3
    <3>1. Last(raw) # "CR"
      BY <1>1, <1>3, <1>4, <2>2, <2>3
    <3>2. Trim(raw) = raw
      BY <3>1 DEF Trim
    <3> QED BY <1>000, <1>4, <2>3, <3>2
  <2>4. CASE d = 4
    <3>1. Last(raw) = "CR"
      BY <1>3, <1>4, <2>2, <2>4
    <3>2. Trim(raw) = SubSeq(raw, 1, 3)
      <4>1. Trim(raw) = SubSeq(raw, 1, Len(raw) - 1)
        BY <2>2, <3>1 DEF Trim, Front
      <4>2. Len(raw) - 1 = 3
        BY <1>4, <2>4
      <4> QED BY <4>1, <4>2
    <3>3. Len(SubSeq(raw, 1, 3)) = 3
      <4>1. 0 + 3 <= Len(raw)
        BY <1>4, <2>4
      <4>2. Len(SubSeq(raw, 0 + 1, 0 + 3)) = 3
        BY <1>4, <4>1, PartIs
      <4> QED BY <4>2
    <3> QED BY <1>000, <2>1, <3>2, <3>3
  <2> QED BY <2>3, <2>4
<1>6. line[1] = x /\ line[2] = "COLON" /\ line[3] = v
  <2>1. {1, 2, 3} \subseteq 1 .. 3 /\ {1, 2, 3} \subseteq 1 .. d
    OBVIOUS
  <2> QED BY <1>3, <1>4, <1>5, <2>1
<1>7. At(txt, p) \notin Ends
  <2>1. p <= Len(txt)
    BY <1>0, <1>1
  <2> QED BY <1>0, <1>1, <2>1 DEF At, Ends
<1>8. Colon(line) = 2
  <2>1. /\ Colon(line) \in 0 .. Len(line)
        /\ Colon(line) # 0 => line[Colon(line)] = "COLON"
        /\ \A q \in 1 .. Len(line) : line[q] = "COLON" => Colon(line) # 0 /\ Colon(line) <= q
    BY <1>5, ColonIs
  <2>2. Colon(line) # 0 /\ Colon(line) <= 2
    <3>1. 2 \in 1 .. Len(line)
      BY <1>5
    <3> QED BY <1>6, <2>1, <3>1
  <2>3. Colon(line) # 1
    BY <1>1, <1>6, <2>1
  <2> QED BY <1>5, <2>1, <2>2, <2>3
<1>9. NameIn(line) = <<Lower(x)>>
  <2>1. NameIn(line) = [q \in 1 .. 1 |-> Lower(line[q])]
    <3>1. Colon(line) - 1 = 1
      BY <1>8
    <3> QED BY <3>1 DEF NameIn
  <2>2. [q \in 1 .. 1 |-> Lower(line[q])] = <<Lower(x)>>
    BY <1>6
  <2> QED BY <2>1, <2>2
<1>10. From(line, 3) = <<v>>
  <2>1. line \in Seq(Token) /\ Len(line) = 3 /\ 3 \in Nat \ {0}
    BY <1>5
  <2>2. From(line, 3) \in Seq(Token) /\ Len(From(line, 3)) = 1 /\ From(line, 3)[1] = v
    <3>1. ASSUME NEW k \in Nat \ {0}, NEW m \in Nat, m = Len(line)
          PROVE  /\ From(line, k) \in Seq(Token)
                 /\ Len(From(line, k)) = IF k <= m THEN m - k + 1 ELSE 0
                 /\ \A q \in 1 .. m - k + 1 : From(line, k)[q] = line[k + q - 1]
      BY <2>1, <3>1, FromIs
    <3>2. 3 \in Nat \ {0} /\ 3 \in Nat /\ 3 = Len(line)
      BY <2>1
    <3>3. /\ From(line, 3) \in Seq(Token)
          /\ Len(From(line, 3)) = IF 3 <= 3 THEN 3 - 3 + 1 ELSE 0
          /\ \A q \in 1 .. 3 - 3 + 1 : From(line, 3)[q] = line[3 + q - 1]
      BY <3>1, <3>2
    <3> HIDE DEF From
    <3>4. Len(From(line, 3)) = 1
      BY <3>3
    <3>5. From(line, 3)[1] = line[3]
      <4>1. 1 \in 1 .. 3 - 3 + 1 /\ 3 + 1 - 1 = 3
        OBVIOUS
      <4> QED BY <3>3, <4>1
    <3> QED BY <1>6, <3>3, <3>4, <3>5
  <2>3. <<v>> \in Seq(Token) /\ Len(<<v>>) = 1 /\ <<v>>[1] = v
    BY <1>1
  <2>4. \A q \in 1 .. Len(From(line, 3)) : From(line, 3)[q] = <<v>>[q]
    BY <2>2, <2>3
  <2> QED BY <2>2, <2>3, <2>4, SameText
<1>11. line # <<>>
  <2>1. Len(line) # 0
    BY <1>5
  <2> QED BY <2>1
<1> QED BY <1>4, <1>7, <1>8, <1>9, <1>10, <1>11

(* The call is what Reads says.                                            *)
LEMMA ReadsCall ==
  ASSUME request \in Requests, taken \in Nat, taken <= Len(Stream),
         NEW j \in 1 .. Fields, NEW l \in j + 1 .. Fields + 1, NEW i, Reads(j, l, i)
  PROVE  CallOf(j, l, taken) /\ text = TextOf(j, l, taken)
<1>1. CallOf(j, l, taken)
  BY DEF Reads, CallOf
<1>2. text = TextOf(j, l, taken)
  BY DEF Reads, TextOf
<1> QED BY <1>1, <1>2

LEMMA HeaderTaken ==
  ASSUME request \in Requests, ParseOK, Running, taken \in Nat, taken <= Len(Stream),
         NEW j \in 1 .. Fields, NEW l \in j + 1 .. Fields + 1, NEW i \in j .. l - 1,
         Reads(j, l, i), ReadHeader
  PROVE  outcome' = "ok" /\ Progress'
<1>1. CallOf(j, l, taken) /\ text = TextOf(j, l, taken) /\ at = Place(j, i)
  BY ReadsCall DEF Reads
<1>2. PICK d \in {3, 4} : LineFrom(text, Place(j, i), d, i) /\ Place(j, i + 1) = Place(j, i) + d + 1
  BY <1>1, LineThere
<1>3. LineFrom(text, at, d, i) /\ Place(j, i + 1) = at + d + 1
  BY <1>1, <1>2
<1>4. Fields \in Nat /\ j \in Nat /\ l \in Nat /\ l <= Fields + 1 /\ i \in 1 .. Fields /\ i \in Nat
  <2>1. Fields \in Nat
    BY LayoutIs
  <2> QED BY <2>1
<1>6. text \in Seq(Token) /\ ValidMap(map) /\ outcome = "ok"
  BY DEF ParseOK, CallInv, Running
<1>7. /\ Len(RawLine) = d
      /\ Line # <<>> /\ Colon(Line) = 2
      /\ NameIn(Line) = NameOf(i)
      /\ From(Line, 3) = <<ValueOf(request, i)>>
  <2>1. RawLine = RawAt(text, at) /\ Line = LineAt(text, at)
    BY DEF RawLine, Line, Ends, RawAt, LineAt
  <2>2. LineFrom(text, at, d, i) /\ i \in 1 .. Fields /\ text \in Seq(Token)
    BY <1>3, <1>4, <1>6
  <2>3. /\ Len(RawAt(text, at)) = d
        /\ LineAt(text, at) # <<>> /\ Colon(LineAt(text, at)) = 2
        /\ NameIn(LineAt(text, at)) = NameOf(i)
        /\ From(LineAt(text, at), 3) = <<ValueOf(request, i)>>
    BY <2>2, LineRead
  <2> QED BY <2>1, <2>3
<1>8. /\ map' = AddField(map, NameOf(i), <<ValueOf(request, i)>>)
      /\ at' = Place(j, i + 1)
      /\ UNCHANGED <<builderVars, requestVars, text, rest, chunkSize, n,
                     continueProcessing, outcome>>
      /\ UNCHANGED <<request, taken>>
  <2>1. /\ map' = AddField(map, NameIn(Line), From(Line, Colon(Line) + 1))
        /\ at' = at + Len(RawLine) + 1
        /\ UNCHANGED <<builderVars, requestVars, text, rest, chunkSize, n,
                       continueProcessing, outcome>>
        /\ UNCHANGED <<request, taken>>
    BY <1>7 DEF ReadHeader, Colon, NameIn
  <2>2. Colon(Line) + 1 = 3
    BY <1>7
  <2>3. map' = AddField(map, NameIn(Line), From(Line, 3))
    BY <2>1, <2>2
  <2>4. at' = Place(j, i + 1)
    <3>1. at' = at + d + 1
      BY <1>7, <2>1
    <3> QED BY <1>3, <3>1
  <2> QED BY <1>7, <2>1, <2>3, <2>4
<1>9. Gathered(map', i, {})
  <2>1. Gathered(map, i - 1, {})
    BY DEF Reads
  <2> QED BY <1>4, <1>6, <1>8, <2>1, GathersNext
<1>10. Reads(j, l, i + 1)'
  <2>1. /\ isRequestLineSet' /\ ~areHeadersSet' /\ ~isContentSet' /\ content' = <<>>
        /\ chunkSize' >= taken - LineEnd(j)
        /\ l <= Fields => taken = LineEnd(l) /\ rest' = NoBuf
        /\ l = Fields + 1 => taken >= HeadEnd /\ rest' = Part(HeadEnd, taken)
        /\ text' = Cut(Part(LineEnd(j), taken), Place(j, l) - 1)
    BY <1>8 DEF Reads, builderVars, requestVars
  <2>2. Gathered(map', i + 1 - 1, {})
    <3>1. i + 1 - 1 = i
      BY <1>4
    <3> QED BY <1>9, <3>1
  <2> QED BY <1>8, <2>1, <2>2, ReadsNext
<1>11. Running' /\ Fields' = Fields /\ outcome' = "ok"
  BY <1>6, <1>8 DEF Running, Fields
<1>12. j \in 1 .. Fields /\ l \in j + 1 .. Fields + 1 /\ i + 1 \in j .. l
  BY <1>4
<1> QED BY <1>10, <1>11, <1>12 DEF Progress

(* Past the last line the call reads, its text ends.                       *)
LEMMA TextStops ==
  ASSUME request \in Requests, NEW j, NEW l, NEW b, CallOf(j, l, b),
         NEW txt, txt = TextOf(j, l, b)
  PROVE  /\ Place(j, l) \in Nat \ {0} /\ At(txt, Place(j, l)) \in Ends
         /\ l <= Fields => Place(j, l) = Len(txt) + 1
<1> DEFINE a == LineEnd(j)
           w == LineEnd(l)
           p == Place(j, l)
<1>0. PICK e \in 1 .. 2 : e = Len(EndOf)
  BY CallLayout
<1>1. /\ Fields \in Nat /\ l \in Nat /\ l <= Fields + 1 /\ a \in Nat /\ w \in Nat /\ b \in Nat
      /\ a + 3 + e <= w
      /\ l <= Fields => p = w - a + 1 /\ b = w
      /\ l = Fields + 1 => p = w - a + 1 - (e - 1) /\ w + e <= b
  BY <1>0, CallLayout DEF CallOf
<1>2. /\ Len(txt) = b - a
      /\ \A q \in 1 .. b - a : txt[q] = IF q = p - 1 THEN "NUL" ELSE Stream[a + q]
  BY TextBytes
<1>3. CASE l <= Fields
  <2> HIDE DEF a, w, p
  <2>1. p = Len(txt) + 1 /\ p \in Nat \ {0} /\ ~ (p <= Len(txt))
    BY <1>1, <1>2, <1>3
  <2>2. At(txt, p) \in Ends
    BY <2>1 DEF At, Ends
  <2> QED BY <2>1, <2>2 DEF p
<1>4. CASE l = Fields + 1
  <2>1. Stream[w] = "LF"
    <3>1. l \in 1 .. Fields + 1
      BY <1>1, <1>4
    <3> QED BY <3>1, BeforeLine
  <2>2. e = 1 => Stream[w + 1] = "LF"
    <3>1. \A c \in 1 .. Len(EndOf) : Stream[LineEnd(Fields + 1) + c] = EndOf[c]
      BY StreamBlank
    <3>2. e = 1 => 1 \in 1 .. Len(EndOf) /\ EndOf[1] = "LF"
      BY <1>0, EndIs
    <3> QED BY <1>4, <3>1, <3>2
  <2> HIDE DEF a, w, p
  <2>3. p \in Nat \ {0} /\ p \in 1 .. b - a /\ p # p - 1
    BY <1>1, <1>4
  <2>4. (e = 2 => a + p = w) /\ (e = 1 => a + p = w + 1)
    BY <1>1, <1>4
  <2>5. Stream[a + p] = "LF"
    BY <2>1, <2>2, <2>4
  <2>6. txt[p] = "LF" /\ p <= Len(txt)
    BY <1>1, <1>2, <2>3, <2>5
  <2>7. At(txt, p) \in Ends
    BY <2>6 DEF At, Ends
  <2>8. ~ (l <= Fields)
    BY <1>1, <1>4
  <2> QED BY <2>3, <2>7, <2>8 DEF p
<1> QED BY <1>1, <1>3, <1>4

(* There, and not before, the loop of readHeaders ends.                    *)
LEMMA EndsThere ==
  ASSUME request \in Requests, ParseOK, Running, taken \in Nat, taken <= Len(Stream),
         NEW j \in 1 .. Fields, NEW l \in j + 1 .. Fields + 1, NEW i \in j .. l,
         Reads(j, l, i)
  PROVE  /\ i = l => AtEnd
         /\ i # l => ~AtEnd /\ Line # <<>> /\ i \in j .. l - 1
<1>1. CallOf(j, l, taken) /\ text = TextOf(j, l, taken) /\ at = Place(j, i)
  BY ReadsCall DEF Reads
<1>2. Fields \in Nat
  BY LayoutIs
<1>3. ASSUME i = l PROVE AtEnd
  <2>1. At(text, at) \in Ends
    BY <1>1, <1>3, TextStops
  <2> QED BY <2>1 DEF AtEnd, Ends
<1>4. ASSUME i # l PROVE ~AtEnd /\ Line # <<>> /\ i \in j .. l - 1
  <2>1. i \in j .. l - 1 /\ i \in 1 .. Fields
    BY <1>2, <1>4
  <2>2. PICK d \in {3, 4} : LineFrom(text, at, d, i)
    BY <1>1, <2>1, LineThere
  <2>3. text \in Seq(Token)
    BY DEF ParseOK, Running
  <2>4. At(text, at) \notin Ends /\ LineAt(text, at) # <<>>
    BY <2>1, <2>2, <2>3, LineRead
  <2> QED BY <2>1, <2>4 DEF AtEnd, Ends, Line, LineAt, RawLine, RawAt
<1> QED BY <1>3, <1>4

(* Past its end the text holds nothing.                                    *)
LEMMA NothingFurther ==
  ASSUME NEW txt \in Seq(Token), NEW p, p = Len(txt) + 1, NEW k \in Nat
  PROVE  First(OneFurther(txt, p), k) = <<>>
<1>1. Len(txt) \in Nat /\ p \in Nat \ {0} /\ p + 1 \in Nat \ {0} /\ ~ (p <= Len(txt)) /\ ~ (p + 1 <= Len(txt))
  BY LenProperties
<1>2. From(txt, p + 1) \in Seq(Token) /\ Len(From(txt, p + 1)) = 0
  BY <1>1, FromIs
<1> DEFINE after == Upto(From(txt, p + 1), {"NUL"})
<1>3. after \in Seq(Token) /\ Len(after) = 0
  <2>1. after \in Seq(Token) /\ Len(after) <= Len(From(txt, p + 1)) /\ Len(after) \in Nat
    BY <1>2, UptoIs, LenProperties
  <2> QED BY <1>2, <2>1
<1>4. OneFurther(txt, p) = after
  <2>1. At(txt, p) = "NUL"
    BY <1>1 DEF At
  <2> QED BY <2>1 DEF OneFurther
<1> HIDE DEF after
<1>5. First(after, k) = after /\ after = <<>>
  <2>1. Len(after) <= k
    BY <1>3
  <2> QED BY <1>3, <2>1, FirstIs, EmptySeq
<1> QED BY <1>4, <1>5

(* How a call that read headers returns.                                   *)
LEMMA HeadersReturn ==
  ASSUME HeadersRead, AtEnd, ~ (rest = NoBuf /\ at + 1 > BufSize)
  PROVE  /\ areHeadersSet' = (rest # NoBuf) /\ headers' = map
         /\ remainingBuf' = IF rest # NoBuf THEN rest ELSE First(OneFurther(text, at), chunkSize)
         /\ Returns(chunkSize)
         /\ UNCHANGED <<isRequestLineSet, isContentSet, content, contentSize, declared>>
         /\ UNCHANGED <<request, anyCut, sent, taken, answered>>
  BY DEF HeadersRead

LEMMA HeadersTaken ==
  ASSUME request \in Requests, ParseOK, Running, taken \in Nat, taken <= Len(Stream),
         Len(Stream) < BufSize, Len(Stream) \in Nat,
         NEW j \in 1 .. Fields, NEW l \in j + 1 .. Fields + 1, NEW i \in j .. l,
         Reads(j, l, i), HeadersRead
  PROVE  outcome' = "ok" /\ Progress'
<1>1. i = l /\ AtEnd
  <2>1. AtEnd \/ Line = <<>>
    BY DEF HeadersRead
  <2> QED BY <2>1, EndsThere
<1>2. CallOf(j, l, taken) /\ text = TextOf(j, l, taken) /\ at = Place(j, l)
  BY <1>1, ReadsCall DEF Reads
<1>3. PICK e \in 1 .. 2 : e = Len(EndOf)
  BY <1>2, CallLayout
<1>4. /\ Fields \in Nat /\ l \in Nat /\ l <= Fields + 1 /\ j < l
      /\ LineEnd(j) \in Nat /\ LineEnd(j) >= 1
      /\ LineEnd(l) \in Nat /\ LineEnd(l) <= taken
  <2>1. LineEnd(j) \in 1 .. Len(Stream)
    <3>1. j \in 1 .. Fields + 1
      BY <1>2, CallLayout
    <3> QED BY <3>1, BeforeLine
  <2> QED BY <1>2, <2>1, CallLayout
<1>5. /\ text \in Seq(Token) /\ Len(text) = taken - LineEnd(j) /\ Len(text) \in Nat
      /\ l <= Fields => at = Len(text) + 1
  <2>1. text \in Seq(Token) /\ Len(text) = taken - LineEnd(j)
    BY <1>2, TextBytes
  <2> QED BY <1>2, <2>1, TextStops, LenProperties
<1>6. /\ isRequestLineSet /\ ~areHeadersSet /\ ~isContentSet /\ content = <<>>
      /\ l <= Fields => taken = LineEnd(l) /\ rest = NoBuf
      /\ l = Fields + 1 => taken >= HeadEnd /\ rest = Part(HeadEnd, taken)
      /\ Gathered(map, l - 1, {})
  BY <1>1 DEF Reads
<1>7. ValidMap(map) /\ map # NoMap /\ chunkSize \in Nat
  <2>1. ValidMap(map) /\ chunkSize \in 0 .. BufSize - 1
    BY DEF ParseOK, CallInv
  <2> QED BY <2>1, NoMapApart, RequestParsingAssumption
<1>8. CASE l <= Fields
  <2>1. rest = NoBuf /\ taken = LineEnd(l) /\ at = Len(text) + 1
    BY <1>5, <1>6, <1>8
  <2>2. ~ (rest = NoBuf /\ at + 1 > BufSize)
    <3>1. BufSize \in Nat
      BY RequestParsingAssumption
    <3>2. at + 1 = taken - LineEnd(j) + 2
      BY <1>4, <1>5, <2>1
    <3>3. at + 1 \in Nat /\ at + 1 <= taken + 1
      BY <1>4, <1>5, <2>1, <3>2
    <3>4. taken + 1 \in Nat /\ taken + 1 <= BufSize
      BY <3>1
    <3>5. at + 1 <= BufSize
      BY <3>1, <3>3, <3>4, SMTT(20)
    <3>6. ~ (at + 1 > BufSize)
      BY <3>1, <3>3, <3>5
    <3> QED BY <3>6
  <2>3. /\ areHeadersSet' = (rest # NoBuf) /\ headers' = map
        /\ remainingBuf' = IF rest # NoBuf THEN rest ELSE First(OneFurther(text, at), chunkSize)
        /\ Returns(chunkSize)
        /\ UNCHANGED <<isRequestLineSet, isContentSet, content, contentSize, declared>>
        /\ UNCHANGED <<request, anyCut, sent, taken, answered>>
    BY <1>1, <2>2, HeadersReturn
  <2>4. remainingBuf' = Part(taken, taken) /\ taken <= taken
    <3>1. First(OneFurther(text, at), chunkSize) = <<>>
      BY <1>5, <1>7, <2>1, NothingFurther
    <3>2. Part(taken, taken) = <<>>
      BY PartNone
    <3> QED BY <2>1, <2>3, <3>1, <3>2
  <2>5. outcome' = "ok" /\ ~Running' /\ n' = chunkSize /\ (continueProcessing' <=> taken > taken)
    BY <2>3, <2>4, ReturnsWith
  <2>6. ~continueProcessing'
    BY <2>5
  <2>7. ReadTo(l)'
    <3>1. ~areHeadersSet' /\ isRequestLineSet' /\ ~isContentSet' /\ content' = <<>>
      BY <1>6, <2>1, <2>3
    <3>2. taken' = taken /\ request' = request /\ taken >= LineEnd(l) /\ ~ (taken > LineEnd(l))
      BY <2>1, <2>3
    <3>3. headers' # NoMap /\ Gathered(headers', l - 1, {})
      BY <1>6, <1>7, <2>3
    <3> QED BY <2>1, <2>4, <2>6, <3>1, <3>2, <3>3, ReadToNext
  <2>8. Fields' = Fields /\ l \in 1 .. Fields
    BY <1>8, <2>3 DEF Fields
  <2> QED BY <2>5, <2>7, <2>8 DEF Progress
<1>9. CASE l = Fields + 1
  <2>1. taken >= HeadEnd /\ rest = Part(HeadEnd, taken) /\ HeadEnd \in Nat
    <3>1. HeadEnd \in Nat
      <4>1. 0 \in 0 .. Fields
        BY <1>4
      <4> QED BY <4>1, LineIn
    <3> QED BY <1>6, <1>9, <3>1
  <2>2. HeadEnd <= taken /\ rest # NoBuf
    <3>1. HeadEnd <= taken
      BY <2>1
    <3>2. Part(HeadEnd, taken) \in Seq(Token)
      BY <2>1, <3>1, PartBytes
    <3> QED BY <2>1, <3>1, <3>2, NoBufApart
  <2>3. /\ areHeadersSet' = (rest # NoBuf) /\ headers' = map
        /\ remainingBuf' = IF rest # NoBuf THEN rest ELSE First(OneFurther(text, at), chunkSize)
        /\ Returns(chunkSize)
        /\ UNCHANGED <<isRequestLineSet, isContentSet, content, contentSize, declared>>
        /\ UNCHANGED <<request, anyCut, sent, taken, answered>>
    BY <1>1, <2>2, HeadersReturn
  <2>4. remainingBuf' = Part(HeadEnd, taken)
    BY <2>1, <2>2, <2>3
  <2>5. outcome' = "ok" /\ ~Running' /\ n' = chunkSize /\ (continueProcessing' <=> taken > HeadEnd)
    BY <2>1, <2>2, <2>3, <2>4, ReturnsWith
  <2>6. HeadersDone'
    <3>1. areHeadersSet' /\ isRequestLineSet' /\ ~isContentSet' /\ content' = <<>>
      BY <1>6, <2>2, <2>3
    <3>2. taken' = taken /\ request' = request
      BY <2>3
    <3>3. Gathered(headers', Fields, {})
      <4>1. l - 1 = Fields
        BY <1>4, <1>9
      <4> QED BY <1>6, <2>3, <4>1
    <3> QED BY <2>1, <2>4, <2>5, <3>1, <3>2, <3>3, HeadersDoneNext
  <2> QED BY <2>5, <2>6 DEF Progress
<1>10. l <= Fields \/ l = Fields + 1
  BY <1>4
<1> QED BY <1>8, <1>9, <1>10

----------------------------------------------------------------------------
(* The content.                                                            *)

(* The length that setContent is given is that of the content.             *)
LEMMA LengthIs ==
  ASSUME request \in Requests, ValidMap(headers), Gathered(headers, Fields, {})
  PROVE  ContentLength = request.length
<1>1. /\ request.fields \in Seq(FieldNames) /\ request.length \in Nat
      /\ \A i, k \in DOMAIN request.fields :
           request.fields[i] = "content-length" /\ request.fields[k] = "content-length" => i = k
      /\ request.length > 0 => Contains(request.fields, "content-length")
      /\ Fields \in Nat /\ DOMAIN request.fields = 1 .. Fields
  <2>1. request.length \in Nat /\ DOMAIN request.fields = 1 .. Fields /\ Fields \in Nat
    BY RequestIs, LayoutIs DEF Fields
  <2> QED BY <2>1 DEF Requests
<1>2. \A i \in 1 .. Fields : Lower(request.fields[i]) = "content-length" <=> request.fields[i] = "content-length"
  BY DEF Lower
<1>3. CASE \E i \in 1 .. Fields : request.fields[i] = "content-length"
  <2>1. PICK i \in 1 .. Fields : request.fields[i] = "content-length"
    BY <1>3
  <2>2. NameOf(i) = <<"content-length">> /\ Lower(request.fields[i]) = "content-length"
    BY <1>2, <2>1 DEF NameOf
  <2>3. /\ <<"content-length">> \in DOMAIN headers
        /\ Joined(headers[<<"content-length">>], request, "content-length", Fields)
    BY <2>2 DEF Gathered
  <2> DEFINE value == headers[<<"content-length">>]
  <2>4. FieldsNamed(request, "content-length", Fields) = {i}
    BY <1>1, <1>2, <2>1, <2>2 DEF FieldsNamed
  <2>5. FieldsNamed(request, "content-length", i) = {i}
    BY <1>1, <1>2, <2>1, <2>2 DEF FieldsNamed
  <2>6. Cardinality({i}) = 1
    BY FS_Singleton
  <2>7. Rank(request, i) = 1
    BY <2>2, <2>5, <2>6 DEF Rank
  <2>8. Len(value) = 1 /\ value[1] = "length"
    <3>1. ValueMax >= 1 /\ ValueMax \in Nat
      BY RequestParsingAssumption
    <3>2. ValueOf(request, i) = "length"
      BY <2>1 DEF ValueOf
    <3> HIDE DEF value
    <3>3. Len(value) = 1
      BY <2>3, <2>4, <2>6, <3>1 DEF Joined, value
    <3>4. value[1] = "length"
      BY <2>3, <2>4, <2>7, <3>1, <3>2 DEF Joined, value
    <3> QED BY <3>3, <3>4
  <2>9. value = <<"length">>
    <3>1. value \in Seq(Token) /\ "length" \in Token
      BY <2>3 DEF ValidMap, Token
    <3>2. <<"length">> \in Seq(Token) /\ Len(<<"length">>) = 1 /\ <<"length">>[1] = "length"
      BY <3>1
    <3> HIDE DEF value
    <3>3. \A q \in 1 .. Len(value) : value[q] = <<"length">>[q]
      BY <2>8, <3>2
    <3> QED BY <2>8, <3>1, <3>2, <3>3, SameText
  <2> QED BY <2>3, <2>9 DEF ContentLength
<1>4. CASE ~ \E i \in 1 .. Fields : request.fields[i] = "content-length"
  <2>1. request.length = 0
    <3>1. ~Contains(request.fields, "content-length")
      BY <1>1, <1>4 DEF Contains
    <3> QED BY <1>1, <3>1
  <2>2. <<"content-length">> \notin DOMAIN headers
    <3> SUFFICES ASSUME <<"content-length">> \in DOMAIN headers PROVE FALSE
      OBVIOUS
    <3>1. PICK i \in 1 .. Fields : <<"content-length">> = NameOf(i)
      BY DEF Gathered
    <3>2. Lower(request.fields[i]) = "content-length"
      <4>1. NameOf(i)[1] = Lower(request.fields[i])
        BY DEF NameOf
      <4> QED BY <3>1, <4>1
    <3> QED BY <1>2, <1>4, <3>2
  <2> QED BY <2>1, <2>2 DEF ContentLength
<1> QED BY <1>3, <1>4

(* Every field but content-length stays in the map.                        *)
LEMMA LengthPopped ==
  ASSUME request \in Requests, Gathered(headers, Fields, {}), NEW m,
         m = [f \in DOMAIN headers \ {<<"content-length">>} |-> headers[f]]
  PROVE  Gathered(m, Fields, {<<"content-length">>})
<1>1. /\ DOMAIN m = DOMAIN headers \ {<<"content-length">>}
      /\ \A f \in DOMAIN m : m[f] = headers[f]
  OBVIOUS
<1>2. /\ \A f \in DOMAIN headers : \E i \in 1 .. Fields : f = NameOf(i)
      /\ \A i \in 1 .. Fields :
           NameOf(i) \in DOMAIN headers /\ Joined(headers[NameOf(i)], request, Lower(request.fields[i]), Fields)
  BY DEF Gathered
<1>3. \A f \in DOMAIN m : \E i \in 1 .. Fields : f = NameOf(i) /\ f \notin {<<"content-length">>}
  BY <1>1, <1>2
<1>4. ASSUME NEW i \in 1 .. Fields, NameOf(i) \notin {<<"content-length">>}
      PROVE  NameOf(i) \in DOMAIN m /\ Joined(m[NameOf(i)], request, Lower(request.fields[i]), Fields)
  <2>1. NameOf(i) \in DOMAIN m
    BY <1>1, <1>2, <1>4
  <2>2. m[NameOf(i)] = headers[NameOf(i)]
    BY <1>1, <2>1
  <2> QED BY <1>2, <2>1, <2>2
<1> QED BY <1>3, <1>4 DEF Gathered

LEMMA ContentSet ==
  ASSUME request \in Requests, ParseOK, HeadersDone, Len(Stream) \in Nat,
         NEW c \in HeadEnd .. Len(Stream), taken' = c, request' = request,
         NEW k, SetContent(Part(HeadEnd, c), k)
  PROVE  outcome' = "ok" /\ Progress'
<1>1. /\ HeadEnd \in Nat /\ c \in Nat /\ HeadEnd <= c /\ c <= Len(Stream)
      /\ request.length \in Nat /\ Len(Stream) = HeadEnd + request.length
  <2>1. Fields \in Nat /\ request.length \in Nat /\ Len(Stream) = HeadEnd + request.length
    BY LayoutIs
  <2>2. HeadEnd \in Nat
    <3>1. 0 \in 0 .. Fields
      BY <2>1
    <3> QED BY <3>1, LineIn
  <2> QED BY <2>1, <2>2
<1>2. ValidMap(headers) /\ Gathered(headers, Fields, {})
  BY DEF HeadersDone, ParseOK, BuilderInv
<1>3. ContentLength = request.length
  BY <1>2, LengthIs
<1>4. contentSize \in Nat
  BY DEF ParseOK
<1>5. /\ headers' = [f \in DOMAIN headers \ {<<"content-length">>} |-> headers[f]]
      /\ contentSize' = IF request.length >= contentSize THEN request.length + 1 ELSE contentSize
      /\ content' = First(Part(HeadEnd, c), request.length)
      /\ isContentSet' = TRUE /\ remainingBuf' = NoBuf
      /\ Returns(k) /\ UNCHANGED <<isRequestLineSet, areHeadersSet>>
  BY <1>3 DEF SetContent
<1>6. content' = Part(HeadEnd, c)
  <2>1. Part(HeadEnd, c) \in Seq(Token) /\ Len(Part(HeadEnd, c)) = c - HeadEnd
    BY <1>1, PartBytes
  <2>2. Len(Part(HeadEnd, c)) <= request.length
    BY <1>1, <2>1
  <2> QED BY <1>1, <1>5, <2>1, <2>2, FirstIs
<1>7. request.length < contentSize'
  <2>1. request.length >= contentSize \/ request.length < contentSize
    BY <1>1, <1>4
  <2> QED BY <1>1, <1>4, <1>5, <2>1
<1>8. outcome' = "ok" /\ ~Running' /\ ~continueProcessing'
  BY <1>5, ReturnsWithout
<1>9. Gathered(headers', Fields, {<<"content-length">>})
  BY <1>2, <1>5, LengthPopped
<1>10. ContentBegun'
  <2>1. isRequestLineSet' /\ areHeadersSet' /\ isContentSet'
    BY <1>5 DEF HeadersDone
  <2> QED BY <1>1, <1>5, <1>6, <1>7, <1>8, <1>9, <2>1, ContentBegunNext
<1> QED BY <1>8, <1>10 DEF Progress

(* What has been declared has room for all that is sent.                   *)
LEMMA ContentAppended ==
  ASSUME request \in Requests, ParseOK, ContentBegun, taken \in Nat, Len(Stream) \in Nat,
         NEW c \in Nat, taken < c, c <= Len(Stream), taken' = c, request' = request,
         AppendContent(Part(taken, c), c - taken)
  PROVE  outcome' = "ok" /\ Progress'
<1>1. /\ HeadEnd \in Nat /\ HeadEnd <= taken /\ taken <= c /\ taken <= Len(Stream)
      /\ request.length \in Nat /\ Len(Stream) = HeadEnd + request.length
  <2>1. Fields \in Nat /\ request.length \in Nat /\ Len(Stream) = HeadEnd + request.length
    BY LayoutIs
  <2>2. HeadEnd \in Nat
    <3>1. 0 \in 0 .. Fields
      BY <2>1
    <3> QED BY <3>1, LineIn
  <2>3. taken >= HeadEnd
    BY DEF ContentBegun
  <2> QED BY <2>1, <2>2, <2>3
<1>2. contentSize \in Nat /\ request.length < contentSize /\ content = Part(HeadEnd, taken)
  BY DEF ContentBegun, ParseOK
<1>3. First(Part(taken, c), c - taken) = Part(taken, c)
  <2>1. Part(taken, c) \in Seq(Token) /\ Len(Part(taken, c)) = c - taken
    BY <1>1, PartBytes
  <2>2. Len(Part(taken, c)) <= c - taken /\ c - taken \in Nat
    BY <1>1, <2>1
  <2> QED BY <2>1, <2>2, FirstIs
<1>4. content \o First(Part(taken, c), c - taken) = Part(HeadEnd, c)
  <2>1. Part(HeadEnd, taken) \o Part(taken, c) = Part(HeadEnd, c)
    BY <1>1, PartJoin
  <2> QED BY <1>2, <1>3, <2>1
<1>5. ~ (Len(Part(HeadEnd, c)) >= contentSize)
  <2>1. HeadEnd <= c
    BY <1>1
  <2>2. Len(Part(HeadEnd, c)) = c - HeadEnd
    BY <1>1, <2>1, PartBytes
  <2> QED BY <1>1, <1>2, <2>2
<1>6. /\ content' = Part(HeadEnd, c) /\ remainingBuf' = NoBuf /\ Returns(c - taken)
      /\ UNCHANGED <<isRequestLineSet, areHeadersSet, isContentSet,
                     headers, contentSize, declared>>
  BY <1>4, <1>5 DEF AppendContent
<1>7. outcome' = "ok" /\ ~Running' /\ ~continueProcessing'
  BY <1>6, ReturnsWithout
<1>8. ContentBegun'
  <2>1. /\ isRequestLineSet' /\ areHeadersSet' /\ isContentSet'
        /\ request.length < contentSize' /\ Gathered(headers', Fields, {<<"content-length">>})
    BY <1>6 DEF ContentBegun
  <2>2. c >= HeadEnd
    BY <1>1
  <2> QED BY <1>6, <1>7, <2>1, <2>2, ContentBegunNext
<1> QED BY <1>7, <1>8 DEF Progress

----------------------------------------------------------------------------
(* Every step of the parser.                                               *)

(* A call of processRequestChunk, on what has just been received or on     *)
(* nothing, from each point it may begin at.                               *)
LEMMA CallTaken ==
  ASSUME ParserInv, OnCourse, Regular, ~Running,
         NEW c \in Cuts(request), c # LineEnd(Fields + 1), NEW k \in Nat,
         taken <= c, c <= Len(Stream),
         taken' = c, request' = request, ProcessRequestChunk(Part(taken, c), k),
         \/ ~continueProcessing /\ taken < c /\ k = c - taken
         \/ continueProcessing /\ taken = c /\ k = n
  PROVE  outcome' = "ok" /\ Progress'
<1>1. /\ request \in Requests /\ ParseOK /\ ~anyCut /\ outcome = "ok" /\ Progress /\ taken \in Nat
      /\ Len(Stream) \in Nat /\ Len(Stream) < BufSize /\ Fields \in Nat \ {0}
  BY RegularIs
<1>2. c \in Nat /\ taken <= Len(Stream) /\ taken <= taken
  <2>1. c \in 0 .. Len(Stream)
    BY <1>1, CutsIs DEF Stream
  <2> QED BY <1>1, <2>1
<1>3. Nothing \/ (\E j \in 1 .. Fields : ReadTo(j)) \/ HeadersDone \/ ContentBegun
  BY <1>1 DEF Progress
<1>4. CASE Nothing
  <2>1. /\ taken = 0 /\ remainingBuf = NoBuf /\ ~isRequestLineSet /\ k = c - 0
        /\ 0 \in Nat /\ 0 <= 0 /\ 0 <= c /\ c - 0 = c
    BY <1>2, <1>4 DEF Nothing
  <2>2. ProcessRequestChunk(Part(0, c), k)
    BY <2>1
  <2>3. ParseRequestLine(Part(0, c), k)
    BY <1>1, <1>2, <2>1, <2>2, Called
  <2> QED BY <1>1, <1>4, <2>1, <2>3, RequestLineTaken
<1>5. CASE \E j \in 1 .. Fields : ReadTo(j)
  <2>1. PICK j \in 1 .. Fields : ReadTo(j)
    BY <1>5
  <2>2. LineEnd(j) \in Nat
    <3>1. j \in Nat
      BY <1>1
    <3> QED BY <1>1, <3>1, LineEndNat
  <2>3. /\ isRequestLineSet /\ ~areHeadersSet /\ ~isContentSet /\ content = <<>>
        /\ taken >= LineEnd(j) /\ remainingBuf = Part(LineEnd(j), taken)
        /\ continueProcessing <=> taken > LineEnd(j)
        /\ continueProcessing => taken - LineEnd(j) <= n
        /\ headers = NoMap => j = 1
        /\ headers # NoMap => Gathered(headers, j - 1, {})
    BY <2>1 DEF ReadTo
  <2>4. LineEnd(j) <= taken /\ LineEnd(j) < c /\ c - LineEnd(j) <= k
    <3>1. CASE ~continueProcessing /\ taken < c /\ k = c - taken
      <4>1. LineEnd(j) = taken
        BY <1>1, <2>2, <2>3, <3>1
      <4> QED BY <1>1, <1>2, <3>1, <4>1
    <3>2. CASE continueProcessing /\ taken = c /\ k = n
      BY <1>1, <1>2, <2>2, <2>3, <3>2
    <3> QED BY <3>1, <3>2
  <2>5. ParseHeaders(Part(LineEnd(j), c), k)
    <3>1. ASSUME NEW a \in Nat, a = LineEnd(j) PROVE ParseHeaders(Part(a, c), k)
      <4>1. remainingBuf = Part(a, taken) /\ a <= taken /\ isRequestLineSet /\ ~areHeadersSet
        BY <2>3, <2>4, <3>1
      <4> QED BY <1>1, <1>2, <4>1, Called
    <3> QED BY <2>2, <3>1
  <2>6. Fields \in Nat
    BY <1>1
  <2> QED BY <1>1, <1>2, <2>3, <2>4, <2>5, <2>6, HeadersBegun
<1>6. CASE HeadersDone
  <2>1. /\ isRequestLineSet /\ areHeadersSet /\ ~isContentSet
        /\ taken >= HeadEnd /\ remainingBuf = Part(HeadEnd, taken)
    BY <1>6 DEF HeadersDone
  <2>2. HeadEnd \in Nat
    <3>1. 0 \in 0 .. Fields
      BY <1>1
    <3> QED BY <1>1, <3>1, LineIn
  <2>3. HeadEnd <= taken /\ c \in HeadEnd .. Len(Stream)
    BY <1>1, <1>2, <2>1, <2>2
  <2>4. SetContent(Part(HeadEnd, c), k)
    <3>1. ASSUME NEW a \in Nat, a = HeadEnd PROVE SetContent(Part(a, c), k)
      <4>1. /\ remainingBuf = Part(a, taken) /\ a <= taken
            /\ isRequestLineSet /\ areHeadersSet /\ ~isContentSet
        BY <2>1, <2>3, <3>1
      <4> QED BY <1>1, <1>2, <4>1, Called
    <3> QED BY <2>2, <3>1
  <2> QED BY <1>1, <1>6, <2>3, <2>4, ContentSet
<1>7. CASE ContentBegun
  <2>1. /\ isRequestLineSet /\ areHeadersSet /\ isContentSet
        /\ remainingBuf = NoBuf /\ ~continueProcessing
    BY <1>7 DEF ContentBegun
  <2>2. taken < c /\ k = c - taken
    BY <2>1
  <2>3. AppendContent(Part(taken, c), c - taken)
    BY <1>1, <1>2, <2>1, <2>2, Called
  <2> QED BY <1>1, <1>2, <1>7, <2>2, <2>3, ContentAppended
<1> QED BY <1>3, <1>4, <1>5, <1>6, <1>7

LEMMA ProgressSame ==
  ASSUME UNCHANGED <<request, anyCut, taken, parseVars>>
  PROVE  Progress' = Progress
  BY DEF parseVars, builderVars, requestVars, callVars, Progress, Running, Nothing, ReadTo, Reads,
         HeadersDone, ContentBegun, Part, Stream, LineEnd, Gathered, NameOf, Place, Fields, HeadEnd,
         EndOf

(* Where the header lines end.                                             *)
LEMMA HeadWithoutBlank ==
  ASSUME request \in Requests
  PROVE  HeadLen(request) - Len(request.eol) = LineEnd(Fields + 1)
<1>1. HeadEnd = LineEnd(Fields + 1) + Len(EndOf) /\ Len(EndOf) \in 1 .. 2 /\ Fields + 1 \in Nat
  <2>1. HeadEnd = LineEnd(Fields + 1) + Len(EndOf) /\ Len(EndOf) \in 1 .. 2 /\ Fields \in Nat
    BY LayoutIs
  <2> QED BY <2>1
<1>2. PICK e \in 1 .. 2 : e = Len(EndOf)
  BY <1>1
<1>3. PICK w \in Nat : w = LineEnd(Fields + 1)
  BY <1>1, LineEndNat
<1>4. HeadEnd = w + e
  BY <1>1, <1>2, <1>3
<1>5. HeadEnd - e = w
  BY <1>4
<1> QED BY <1>2, <1>3, <1>5 DEF HeadEnd, EndOf

(* A recv() that does not end just before the blank line keeps the course. *)
LEMMA OnCourseStep ==
  ASSUME ParserInv, OnCourse, Regular, [Next]_vars, ~BlankLineApart'
  PROVE  OnCourse'
<1> SUFFICES /\ outcome' = "ok"
             /\ {sent', taken'} \subseteq {0} \cup Cuts(request)'
             /\ Progress'
  BY DEF OnCourse
<1>1. UNCHANGED <<request, anyCut>>
  BY DEF Next, vars, Arrive, Recv, ProcessRemaining, ReadHeader, HeadersRead, Answer
<1>2. Cuts(request)' = Cuts(request)
  BY <1>1 DEF Cuts
<1>3. /\ request \in Requests /\ ParseOK /\ outcome = "ok" /\ Progress
      /\ sent \in Nat /\ taken \in Nat /\ taken <= sent /\ sent <= Len(Stream)
      /\ Len(Stream) \in Nat /\ Len(Stream) < BufSize /\ Fields \in Nat \ {0}
      /\ {sent, taken} \subseteq {0} \cup Cuts(request)
  BY RegularIs
<1>4. taken <= Len(Stream)
  BY <1>3
<1>0. taken' # LineEnd(Fields + 1)
  BY <1>1, <1>3, HeadWithoutBlank DEF BlankLineApart
<1>5. CASE Arrive
  <2>1. sent' \in Cuts(request) /\ UNCHANGED <<request, anyCut, taken, parseVars>>
    BY <1>5 DEF Arrive
  <2>2. Progress' /\ outcome' = "ok"
    BY <1>3, <2>1, ProgressSame DEF parseVars
  <2> QED BY <1>2, <1>3, <2>1, <2>2
<1>6. CASE Recv
  <2>1. /\ ~Running /\ ~continueProcessing /\ taken' = sent /\ taken < sent
        /\ sent \in Cuts(request)
        /\ ProcessRequestChunk(Part(taken, sent), sent - taken)
        /\ UNCHANGED <<request, anyCut, sent>>
    BY <1>6, RecvTakes
  <2>2. sent - taken \in Nat
    BY <1>3
  <2>3. outcome' = "ok" /\ Progress'
    <3>1. sent # LineEnd(Fields + 1)
      BY <1>0, <2>1
    <3> QED BY <1>3, <2>1, <2>2, <3>1, CallTaken
  <2> QED BY <1>2, <2>1, <2>3
<1>7. CASE ProcessRemaining
  <2>1. continueProcessing /\ ~Running /\ ProcessRequestChunk(<<>>, n) /\ UNCHANGED <<request, sent, taken>>
    BY <1>7 DEF ProcessRemaining
  <2>2. n \in Nat
    BY <1>3, RequestParsingAssumption DEF ParseOK
  <2>3. ProcessRequestChunk(Part(taken, taken), n)
    BY <1>3, <1>4, <2>1, PartNone
  <2>4. taken \in Cuts(request)
    <3> SUFFICES ASSUME taken = 0 PROVE FALSE
      BY <1>3
    <3>1. Nothing \/ (\E j \in 1 .. Fields : ReadTo(j)) \/ HeadersDone \/ ContentBegun
      BY <1>3, <2>1 DEF Progress
    <3>2. ~Nothing /\ ~ContentBegun
      BY <2>1 DEF Nothing, ContentBegun
    <3>3. ASSUME NEW j \in 1 .. Fields, ReadTo(j) PROVE FALSE
      <4>1. LineEnd(j) \in Nat
        <5>1. j \in Nat
          BY <1>3
        <5> QED BY <1>3, <5>1, LineEndNat
      <4>2. taken > LineEnd(j)
        BY <2>1, <3>3 DEF ReadTo
      <4> QED BY <4>1, <4>2
    <3>4. ~HeadersDone
      <4>1. HeadEnd \in Nat
        <5>1. 0 \in 0 .. Fields
          BY <1>3
        <5> QED BY <1>3, <5>1, LineIn
      <4>2. HeadersDone => taken > HeadEnd
        BY <2>1 DEF HeadersDone
      <4> QED BY <4>1, <4>2
    <3> QED BY <3>1, <3>2, <3>3, <3>4
  <2>5. outcome' = "ok" /\ Progress'
    <3>1. taken <= taken /\ taken # LineEnd(Fields + 1)
      BY <1>0, <1>3, <2>1
    <3> QED BY <1>3, <1>4, <2>1, <2>2, <2>3, <2>4, <3>1, CallTaken
  <2> QED BY <1>2, <1>3, <2>1, <2>5
<1>8. ASSUME Running
      PROVE  \E j \in 1 .. Fields : \E l \in j + 1 .. Fields + 1 : \E i \in j .. l : Reads(j, l, i)
  BY <1>3, <1>8 DEF Progress
<1>9. CASE ReadHeader
  <2>1. Running /\ ~AtEnd /\ UNCHANGED <<sent, taken>>
    BY <1>9 DEF ReadHeader
  <2>2. PICK j \in 1 .. Fields : \E l \in j + 1 .. Fields + 1 : \E i \in j .. l : Reads(j, l, i)
    BY <1>8, <2>1
  <2>3. PICK l \in j + 1 .. Fields + 1 : \E i \in j .. l : Reads(j, l, i)
    BY <2>2
  <2>4. PICK i \in j .. l : Reads(j, l, i)
    BY <2>3
  <2>5. i \in j .. l - 1
    BY <1>3, <1>4, <2>1, <2>4, EndsThere
  <2>6. outcome' = "ok" /\ Progress'
    BY <1>3, <1>4, <1>9, <2>1, <2>4, <2>5, HeaderTaken
  <2> QED BY <1>2, <1>3, <2>1, <2>6
<1>10. CASE HeadersRead
  <2>1. Running /\ UNCHANGED <<sent, taken>>
    BY <1>10 DEF HeadersRead
  <2>2. PICK j \in 1 .. Fields : \E l \in j + 1 .. Fields + 1 : \E i \in j .. l : Reads(j, l, i)
    BY <1>8, <2>1
  <2>3. PICK l \in j + 1 .. Fields + 1 : \E i \in j .. l : Reads(j, l, i)
    BY <2>2
  <2>4. PICK i \in j .. l : Reads(j, l, i)
    BY <2>3
  <2>5. outcome' = "ok" /\ Progress'
    BY <1>3, <1>4, <1>10, <2>1, <2>4, HeadersTaken
  <2> QED BY <1>2, <1>3, <2>1, <2>5
<1>11. CASE Answer \/ UNCHANGED vars
  <2>1. UNCHANGED <<request, anyCut, taken, parseVars>> /\ sent' = sent
    BY <1>11 DEF Answer, vars
  <2>2. Progress' /\ outcome' = "ok"
    BY <1>3, <2>1, ProgressSame DEF parseVars
  <2> QED BY <1>2, <1>3, <2>1, <2>2
<1> QED BY <1>5, <1>6, <1>7, <1>9, <1>10, <1>11 DEF Next

----------------------------------------------------------------------------
(* What becomes of a request, of any kind and however it is cut, when a    *)
(* recv() ends just before its blank line.                                 *)

(* No blank line has been found, nor is there one in what is kept.         *)
Unfound ==
  /\ ~areHeadersSet /\ rest = NoBuf
  /\ NoBlank(Text(text)) /\ NoBlank(Text(remainingBuf))

LEMMA NoTextNoBlank == Text(NoBuf) = <<>> /\ NoBlank(<<>>)
  BY DEF Text, NoBlank

(* A call that is over, having kept some of such a text.                   *)
LEMMA UnfoundKept ==
  ASSUME NEW k, NEW buf \in Seq(Token), NoBlank(buf), remainingBuf' = buf, Returns(k),
         ~areHeadersSet'
  PROVE  Unfound'
<1>1. text' = NoBuf /\ rest' = NoBuf
  BY DEF Returns, Leaves
<1>2. Text(remainingBuf') = buf
  BY NoBufApart DEF Text
<1> QED BY <1>1, <1>2, NoTextNoBlank DEF Unfound

(* A call, or a line, that ends the process.                               *)
LEMMA UnfoundDies ==
  ASSUME Unfound, NEW how, NEW k, Dies(how, k)
  PROVE  Unfound'
<1>1. text' = NoBuf /\ rest' = NoBuf /\ UNCHANGED <<areHeadersSet, remainingBuf>>
  BY DEF Dies, Leaves, builderVars
<1> QED BY <1>1, NoTextNoBlank DEF Unfound

(* A call of processRequestChunk on such a text finds none.                *)
LEMMA UnfoundCall ==
  ASSUME ParseOK, Unfound, NEW chunk \in Seq(Token), NEW k \in Nat,
         NoBlank(Text(remainingBuf) \o chunk), ProcessRequestChunk(chunk, k)
  PROVE  Unfound'
<1> DEFINE buf == Text(remainingBuf) \o chunk
<1>1. buf \in Seq(Token) /\ NoBlank(buf)
  BY TextIs, ConcatProperties
<1>2. ~areHeadersSet
  BY DEF Unfound
<1>3. \/ Dies("prependOverflow", k)
      \/ ParseRequestLine(buf, k)
      \/ ParseHeaders(buf, k)
  <2>1. isRequestLineSet \in BOOLEAN
    BY DEF ParseOK
  <2>2. CASE Len(buf) >= BufSize
    BY <2>2 DEF ProcessRequestChunk
  <2>3. CASE ~ (Len(buf) >= BufSize) /\ ~isRequestLineSet
    BY <2>3 DEF ProcessRequestChunk
  <2>4. CASE ~ (Len(buf) >= BufSize) /\ isRequestLineSet
    BY <1>2, <2>4 DEF ProcessRequestChunk
  <2> QED BY <2>1, <2>2, <2>3, <2>4
<1> HIDE DEF buf
<1>4. CASE Dies("prependOverflow", k)
  BY <1>4, UnfoundDies
<1>5. CASE ParseRequestLine(buf, k)
  <2> DEFINE line == Upto(buf, {"LF"})
             kept == First(From(buf, Len(line) + 2), k)
  <2>1. \/ Dies(RequestLine(line), k)
        \/ Dies("overread", k)
        \/ remainingBuf' = kept /\ Returns(k) /\ UNCHANGED areHeadersSet
    BY <1>5 DEF ParseRequestLine
  <2>2. Len(line) + 2 \in Nat \ {0}
    <3>1. Len(line) \in Nat
      BY <1>1, UptoIs, LenProperties
    <3> HIDE DEF line
    <3> QED BY <3>1
  <2>3. kept \in Seq(Token) /\ NoBlank(kept)
    <3> HIDE DEF line
    <3>1. From(buf, Len(line) + 2) \in Seq(Token) /\ NoBlank(From(buf, Len(line) + 2))
      BY <1>1, <2>2, NoBlankFrom
    <3> QED BY <3>1, NoBlankFirst
  <2> HIDE DEF line, kept
  <2>4. CASE remainingBuf' = kept /\ Returns(k) /\ UNCHANGED areHeadersSet
    BY <1>2, <2>3, <2>4, UnfoundKept
  <2> QED BY <2>1, <2>4, UnfoundDies
<1>6. CASE ParseHeaders(buf, k)
  <2>1. BlankLine(buf).at = 0
    BY <1>1, NoBlankFound
  <2>2. /\ text' = Cut(buf, LastLf(buf)) /\ rest' = NoBuf
        /\ UNCHANGED <<areHeadersSet, remainingBuf>>
    BY <1>6, <2>1 DEF ParseHeaders, LastLf, builderVars
  <2>3. LastLf(buf) \in 0 .. Len(buf)
    BY <1>1, LastLfIs
  <2>4. text' \in Seq(Token) /\ NoBlank(text')
    BY <1>1, <2>2, <2>3, CutIs, NoBlankCut
  <2>5. Text(text') = text'
    BY <2>4, NoBufApart DEF Text
  <2> QED BY <2>2, <2>4, <2>5 DEF Unfound
<1> QED BY <1>3, <1>4, <1>5, <1>6

(* Nor does the end of a call that reads headers: what it keeps begins one *)
(* byte further.                                                           *)
LEMMA UnfoundHeadersRead ==
  ASSUME ParseOK, Unfound, HeadersRead
  PROVE  Unfound'
<1> DEFINE stop == IF AtEnd THEN at ELSE at + 2
           kept == First(OneFurther(text, stop), chunkSize)
<1>1. rest = NoBuf /\ ~areHeadersSet
  BY DEF Unfound
<1>2. \/ Dies("overread", chunkSize)
      \/ areHeadersSet' = (rest # NoBuf) /\ remainingBuf' = kept /\ Returns(chunkSize)
  BY <1>1 DEF HeadersRead
<1>3. stop \in Nat /\ chunkSize \in Nat
  BY RequestParsingAssumption DEF ParseOK
<1>4. text \in Seq(Token) /\ NoBlank(text)
  <2>1. text \in Seq(Token)
    BY DEF HeadersRead, Running, ParseOK
  <2>2. Text(text) = text
    BY <2>1, NoBufApart DEF Text
  <2> QED BY <2>1, <2>2 DEF Unfound
<1>5. kept \in Seq(Token) /\ NoBlank(kept)
  <2> HIDE DEF stop
  <2>1. OneFurther(text, stop) \in Seq(Token) /\ NoBlank(OneFurther(text, stop))
    BY <1>3, <1>4, NoBlankFurther
  <2> QED BY <1>3, <2>1, NoBlankFirst
<1> HIDE DEF kept, stop
<1>6. CASE Dies("overread", chunkSize)
  BY <1>6, UnfoundDies
<1>7. CASE areHeadersSet' = (rest # NoBuf) /\ remainingBuf' = kept /\ Returns(chunkSize)
  BY <1>1, <1>5, <1>7, UnfoundKept
<1> QED BY <1>2, <1>6, <1>7

(* Every step takes up where the one before it ended.                      *)
LEMMA TakenGrows ==
  ASSUME ParserInv, [Next]_vars
  PROVE  /\ request \in Requests /\ request' = request
         /\ taken \in Nat /\ taken' \in Nat /\ taken <= taken' /\ taken' <= Len(Stream)
         /\ Len(Stream) \in Nat /\ LineEnd(Fields + 1) \in Nat
<1>1. request' = request
  BY DEF Next, vars, Arrive, Recv, ProcessRemaining, ReadHeader, HeadersRead, Answer
<1>2. /\ request \in Requests /\ taken \in 0 .. sent /\ sent \in 0 .. Len(Stream)
      /\ taken' \in 0 .. sent' /\ sent' \in 0 .. Len(Stream)
  <2>1. EnvOK /\ EnvOK'
    BY StepIs DEF ParserInv
  <2> QED BY <1>1, <2>1 DEF EnvOK, Stream
<1>3. Len(Stream) \in Nat /\ LineEnd(Fields + 1) \in Nat
  <2>1. Fields \in Nat
    BY <1>2, LayoutIs
  <2>2. Fields + 1 \in Nat /\ 0 \in 0 .. Fields
    BY <2>1
  <2> QED BY <1>2, <2>2, LineIn, LineEndNat
<1>4. taken <= taken'
  <2>1. CASE Recv
    <3>1. taken < sent /\ taken' = taken + IF sent - taken < BufSize THEN sent - taken ELSE BufSize - 1
      BY <2>1 DEF Recv
    <3> QED BY <1>2, <1>3, <3>1, RequestParsingAssumption
  <2>2. CASE ~Recv
    <3>1. taken' = taken
      BY <2>2 DEF Next, vars, Arrive, ProcessRemaining, ReadHeader, HeadersRead, Answer
    <3> QED BY <1>2, <1>3, <3>1
  <2> QED BY <2>1, <2>2
<1> QED BY <1>1, <1>2, <1>3, <1>4

(* At a recv() nothing is left of the text of the calls before it.         *)
LEMMA RecvKeepsNothing ==
  ASSUME ParserInv, Proved!LoopInv, Recv
  PROVE  /\ Text(remainingBuf) = <<>>
         /\ ProcessRequestChunk(Part(taken, taken'), taken' - taken) /\ taken < taken'
<1>1. remainingBuf \in Seq(Token) \cup {NoBuf} /\ outcome = "ok" /\ ~continueProcessing
  BY DEF Recv, Reading, ParserInv, ParseOK
<1>2. (IF remainingBuf = NoBuf THEN -1 ELSE Len(remainingBuf)) \in {-1, 0}
  BY <1>1 DEF Proved!LoopInv, Proved!TextLeftOver, Proved!NoBuf
<1>3. Text(remainingBuf) = <<>>
  <2>1. CASE remainingBuf = NoBuf
    BY <2>1 DEF Text
  <2>2. CASE remainingBuf # NoBuf
    <3>1. remainingBuf \in Seq(Token) /\ Len(remainingBuf) = 0
      BY <1>1, <1>2, <2>2, LenProperties
    <3> QED BY <2>2, <3>1, EmptySeq DEF Text
  <2> QED BY <2>1, <2>2
<1>4. taken \in Nat /\ sent \in Nat
  <2>1. EnvOK
    BY DEF ParserInv
  <2>2. taken \in 0 .. sent /\ sent \in 0 .. Len(Stream)
    BY <2>1 DEF EnvOK, Stream
  <2> QED BY <2>2
<1>5. PICK k \in Nat : /\ k >= 1 /\ taken' = taken + k
                       /\ ProcessRequestChunk(SubSeq(StreamOf(request), taken + 1, taken + k), k)
  <2> DEFINE k == IF sent - taken < BufSize THEN sent - taken ELSE BufSize - 1
  <2>1. k \in Nat /\ k >= 1
    BY <1>4, RequestParsingAssumption DEF Recv
  <2>2. /\ taken' = taken + k
        /\ ProcessRequestChunk(SubSeq(StreamOf(request), taken + 1, taken + k), k)
    BY DEF Recv
  <2> QED BY <2>1, <2>2
<1>6. k = taken' - taken /\ taken < taken'
  BY <1>4, <1>5
<1> QED BY <1>3, <1>5, <1>6 DEF Part, Stream

LEMMA DifferenceNat ==
  ASSUME NEW a \in Nat, NEW b \in Nat, a <= b
  PROVE  b - a \in Nat
  OBVIOUS

(* A recv() of what lies on one side of the blank line's start does not let*)
(* it be found.                                                            *)
LEMMA UnfoundStep ==
  ASSUME ParserInv, Proved!LoopInv, Unfound, [Next]_vars,
         taken' <= LineEnd(Fields + 1) \/ taken >= LineEnd(Fields + 1)
  PROVE  Unfound'
<1>1. /\ request \in Requests /\ ParseOK
      /\ taken \in Nat /\ taken' \in Nat /\ taken <= taken' /\ taken' <= Len(Stream)
  BY TakenGrows DEF ParserInv
<1>2. CASE Recv
  <2>1. /\ Text(remainingBuf) = <<>>
        /\ ProcessRequestChunk(Part(taken, taken'), taken' - taken) /\ taken < taken'
    BY <1>2, RecvKeepsNothing
  <2>2. Part(taken, taken') \in Seq(Token) /\ NoBlank(Part(taken, taken')) /\ taken' - taken \in Nat
    <3> SUFFICES ASSUME NEW b \in Nat, b = taken'
                 PROVE  Part(taken, b) \in Seq(Token) /\ NoBlank(Part(taken, b)) /\ b - taken \in Nat
      BY <1>1
    <3>1. taken \in Nat /\ taken <= b /\ b <= Len(Stream)
      BY <1>1
    <3>3. b - taken \in Nat
      BY <3>1, DifferenceNat
    <3>2. b <= LineEnd(Fields + 1) \/ taken >= LineEnd(Fields + 1)
      OBVIOUS
    <3> QED BY <1>1, <3>1, <3>2, <3>3, PartBytes, NoBlankPart
  <2>3. Text(remainingBuf) \o Part(taken, taken') = Part(taken, taken')
    BY <2>1, <2>2, ConcatEmptySeq
  <2> HIDE DEF Part
  <2> QED BY <1>1, <2>1, <2>2, <2>3, UnfoundCall
<1>3. CASE ProcessRemaining
  <2>1. ProcessRequestChunk(<<>>, n) /\ n \in Nat /\ <<>> \in Seq(Token)
    BY <1>1, <1>3, RequestParsingAssumption DEF ProcessRemaining, ParseOK
  <2>2. Text(remainingBuf) \o <<>> = Text(remainingBuf)
    BY <1>1, TextIs, ConcatEmptySeq
  <2>3. NoBlank(Text(remainingBuf) \o <<>>)
    BY <2>2 DEF Unfound
  <2> QED BY <1>1, <2>1, <2>3, UnfoundCall
<1>4. CASE ReadHeader
  <2>1. Dies("nullDeref", chunkSize) \/ UNCHANGED <<text, rest, areHeadersSet, remainingBuf>>
    BY <1>4 DEF ReadHeader, builderVars
  <2>2. CASE UNCHANGED <<text, rest, areHeadersSet, remainingBuf>>
    BY <2>2 DEF Unfound
  <2> QED BY <2>1, <2>2, UnfoundDies
<1>5. CASE HeadersRead
  BY <1>1, <1>5, UnfoundHeadersRead
<1>6. CASE Arrive \/ Answer \/ UNCHANGED vars
  <2>1. UNCHANGED <<text, rest, areHeadersSet, remainingBuf>>
    BY <1>6 DEF Arrive, Answer, vars, parseVars, builderVars, callVars
  <2> QED BY <2>1 DEF Unfound
<1> QED BY <1>2, <1>3, <1>4, <1>5, <1>6 DEF Next

(* No blank line is found before it has been received...                   *)
HeadInv == taken <= LineEnd(Fields + 1) => Unfound

(* ...and none is found once a recv() has ended just before it.            *)
Missed == taken >= LineEnd(Fields + 1) /\ Unfound

LEMMA SameLayout ==
  ASSUME request' = request
  PROVE  LineEnd(Fields + 1)' = LineEnd(Fields + 1)
  BY DEF LineEnd, Fields

LEMMA HeadInit ==
  ASSUME Init
  PROVE  HeadInv
<1>1. ~areHeadersSet /\ rest = NoBuf /\ text = NoBuf /\ remainingBuf = NoBuf
  BY DEF Init
<1> QED BY <1>1, NoTextNoBlank DEF HeadInv, Unfound

LEMMA HeadStep ==
  ASSUME ParserInv, Proved!LoopInv, HeadInv, [Next]_vars
  PROVE  HeadInv'
<1>1. /\ LineEnd(Fields + 1)' = LineEnd(Fields + 1) /\ LineEnd(Fields + 1) \in Nat
      /\ taken \in Nat /\ taken' \in Nat /\ taken <= taken'
  BY TakenGrows, SameLayout
<1> SUFFICES ASSUME taken' <= LineEnd(Fields + 1) PROVE Unfound'
  BY <1>1 DEF HeadInv
<1>2. taken <= LineEnd(Fields + 1)
  BY <1>1
<1>3. Unfound
  BY <1>2 DEF HeadInv
<1> QED BY <1>3, UnfoundStep

LEMMA MissedStep ==
  ASSUME ParserInv, Proved!LoopInv, Missed, [Next]_vars
  PROVE  Missed'
<1>1. /\ LineEnd(Fields + 1)' = LineEnd(Fields + 1) /\ LineEnd(Fields + 1) \in Nat
      /\ taken \in Nat /\ taken' \in Nat /\ taken <= taken'
  BY TakenGrows, SameLayout
<1>2. taken >= LineEnd(Fields + 1) /\ taken' >= LineEnd(Fields + 1)
  BY <1>1 DEF Missed
<1>3. Unfound'
  BY <1>2, UnfoundStep DEF Missed
<1> QED BY <1>1, <1>2, <1>3 DEF Missed

LEMMA ApartMissed == ParserInv /\ HeadInv /\ BlankLineApart => Missed
<1> SUFFICES ASSUME ParserInv, HeadInv, BlankLineApart PROVE Missed
  OBVIOUS
<1>1. request \in Requests /\ taken \in Nat
  <2>1. EnvOK
    BY DEF ParserInv
  <2>2. taken \in 0 .. sent
    BY <2>1 DEF EnvOK
  <2> QED BY <2>1, <2>2 DEF EnvOK
<1>2. taken = LineEnd(Fields + 1)
  <2>1. HeadLen(request) - Len(request.eol) = LineEnd(Fields + 1)
    BY <1>1, HeadWithoutBlank
  <2> QED BY <2>1 DEF BlankLineApart
<1> QED BY <1>1, <1>2 DEF Missed, HeadInv

----------------------------------------------------------------------------
(* What becomes of a request without headers, of which no line is cut.     *)

WithoutHeaders == ~anyCut /\ request.fields = <<>> /\ Len(StreamOf(request)) < BufSize

(* Its first recv() takes the whole request line, and what is kept of it   *)
(* begins with the blank line.                                             *)
BareInv ==
  /\ Unfound
  /\ sent = 0 \/ sent >= LineEnd(1)
  /\ taken = 0 => Nothing /\ ~Running
  /\ taken = 0 \/ taken >= LineEnd(1)

LEMMA BareIs ==
  ASSUME ParserInv, WithoutHeaders
  PROVE  /\ request \in Requests /\ Fields = 0 /\ LineEnd(1) \in Nat /\ LineEnd(1) # 0
         /\ LineEnd(Fields + 1) = LineEnd(1)
         /\ sent \in Nat /\ taken \in Nat /\ taken <= sent /\ sent <= Len(Stream)
         /\ Len(Stream) \in Nat /\ Len(Stream) < BufSize
<1>1. /\ request \in Requests /\ taken \in 0 .. sent /\ sent \in 0 .. Len(Stream)
  <2>1. EnvOK
    BY DEF ParserInv
  <2> QED BY <2>1 DEF EnvOK, Stream
<1>2. Fields = 0
  BY DEF WithoutHeaders, Fields
<1>3. /\ LineEnd(0 + 1) = LineEnd(0) + 3 + Len(EndOf) /\ LineEnd(0) = 0 /\ Len(EndOf) \in 1 .. 2
      /\ Len(Stream) \in Nat
  <2>1. 0 \in 0 .. Fields
    BY <1>2
  <2> QED BY <1>1, <2>1, LineIn
<1>4. LineEnd(1) \in Nat /\ LineEnd(1) # 0
  <2>1. PICK e \in 1 .. 2 : e = Len(EndOf)
    BY <1>3
  <2>2. LineEnd(0 + 1) = 3 + e /\ 0 + 1 = 1
    BY <1>3, <2>1
  <2>3. LineEnd(1) = 3 + e
    BY <2>2
  <2> QED BY <2>3
<1>5. LineEnd(Fields + 1) = LineEnd(1)
  <2>1. Fields + 1 = 1
    BY <1>2
  <2> QED BY <2>1
<1> QED BY <1>1, <1>2, <1>3, <1>4, <1>5 DEF WithoutHeaders, Stream

(* No segment ends before the request line does.                           *)
LEMMA BareCuts ==
  ASSUME ParserInv, WithoutHeaders, NEW c \in Cuts(request)
  PROVE  c >= LineEnd(1)
<1>1. /\ request \in Requests /\ Fields = 0 /\ LineEnd(1) \in Nat /\ Len(Stream) \in Nat
  BY BareIs
<1>2. /\ LineEnd(0 + 1) + Len(EndOf) <= HeadEnd /\ HeadEnd \in Nat /\ Len(EndOf) \in 1 .. 2
  <2>1. 0 \in 0 .. Fields
    BY <1>1
  <2> QED BY <1>1, <2>1, LineIn
<1>3. LineEnd(1) <= HeadEnd
  <2>1. LineEnd(1) + Len(EndOf) <= HeadEnd
    <3>1. 0 + 1 = 1
      OBVIOUS
    <3> QED BY <1>2, <3>1
  <2> QED BY <1>1, <1>2, <2>1
<1>4. CASE c \in HeadEnd .. Len(Stream)
  BY <1>1, <1>2, <1>3, <1>4
<1>5. CASE c = LineEnd(1)
  BY <1>1, <1>5
<1>6. c = LineEnd(1) \/ c \in HeadEnd .. Len(Stream)
  <2>1. c \in {k * Width(request) : k \in 1 .. Fields + 1} \cup HeadEnd .. Len(Stream)
    BY DEF Cuts, WithoutHeaders, Fields, HeadEnd, Stream
  <2>2. 1 .. Fields + 1 = {1}
    BY <1>1
  <2> QED BY <2>1, <2>2 DEF LineEnd
<1> QED BY <1>4, <1>5, <1>6

LEMMA BareFirst ==
  ASSUME ParserInv, WithoutHeaders, BareInv, Recv, taken = 0
  PROVE  Unfound' /\ taken' = sent /\ sent >= LineEnd(1)
<1>1. /\ request \in Requests /\ LineEnd(1) \in Nat /\ sent \in Nat /\ sent <= Len(Stream)
      /\ Len(Stream) \in Nat /\ Len(Stream) < BufSize
  BY BareIs
<1>2. Nothing /\ ~Running /\ ~areHeadersSet
  BY DEF BareInv, Unfound
<1>3. sent > 0 /\ sent >= LineEnd(1)
  BY <1>1 DEF Recv, BareInv
<1>4. taken' = sent /\ ProcessRequestChunk(Part(0, sent), sent)
  <2>1. LET k == IF sent - taken < BufSize THEN sent - taken ELSE BufSize - 1 IN
          /\ taken' = taken + k
          /\ ProcessRequestChunk(SubSeq(StreamOf(request), taken + 1, taken + k), k)
    BY DEF Recv
  <2>2. (IF sent - taken < BufSize THEN sent - taken ELSE BufSize - 1) = sent /\ taken + sent = sent
    BY <1>1, RequestParsingAssumption
  <2>3. taken' = sent /\ ProcessRequestChunk(SubSeq(StreamOf(request), 0 + 1, sent), sent)
    BY <2>1, <2>2
  <2> QED BY <2>3 DEF Part, Stream
<1>5. ParseRequestLine(Part(0, sent), sent)
  <2>1. remainingBuf = NoBuf /\ ~isRequestLineSet
    BY <1>2 DEF Nothing
  <2>2. 0 \in Nat /\ 0 <= sent
    BY <1>1
  <2> HIDE DEF Part
  <2> QED BY <1>1, <1>4, <2>1, <2>2, Called
<1>6. /\ remainingBuf' = Part(LineEnd(1), sent) /\ Returns(sent) /\ ~areHeadersSet'
  <2>1. sent <= sent /\ LineEnd(1) <= sent
    BY <1>1, <1>3
  <2>2. /\ remainingBuf' = Part(LineEnd(1), sent) /\ Returns(sent)
        /\ UNCHANGED <<areHeadersSet, isContentSet, requestVars>>
    BY <1>1, <1>5, <2>1, RequestLineRead
  <2> QED BY <1>2, <2>2
<1>7. Part(LineEnd(1), sent) \in Seq(Token) /\ NoBlank(Part(LineEnd(1), sent))
  <2>1. LineEnd(1) <= sent /\ LineEnd(1) >= LineEnd(Fields + 1)
    BY <1>1, <1>3, BareIs
  <2> QED BY <1>1, <2>1, PartBytes, NoBlankPart
<1>8. Unfound'
  <2> HIDE DEF Part
  <2> QED BY <1>6, <1>7, UnfoundKept
<1> QED BY <1>3, <1>4, <1>8

LEMMA BareStep ==
  ASSUME ParserInv, Proved!LoopInv, WithoutHeaders, BareInv, [Next]_vars
  PROVE  BareInv'
<1>1. /\ request \in Requests /\ LineEnd(1) \in Nat /\ LineEnd(1) # 0 /\ sent \in Nat /\ taken \in Nat
      /\ LineEnd(Fields + 1) = LineEnd(1)
  BY BareIs
<1>2. request' = request /\ taken' \in Nat /\ taken <= taken'
  BY TakenGrows
<1>3. LineEnd(1)' = LineEnd(1)
  BY <1>2 DEF LineEnd
<1>4. sent' = 0 \/ sent' >= LineEnd(1)
  <2>1. CASE Arrive
    <3>1. sent' \in Cuts(request)
      BY <2>1 DEF Arrive
    <3> QED BY <3>1, BareCuts
  <2>2. CASE ~Arrive
    <3>1. sent' = sent
      BY <2>2 DEF Next, vars, Recv, ProcessRemaining, ReadHeader, HeadersRead, Answer
    <3> QED BY <3>1 DEF BareInv
  <2> QED BY <2>1, <2>2
<1>5. CASE taken >= LineEnd(1)
  <2>1. taken' >= LineEnd(1) /\ taken' # 0
    BY <1>1, <1>2, <1>5
  <2>2. Unfound'
    <3>1. taken >= LineEnd(Fields + 1)
      BY <1>1, <1>5
    <3> QED BY <3>1, UnfoundStep DEF BareInv
  <2> QED BY <1>3, <1>4, <2>1, <2>2 DEF BareInv
<1>6. CASE taken = 0 /\ Recv
  <2>1. Unfound' /\ taken' = sent /\ sent >= LineEnd(1)
    BY <1>6, BareFirst
  <2>2. taken' >= LineEnd(1) /\ taken' # 0
    BY <1>1, <2>1
  <2> QED BY <1>3, <1>4, <2>1, <2>2 DEF BareInv
<1>7. CASE taken = 0 /\ ~Recv
  <2>1. Nothing /\ ~Running /\ Unfound
    BY <1>7 DEF BareInv
  <2>2. UNCHANGED <<taken, parseVars>>
    <3>1. ~ProcessRemaining /\ ~ReadHeader /\ ~HeadersRead
      BY <2>1 DEF Nothing, ProcessRemaining, ReadHeader, HeadersRead
    <3> QED BY <1>7, <3>1 DEF Next, vars, Arrive, Answer
  <2>3. Nothing' /\ ~Running' /\ Unfound'
    BY <2>1, <2>2 DEF Nothing, Running, Unfound, parseVars, builderVars, requestVars, callVars
  <2> QED BY <1>3, <1>4, <1>7, <2>2, <2>3 DEF BareInv
<1> QED BY <1>5, <1>6, <1>7 DEF BareInv

----------------------------------------------------------------------------
(* A regular request as a whole.                                           *)

RegularInv == Regular => OnCourse \/ Missed

LEMMA RegularInit ==
  ASSUME Init
  PROVE  OnCourse
<1>1. /\ sent = 0 /\ taken = 0 /\ outcome = "ok" /\ text = NoBuf
      /\ ~isRequestLineSet /\ ~areHeadersSet /\ ~isContentSet /\ content = <<>>
      /\ remainingBuf = NoBuf /\ headers = NoMap /\ ~continueProcessing
  BY DEF Init
<1>2. ~Running /\ Nothing
  BY <1>1 DEF Running, Nothing
<1>3. Progress
  BY <1>2 DEF Progress
<1> QED BY <1>1, <1>3 DEF OnCourse

LEMMA RegularSame ==
  ASSUME Regular', [Next]_vars
  PROVE  Regular
<1>1. UNCHANGED <<request, anyCut>>
  BY DEF Next, vars, Arrive, Recv, ProcessRemaining, ReadHeader, HeadersRead, Answer
<1> QED BY <1>1 DEF Regular

LEMMA RegularStep ==
  ASSUME ParserInv, ParserInv', Proved!LoopInv, HeadInv', RegularInv, [Next]_vars
  PROVE  RegularInv'
<1> SUFFICES ASSUME Regular' PROVE OnCourse' \/ Missed'
  BY DEF RegularInv
<1>1. Regular /\ (OnCourse \/ Missed)
  BY RegularSame DEF RegularInv
<1>2. CASE Missed
  BY <1>2, MissedStep
<1>3. CASE OnCourse /\ ~BlankLineApart'
  BY <1>1, <1>3, OnCourseStep
<1>4. CASE OnCourse /\ BlankLineApart'
  <2>1. (ParserInv /\ HeadInv /\ BlankLineApart => Missed)'
    BY ApartMissed, PTL
  <2> QED BY <1>4, <2>1
<1> QED BY <1>1, <1>2, <1>3, <1>4

(* Nothing but the arrival of more happens to a request once answered.     *)
AnsweredInv == answered => areHeadersSet /\ ~Running /\ ~continueProcessing

LEMMA AnsweredStep ==
  ASSUME AnsweredInv, [Next]_vars
  PROVE  AnsweredInv'
<1>1. CASE Arrive \/ UNCHANGED vars
  <2>1. UNCHANGED <<answered, areHeadersSet, text, continueProcessing>>
    BY <1>1 DEF Arrive, vars, parseVars, builderVars, callVars
  <2> QED BY <2>1 DEF AnsweredInv, Running
<1>2. CASE Recv \/ ProcessRemaining \/ ReadHeader \/ HeadersRead
  <2>1. ~answered /\ answered' = answered
    BY <1>2 DEF AnsweredInv, Recv, Reading, ProcessRemaining, ReadHeader, HeadersRead
  <2> QED BY <2>1 DEF AnsweredInv
<1>3. CASE Answer
  <2>1. /\ Reading /\ areHeadersSet
        /\ UNCHANGED <<areHeadersSet, text, continueProcessing>>
    BY <1>3 DEF Answer, parseVars, builderVars, callVars
  <2> QED BY <2>1 DEF AnsweredInv, Reading, Running
<1> QED BY <1>1, <1>2, <1>3 DEF Next

(* What has been gathered is what was sent.                                *)
LEMMA AsSent ==
  ASSUME request \in Requests, NEW popped, popped \in {{}, {<<"content-length">>}},
         Gathered(headers, Fields, popped)
  PROVE  LET names == {Lower(name) : name \in Range(request.fields)} IN
         /\ {<<name>> : name \in names \ {"content-length"}} \subseteq DOMAIN headers
         /\ \A f \in DOMAIN headers :
              \E name \in names : f = <<name>> /\ Joined(headers[f], request, name, Len(request.fields))
<1> DEFINE names == {Lower(name) : name \in Range(request.fields)}
<1>1. /\ \A f \in DOMAIN headers : \E i \in 1 .. Fields : f = NameOf(i) /\ f \notin popped
      /\ \A i \in 1 .. Fields : NameOf(i) \notin popped =>
           /\ NameOf(i) \in DOMAIN headers
           /\ Joined(headers[NameOf(i)], request, Lower(request.fields[i]), Fields)
  BY DEF Gathered
<1>2. names = {Lower(request.fields[i]) : i \in 1 .. Fields}
  <2>1. DOMAIN request.fields = 1 .. Fields
    BY RequestIs DEF Fields
  <2> QED BY <2>1 DEF Range
<1> HIDE DEF names
<1>3. ASSUME NEW name \in names, name # "content-length" PROVE <<name>> \in DOMAIN headers
  <2>1. PICK i \in 1 .. Fields : name = Lower(request.fields[i])
    BY <1>2
  <2>2. NameOf(i) = <<name>>
    BY <2>1 DEF NameOf
  <2>3. NameOf(i) # <<"content-length">>
    <3>1. <<name>>[1] # <<"content-length">>[1]
      BY <1>3
    <3> QED BY <2>2, <3>1
  <2> QED BY <1>1, <2>2, <2>3
<1>4. ASSUME NEW f \in DOMAIN headers
      PROVE  \E name \in names : f = <<name>> /\ Joined(headers[f], request, name, Len(request.fields))
  <2>1. PICK i \in 1 .. Fields : f = NameOf(i) /\ f \notin popped
    BY <1>1
  <2>2. Lower(request.fields[i]) \in names /\ f = <<Lower(request.fields[i])>>
    BY <1>2, <2>1 DEF NameOf
  <2>3. Joined(headers[f], request, Lower(request.fields[i]), Len(request.fields))
    BY <1>1, <2>1 DEF Fields
  <2> QED BY <2>2, <2>3
<1> QED BY <1>3, <1>4 DEF names

LEMMA AnsweredAsSent ==
  ASSUME ParserInv, RegularInv, AnsweredInv
  PROVE  ParsedAsSent
<1> SUFFICES ASSUME Regular, answered
             PROVE  LET names == {Lower(name) : name \in Range(request.fields)} IN
                    /\ {<<name>> : name \in names \ {"content-length"}} \subseteq DOMAIN headers
                    /\ \A f \in DOMAIN headers :
                         \E name \in names :
                           f = <<name>> /\ Joined(headers[f], request, name, Len(request.fields))
                    /\ content = SubSeq(StreamOf(request), HeadLen(request) + 1, taken)
  BY DEF ParsedAsSent
<1>2. areHeadersSet /\ ~Running /\ ~continueProcessing
  BY DEF AnsweredInv
<1>0. OnCourse
  BY <1>2 DEF RegularInv, Missed, Unfound
<1>1. /\ request \in Requests /\ Progress /\ taken \in Nat /\ taken <= sent /\ sent <= Len(Stream)
      /\ sent \in Nat /\ Len(Stream) \in Nat /\ Fields \in Nat
  BY <1>0, RegularIs
<1>3. HeadersDone \/ ContentBegun
  BY <1>1, <1>2 DEF Progress, Nothing, ReadTo
<1>4. CASE HeadersDone
  <2>1. Gathered(headers, Fields, {}) /\ content = <<>> /\ taken >= HeadEnd /\ ~ (taken > HeadEnd)
    BY <1>2, <1>4 DEF HeadersDone
  <2>2. HeadEnd \in Nat
    <3>1. 0 \in 0 .. Fields
      BY <1>1
    <3> QED BY <1>1, <3>1, LineIn
  <2>3. taken = HeadEnd /\ taken <= Len(Stream)
    BY <1>1, <2>1, <2>2
  <2>4. content = Part(HeadEnd, taken)
    BY <1>1, <2>1, <2>3, PartNone
  <2> QED BY <1>1, <2>1, <2>4, AsSent DEF Part, HeadEnd, Stream
<1>5. CASE ContentBegun
  <2>1. Gathered(headers, Fields, {<<"content-length">>}) /\ content = Part(HeadEnd, taken)
    BY <1>5 DEF ContentBegun
  <2> QED BY <1>1, <2>1, AsSent DEF Part, HeadEnd, Stream
<1> QED BY <1>3, <1>4, <1>5

----------------------------------------------------------------------------

LEMMA HeadInvariant == Spec => []HeadInv
<1>1. Init => HeadInv
  BY HeadInit
<1>2. ParserInv /\ Proved!LoopInv /\ HeadInv /\ [Next]_vars => HeadInv'
  BY HeadStep
<1> QED BY <1>1, <1>2, ParserInvariant, ParserLoopInvariant, PTL DEF Spec

LEMMA AnsweredInvariant == Spec => []AnsweredInv
<1>1. Init => AnsweredInv
  BY DEF Init, AnsweredInv
<1>2. AnsweredInv /\ [Next]_vars => AnsweredInv'
  BY AnsweredStep
<1> QED BY <1>1, <1>2, PTL DEF Spec

(* Unless a recv() has ended just before its blank line, at each point of  *)
(* its parsing a regular request has been read as far as the lines and the *)
(* content that have arrived go, and no further: what processRequestChunk  *)
(* keeps in remainingBuf is the rest (request.c:135-210), and what         *)
(* readHeaders has put into its map are the fields of the lines it has read*)
(* (fields.c:33-103).  After such a recv() no blank line is found.         *)
THEOREM RegularInvariant == Spec => []RegularInv
<1>1. Init => RegularInv
  BY RegularInit DEF RegularInv
<1>2. ParserInv /\ ParserInv' /\ Proved!LoopInv /\ HeadInv' /\ RegularInv /\ [Next]_vars => RegularInv'
  BY RegularStep
<1> QED BY <1>1, <1>2, ParserInvariant, ParserLoopInvariant, HeadInvariant, PTL DEF Spec

(* No way to cut a regular request between its lines or in its content     *)
(* makes processRequestChunk end the process (request.c:135-210) or        *)
(* readHeaders miss a colon (fields.c:76), as long as no recv() ends       *)
(* between the last header line and the blank line.                        *)
THEOREM RegularRequestsSurvive ==
  Spec /\ []~BlankLineApart => [](Regular => outcome = "ok")
<1>1. Init => (Regular => OnCourse)
  BY RegularInit
<1>2. ParserInv /\ (Regular => OnCourse) /\ [Next]_vars /\ ~BlankLineApart' => (Regular => OnCourse)'
  BY RegularSame, OnCourseStep
<1>3. (Regular => OnCourse) => (Regular => outcome = "ok")
  BY DEF OnCourse
<1> QED BY <1>1, <1>2, <1>3, ParserInvariant, PTL DEF Spec

(* A request of which a recv() has ended there is never answered, whatever *)
(* it is (its content having no line ends, see Requests) and however else  *)
(* it is cut: the blank line that the next recv() begins with is no pair of*)
(* line ends, so that strstr does not find it (request.c:166-167),         *)
(* areHeadersSet is never set (request.c:168-177) and main() waits for     *)
(* more, or the process has ended (server.c:150).                          *)
THEOREM BlankLineApartNeverAnswered == Spec => [](BlankLineApart => []~answered)
<1>1. ParserInv /\ HeadInv /\ BlankLineApart => Missed
  BY ApartMissed
<1>2. ParserInv /\ Proved!LoopInv /\ Missed /\ [Next]_vars => Missed'
  BY MissedStep
<1>3. Missed /\ AnsweredInv => ~answered
  BY DEF Missed, Unfound, AnsweredInv
<1> QED BY <1>1, <1>2, <1>3, ParserInvariant, ParserLoopInvariant, HeadInvariant,
           AnsweredInvariant, PTL DEF Spec

(* A request without headers, of which no line is cut, is never answered:  *)
(* getRequestLine has used up the newline before the blank line            *)
(* (startline.c:69), of which a single one is left, and which strstr       *)
(* therefore does not find (request.c:166-167, server.c:150).              *)
THEOREM WithoutHeadersNeverAnswered == Spec => [](WithoutHeaders => ~answered)
<1>1. Init => (WithoutHeaders => BareInv)
  <2>1. Init => Nothing /\ ~Running /\ sent = 0 /\ taken = 0
    BY DEF Init, Nothing, Running
  <2>2. Init => Unfound
    <3>1. Init => ~areHeadersSet /\ rest = NoBuf /\ text = NoBuf /\ remainingBuf = NoBuf
      BY DEF Init
    <3> QED BY <3>1, NoTextNoBlank DEF Unfound
  <2> QED BY <2>1, <2>2 DEF BareInv
<1>2. ParserInv /\ Proved!LoopInv /\ (WithoutHeaders => BareInv) /\ [Next]_vars
        => (WithoutHeaders => BareInv)'
  <2> SUFFICES ASSUME ParserInv, Proved!LoopInv, WithoutHeaders => BareInv, [Next]_vars,
                      WithoutHeaders'
               PROVE  BareInv'
    OBVIOUS
  <2>1. UNCHANGED <<request, anyCut>>
    BY DEF Next, vars, Arrive, Recv, ProcessRemaining, ReadHeader, HeadersRead, Answer
  <2>2. WithoutHeaders
    BY <2>1 DEF WithoutHeaders
  <2> QED BY <2>2, BareStep
<1>3. (WithoutHeaders => BareInv) /\ AnsweredInv => (WithoutHeaders => ~answered)
  BY DEF BareInv, Unfound, AnsweredInv
<1> QED BY <1>1, <1>2, <1>3, ParserInvariant, ParserLoopInvariant, AnsweredInvariant, PTL DEF Spec

(* A regular request of any number of fields, with any values, is parsed   *)
(* as it was sent if it is answered: readHeaders gathers all its fields, a *)
(* repeated one joined in order (fields.c:33-97), and the content is what  *)
(* has arrived of it (request.c:196-207), wherever the request is cut      *)
(* between its lines or in its content.                                    *)
THEOREM ParserParsesAsSent == Spec => []ParsedAsSent
<1>1. ParserInv /\ RegularInv /\ AnsweredInv => ParsedAsSent
  BY AnsweredAsSent
<1> QED BY <1>1, ParserInvariant, RegularInvariant, AnsweredInvariant, PTL

=============================================================================
