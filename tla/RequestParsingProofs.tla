------------------------ MODULE RequestParsingProofs ------------------------
(***************************************************************************)
(* However the bytes of a request are cut, the parser takes only the steps *)
(* of ReceiveLoop: what is proved there of lengths holds of the bytes.     *)
(***************************************************************************)
EXTENDS RequestParsing, SequenceTheorems, FiniteSetTheorems, WellFoundedInduction, TLAPS

USE RequestParsingAssumption

----------------------------------------------------------------------------
(* Strings in buf.                                                         *)

LEMMA HasMin ==
  ASSUME NEW S \in SUBSET Nat, S # {}
  PROVE  Min(S) \in S /\ \A k \in S : Min(S) <= k
<1> DEFINE R == OpToRel(<, Nat)
<1>1. IsWellFoundedOn(R, Nat)
  BY NatLessThanWellFounded
<1>2. \A x, y \in Nat : <<x, y>> \in R <=> x < y
  BY DEF OpToRel
<1> HIDE DEF R
<1>3. PICK x \in S : \A y \in S : ~ (<<y, x>> \in R)
  BY <1>1, WFMin
<1>4. \A y \in S : x <= y
  <2> SUFFICES ASSUME NEW y \in S PROVE x <= y
    OBVIOUS
  <2>1. x \in Nat /\ y \in Nat
    OBVIOUS
  <2>2. ~ (y < x)
    BY <1>2, <1>3, <2>1
  <2> QED BY <2>1, <2>2
<1> QED BY <1>4 DEF Min

LEMMA HasMax ==
  ASSUME NEW S, NEW m \in Nat, S \subseteq 0 .. m, S # {}
  PROVE  Max(S) \in S /\ \A k \in S : k <= Max(S)
<1> DEFINE T == {m - k : k \in S}
<1>1. T \in SUBSET Nat /\ T # {}
  <2>1. T # {}
    OBVIOUS
  <2>2. ASSUME NEW k \in S PROVE m - k \in Nat
    <3>1. k \in 0 .. m
      OBVIOUS
    <3> QED BY <3>1
  <2> QED BY <2>1, <2>2
<1>2. Min(T) \in T /\ \A k \in T : Min(T) <= k
  BY <1>1, HasMin
<1>3. PICK x \in S : Min(T) = m - x
  BY <1>2
<1>4. \A y \in S : x >= y
  <2> SUFFICES ASSUME NEW y \in S PROVE x >= y
    OBVIOUS
  <2>1. m - x <= m - y
    BY <1>2, <1>3
  <2>2. x \in Nat /\ y \in Nat
    OBVIOUS
  <2> QED BY <2>1, <2>2
<1>5. \A y \in S : y <= x
  BY <1>4
<1>6. \A z \in S : (\A y \in S : z >= y) => \A y \in S : y <= z
  OBVIOUS
<1> HIDE DEF T
<1> QED BY <1>4, <1>6 DEF Max

(* The place of the first byte of a kind, if there is one.                 *)
LEMMA FirstPlace ==
  ASSUME NEW buf \in Seq(Token), NEW kinds,
         NEW places, \A i : i \in places <=> i \in 1 .. Len(buf) /\ buf[i] \in kinds,
         places # {}
  PROVE  /\ Min(places) \in 1 .. Len(buf) /\ buf[Min(places)] \in kinds
         /\ \A i \in 1 .. Min(places) - 1 : buf[i] \notin kinds
<1>1. Len(buf) \in Nat /\ places \in SUBSET Nat
  BY LenProperties
<1> DEFINE m == Min(places)
<1>2. m \in places /\ \A k \in places : m <= k
  BY <1>1, HasMin
<1> HIDE DEF m
<1>3. m \in 1 .. Len(buf) /\ buf[m] \in kinds
  BY <1>2
<1>4. ASSUME NEW i \in 1 .. m - 1 PROVE buf[i] \notin kinds
  <2>1. i \in 1 .. Len(buf) /\ ~ (m <= i)
    BY <1>1, <1>3
  <2> QED BY <1>2, <2>1
<1> QED BY <1>3, <1>4 DEF m

LEMMA Tokens ==
  "CR" \in Token /\ "LF" \in Token /\ "COLON" \in Token /\ "NUL" \in Token /\ "junk" \in Token
  BY DEF Token, Special

LEMMA NoBufApart == NoBuf \notin Seq(Token) /\ NoBuf # <<>>
<1>1. NoBuf[1] \notin Token /\ 1 \in 1 .. Len(NoBuf)
  <2>1. "NULL" \notin Token
    BY DEF Token, Special, FieldNames
  <2> QED BY <2>1 DEF NoBuf
<1>2. NoBuf # <<>>
  BY DEF NoBuf
<1> QED BY <1>1, <1>2, ElementOfSeq

LEMMA FromIs ==
  ASSUME NEW buf \in Seq(Token), NEW i \in Nat \ {0}
  PROVE  /\ From(buf, i) \in Seq(Token)
         /\ Len(From(buf, i)) = IF i <= Len(buf) THEN Len(buf) - i + 1 ELSE 0
         /\ \A j \in 1 .. Len(buf) - i + 1 : From(buf, i)[j] = buf[i + j - 1]
<1>1. Len(buf) \in Nat /\ \A j \in i .. Len(buf) : buf[j] \in Token
  BY LenProperties, ElementOfSeq
<1> QED BY <1>1, SubSeqProperties DEF From

LEMMA PartIs ==
  ASSUME NEW buf \in Seq(Token), NEW i \in Nat, NEW k \in Nat, i + k <= Len(buf)
  PROVE  /\ SubSeq(buf, i + 1, i + k) \in Seq(Token) /\ Len(SubSeq(buf, i + 1, i + k)) = k
         /\ \A j \in 1 .. k : SubSeq(buf, i + 1, i + k)[j] = buf[i + j]
<1> SUFFICES ASSUME NEW a \in Nat, NEW b \in Nat, a = i + 1, b = i + k
             PROVE  /\ SubSeq(buf, a, b) \in Seq(Token) /\ Len(SubSeq(buf, a, b)) = k
                    /\ \A j \in 1 .. k : SubSeq(buf, a, b)[j] = buf[i + j]
  <2>1. i + 1 \in Nat /\ i + k \in Nat
    OBVIOUS
  <2> QED BY <2>1
<1>1. Len(buf) \in Nat /\ \A j \in a .. b : buf[j] \in Token
  BY LenProperties, ElementOfSeq
<1>2. /\ SubSeq(buf, a, b) \in Seq(Token)
      /\ Len(SubSeq(buf, a, b)) = IF a <= b THEN b - a + 1 ELSE 0
      /\ \A j \in 1 .. b - a + 1 : SubSeq(buf, a, b)[j] = buf[a + j - 1]
  BY <1>1, SubSeqProperties
<1>3. (IF a <= b THEN b - a + 1 ELSE 0) = k /\ b - a + 1 = k
  OBVIOUS
<1>4. \A j \in 1 .. k : a + j - 1 = i + j
  OBVIOUS
<1> QED BY <1>2, <1>3, <1>4

LEMMA FirstIs ==
  ASSUME NEW buf \in Seq(Token), NEW k \in Nat
  PROVE  /\ First(buf, k) \in Seq(Token)
         /\ Len(First(buf, k)) = IF Len(buf) <= k THEN Len(buf) ELSE k
         /\ \A j \in 1 .. Len(First(buf, k)) : First(buf, k)[j] = buf[j]
         /\ Len(buf) <= k => First(buf, k) = buf
<1> DEFINE e == IF Len(buf) <= k THEN Len(buf) ELSE k
<1>1. Len(buf) \in Nat /\ e \in Nat /\ e <= Len(buf) /\ \A j \in 1 .. e : buf[j] \in Token
  BY LenProperties, ElementOfSeq
<1>2. First(buf, k) = SubSeq(buf, 1, e)
  BY DEF First
<1>3. /\ SubSeq(buf, 1, e) \in Seq(Token)
      /\ Len(SubSeq(buf, 1, e)) = IF 1 <= e THEN e - 1 + 1 ELSE 0
      /\ \A j \in 1 .. e - 1 + 1 : SubSeq(buf, 1, e)[j] = buf[1 + j - 1]
  <2> HIDE DEF e
  <2> QED BY <1>1, SubSeqProperties
<1>4. Len(SubSeq(buf, 1, e)) = e
  BY <1>1, <1>3
<1>5. Len(buf) <= k => First(buf, k) = buf
  BY <1>2, SubSeqFull
<1> QED BY <1>1, <1>2, <1>3, <1>4, <1>5

LEMMA UptoIs ==
  ASSUME NEW buf \in Seq(Token), NEW ends
  PROVE  /\ Upto(buf, ends) \in Seq(Token) /\ Len(Upto(buf, ends)) <= Len(buf)
         /\ \A j \in 1 .. Len(Upto(buf, ends)) : Upto(buf, ends)[j] = buf[j] /\ buf[j] \notin ends
         /\ Len(Upto(buf, ends)) < Len(buf) => buf[Len(Upto(buf, ends)) + 1] \in ends
<1> DEFINE places == {i \in 1 .. Len(buf) : buf[i] \in ends}
           m == IF places # {} THEN Min(places) ELSE 0
<1>1. Len(buf) \in Nat /\ \A j \in 1 .. Len(buf) : buf[j] \in Token
  BY LenProperties, ElementOfSeq
<1>2. Upto(buf, ends) = IF m = 0 THEN buf ELSE SubSeq(buf, 1, m - 1)
  BY DEF Upto, SelectInSeq
<1>3. CASE places = {}
  BY <1>1, <1>2, <1>3
<1>4. CASE places # {}
  <2>1. m = Min(places)
    BY <1>4
  <2>2. /\ Min(places) \in 1 .. Len(buf) /\ buf[Min(places)] \in ends
        /\ \A j \in 1 .. Min(places) - 1 : buf[j] \notin ends
    <3>1. \A i : i \in places <=> i \in 1 .. Len(buf) /\ buf[i] \in ends
      OBVIOUS
    <3> HIDE DEF m, places
    <3> QED BY <1>4, <3>1, FirstPlace
  <2> HIDE DEF m, places
  <2>3. m \in 1 .. Len(buf) /\ buf[m] \in ends /\ \A j \in 1 .. m - 1 : buf[j] \notin ends
    BY <2>1, <2>2
  <2> DEFINE head == SubSeq(buf, 1, m - 1)
  <2>4. /\ head \in Seq(Token)
        /\ Len(head) = IF 1 <= m - 1 THEN m - 1 - 1 + 1 ELSE 0
        /\ \A j \in 1 .. m - 1 - 1 + 1 : head[j] = buf[1 + j - 1]
    BY <1>1, <2>3, SubSeqProperties
  <2>5. Upto(buf, ends) = head
    BY <1>2, <2>3
  <2> HIDE DEF head
  <2>6. Len(head) = m - 1
    BY <1>1, <2>3, <2>4
  <2>7. \A j \in 1 .. m - 1 : head[j] = buf[j]
    BY <1>1, <2>3, <2>4
  <2> QED BY <1>1, <2>3, <2>4, <2>5, <2>6, <2>7
<1> QED BY <1>3, <1>4

LEMMA CutIs ==
  ASSUME NEW buf \in Seq(Token), NEW i \in 0 .. Len(buf)
  PROVE  /\ Cut(buf, i) \in Seq(Token) /\ Len(Cut(buf, i)) = Len(buf)
         /\ \A j \in 1 .. Len(buf) : Cut(buf, i)[j] = IF j = i THEN "NUL" ELSE buf[j]
<1>1. Len(buf) \in Nat
  BY LenProperties
<1>2. CASE i = 0
  BY <1>1, <1>2 DEF Cut
<1>3. CASE i # 0
  <2>1. i \in 1 .. Len(buf) /\ Cut(buf, i) = [buf EXCEPT ![i] = "NUL"]
    BY <1>1, <1>3 DEF Cut
  <2> QED BY <1>1, <2>1, Tokens, ExceptSeq
<1> QED BY <1>2, <1>3

LEMMA TrimIs ==
  ASSUME NEW line \in Seq(Token)
  PROVE  /\ Trim(line) \in Seq(Token) /\ Len(Trim(line)) <= Len(line)
         /\ \A j \in 1 .. Len(Trim(line)) : Trim(line)[j] = line[j]
<1>1. Len(line) \in Nat /\ \A j \in 1 .. Len(line) : line[j] \in Token
  BY LenProperties, ElementOfSeq
<1>2. CASE line # <<>>
  <2>1. Len(line) \in Nat \ {0}
    BY <1>1, <1>2, EmptySeq
  <2> DEFINE front == SubSeq(line, 1, Len(line) - 1)
  <2>2. /\ front \in Seq(Token)
        /\ Len(front) = IF 1 <= Len(line) - 1 THEN Len(line) - 1 - 1 + 1 ELSE 0
        /\ \A j \in 1 .. Len(line) - 1 - 1 + 1 : front[j] = line[1 + j - 1]
    BY <1>1, <2>1, SubSeqProperties
  <2>3. Trim(line) \in {line, front}
    BY DEF Trim, Front
  <2> HIDE DEF front
  <2>4. Len(front) = Len(line) - 1
    <3>1. ASSUME NEW l \in Nat \ {0} PROVE (IF 1 <= l - 1 THEN l - 1 - 1 + 1 ELSE 0) = l - 1
      OBVIOUS
    <3> QED BY <2>1, <2>2, <3>1
  <2> QED BY <1>1, <2>1, <2>2, <2>3, <2>4
<1> QED BY <1>1, <1>2 DEF Trim

LEMMA OneFurtherIs ==
  ASSUME NEW buf \in Seq(Token), Len(buf) >= 1, NEW i \in Nat \ {0},
         At(buf, i) \in {"NUL", "LF"} \/ i >= 2
  PROVE  OneFurther(buf, i) \in Seq(Token) /\ Len(OneFurther(buf, i)) < Len(buf)
<1> DEFINE after == Upto(From(buf, i + 1), {"NUL"})
<1>1. Len(buf) \in Nat
  BY LenProperties
<1>2. /\ From(buf, i + 1) \in Seq(Token)
      /\ Len(From(buf, i + 1)) = IF i + 1 <= Len(buf) THEN Len(buf) - (i + 1) + 1 ELSE 0
  <2>1. i + 1 \in Nat \ {0}
    OBVIOUS
  <2> QED BY <2>1, FromIs
<1>3. after \in Seq(Token) /\ Len(after) <= Len(From(buf, i + 1)) /\ Len(after) \in Nat
  BY <1>2, UptoIs, LenProperties
<1> HIDE DEF after
<1>4. CASE At(buf, i) \in {"CR", "LF", "COLON", "NUL", "body"}
  <2>1. OneFurther(buf, i) = after
    BY <1>4 DEF OneFurther, after
  <2> QED BY <1>1, <1>2, <1>3, <2>1
<1>5. CASE At(buf, i) \notin {"CR", "LF", "COLON", "NUL", "body"}
  <2>1. OneFurther(buf, i) = <<"junk">> \o after
    BY <1>5 DEF OneFurther, after
  <2>2. i >= 2 /\ i <= Len(buf)
    BY <1>5 DEF At
  <2>3. <<"junk">> \in Seq(Token) /\ Len(<<"junk">>) = 1
    BY Tokens
  <2>4. OneFurther(buf, i) \in Seq(Token) /\ Len(OneFurther(buf, i)) = 1 + Len(after)
    BY <1>3, <2>1, <2>3, ConcatProperties
  <2> QED BY <1>1, <1>2, <1>3, <2>2, <2>4
<1> QED BY <1>4, <1>5

(* Where the text holds a pattern, if it does.                             *)
LEMMA StrStrIs ==
  ASSUME NEW buf \in Seq(Token), NEW pattern, Len(pattern) \in Nat \ {0}
  PROVE  StrStr(buf, pattern) = 0
         \/ StrStr(buf, pattern) \in 1 .. Len(buf) - Len(pattern) + 1
<1> DEFINE found == {i \in 1 .. Len(buf) - Len(pattern) + 1 :
                       SubSeq(buf, i, i + Len(pattern) - 1) = pattern}
<1>1. Len(buf) \in Nat /\ found \in SUBSET Nat
  BY LenProperties
<1>2. StrStr(buf, pattern) = IF found = {} THEN 0 ELSE Min(found)
  BY DEF StrStr
<1>3. found # {} => Min(found) \in found
  BY <1>1, HasMin
<1> QED BY <1>2, <1>3

LEMMA BlankLineIs ==
  ASSUME NEW buf \in Seq(Token)
  PROVE  /\ BlankLine(buf).at \in 0 .. Len(buf) /\ BlankLine(buf).body \in Nat
         /\ BlankLine(buf).at # 0 => BlankLine(buf).body - 1 \in 2 .. Len(buf)
<1> DEFINE crlf == StrStr(buf, <<"CR", "LF", "CR", "LF">>)
           lf   == StrStr(buf, <<"LF", "LF">>)
<1>1. Len(buf) \in Nat
  BY LenProperties
<1>2. crlf = 0 \/ crlf \in 1 .. Len(buf) - 4 + 1
  <2> DEFINE pattern == <<"CR", "LF", "CR", "LF">>
  <2>1. Len(pattern) = 4
    OBVIOUS
  <2> HIDE DEF pattern
  <2>2. StrStr(buf, pattern) = 0 \/ StrStr(buf, pattern) \in 1 .. Len(buf) - Len(pattern) + 1
    <3>1. Len(pattern) \in Nat \ {0}
      BY <2>1
    <3> QED BY <3>1, StrStrIs
  <2> QED BY <2>1, <2>2 DEF pattern
<1>3. lf = 0 \/ lf \in 1 .. Len(buf) - 2 + 1
  <2> DEFINE pattern == <<"LF", "LF">>
  <2>1. Len(pattern) = 2
    OBVIOUS
  <2> HIDE DEF pattern
  <2>2. StrStr(buf, pattern) = 0 \/ StrStr(buf, pattern) \in 1 .. Len(buf) - Len(pattern) + 1
    <3>1. Len(pattern) \in Nat \ {0}
      BY <2>1
    <3> QED BY <3>1, StrStrIs
  <2> QED BY <2>1, <2>2 DEF pattern
<1>4. BlankLine(buf) = IF crlf # 0 THEN [at |-> crlf, body |-> crlf + 4]
                                  ELSE [at |-> lf, body |-> lf + 2]
  BY DEF BlankLine
<1> HIDE DEF crlf, lf
<1>5. CASE crlf # 0
  <2>1. BlankLine(buf).at = crlf /\ BlankLine(buf).body = crlf + 4
    BY <1>4, <1>5
  <2> QED BY <1>1, <1>2, <1>5, <2>1
<1>6. CASE crlf = 0
  <2>1. BlankLine(buf).at = lf /\ BlankLine(buf).body = lf + 2
    BY <1>4, <1>6
  <2> QED BY <1>1, <1>3, <2>1
<1> QED BY <1>5, <1>6

LastLf(buf) == SelectLastInSeq(buf, LAMBDA t : t = "LF")

LEMMA LastLfIs ==
  ASSUME NEW buf \in Seq(Token)
  PROVE  /\ LastLf(buf) \in 0 .. Len(buf)
         /\ \A i \in 1 .. Len(buf) : buf[i] = "LF" => i <= LastLf(buf)
<1> DEFINE places == {i \in 1 .. Len(buf) : buf[i] = "LF"}
<1>1. Len(buf) \in Nat
  BY LenProperties
<1>2. LastLf(buf) = IF places # {} THEN Max(places) ELSE 0
  BY DEF LastLf, SelectLastInSeq
<1>3. places # {} => Max(places) \in places /\ \A k \in places : k <= Max(places)
  <2>1. places \subseteq 0 .. Len(buf)
    BY <1>1
  <2> HIDE DEF places
  <2> QED BY <1>1, <2>1, HasMax
<1>4. \A i \in 1 .. Len(buf) : buf[i] = "LF" => i \in places
  OBVIOUS
<1>5. places \subseteq 1 .. Len(buf)
  OBVIOUS
<1> HIDE DEF places
<1>6. CASE places = {}
  BY <1>1, <1>2, <1>4, <1>6
<1>7. CASE places # {}
  <2>1. LastLf(buf) \in places /\ \A k \in places : k <= LastLf(buf)
    BY <1>2, <1>3, <1>7
  <2>2. LastLf(buf) \in 1 .. Len(buf)
    BY <1>5, <2>1
  <2>3. \A i \in 1 .. Len(buf) : buf[i] = "LF" => i <= LastLf(buf)
    BY <1>4, <2>1
  <2> QED BY <1>1, <2>2, <2>3
<1> QED BY <1>6, <1>7

Colon(line) == SelectInSeq(line, LAMBDA t : t = "COLON")

LEMMA ColonIs ==
  ASSUME NEW line \in Seq(Token)
  PROVE  /\ Colon(line) \in 0 .. Len(line)
         /\ Colon(line) # 0 => line[Colon(line)] = "COLON"
         /\ \A i \in 1 .. Len(line) : line[i] = "COLON" => Colon(line) # 0 /\ Colon(line) <= i
<1> DEFINE places == {i \in 1 .. Len(line) : line[i] = "COLON"}
<1>1. Len(line) \in Nat
  BY LenProperties
<1>2. Colon(line) = IF places # {} THEN Min(places) ELSE 0
  BY DEF Colon, SelectInSeq
<1>3. places \in SUBSET Nat
  BY <1>1
<1>4. \A i : i \in places <=> i \in 1 .. Len(line) /\ line[i] = "COLON"
  OBVIOUS
<1> HIDE DEF places
<1>5. CASE places = {}
  BY <1>1, <1>2, <1>4, <1>5
<1>6. CASE places # {}
  <2>1. Colon(line) \in places /\ \A i \in places : Colon(line) <= i
    BY <1>2, <1>3, <1>6, HasMin
  <2>2. Colon(line) \in 1 .. Len(line) /\ line[Colon(line)] = "COLON"
    BY <1>4, <2>1
  <2>3. \A i \in 1 .. Len(line) : line[i] = "COLON" => Colon(line) <= i
    BY <1>4, <2>1
  <2> QED BY <1>1, <2>2, <2>3
<1> QED BY <1>5, <1>6

----------------------------------------------------------------------------
(* The invariant.                                                          *)

ValidMap(m) == DOMAIN m \subseteq Seq(Token) /\ \A f \in DOMAIN m : m[f] \in Seq(Token)

(* The builder between two calls of processRequestChunk.                   *)
BuilderInv ==
  /\ content \in Seq(Token)
  /\ headers = NoMap \/ ValidMap(headers)
  /\ areHeadersSet => headers # NoMap
  /\ continueProcessing => outcome = "ok" /\ n >= 1 /\ remainingBuf \notin {NoBuf, <<>>}

(* And during one that reads headers.  What was saved of the body follows  *)
(* a blank line, end bytes into the text.                                  *)
CallInv ==
  Running =>
    /\ outcome = "ok" /\ isRequestLineSet /\ ~areHeadersSet
    /\ ValidMap(map)
    /\ chunkSize >= 1 /\ at \in 1 .. Len(text) + 2
    /\ Len(text) \in 1 .. BufSize - 1
    /\ Len(text) = Len(Text(remainingBuf)) + IF continueProcessing THEN 0 ELSE chunkSize
    /\ continueProcessing => chunkSize = n
    /\ rest # NoBuf => \E end \in 2 .. Len(text) :
         /\ end <= chunkSize
         /\ Len(rest) = (IF Len(text) <= chunkSize THEN Len(text) ELSE chunkSize) - end

(* What the environment holds, and what the parser does.                   *)
EnvOK ==
  /\ request \in Requests /\ anyCut \in AnyCut
  /\ taken \in 0 .. sent /\ sent \in 0 .. Len(StreamOf(request))
  /\ answered \in BOOLEAN

ParseOK ==
  /\ isRequestLineSet \in BOOLEAN /\ areHeadersSet \in BOOLEAN /\ isContentSet \in BOOLEAN
  /\ contentSize \in Nat /\ Len(content) < contentSize
  /\ {remainingBuf, text, rest} \subseteq Seq(Token) \cup {NoBuf}
  /\ n \in 0 .. BufSize - 1 /\ chunkSize \in 0 .. BufSize - 1 /\ at \in Nat
  /\ continueProcessing \in BOOLEAN
  /\ BuilderInv /\ CallInv

ParserInv == EnvOK /\ ParseOK

LEMMA InvTypes == ParserInv => TypeOK
  BY DEF ParserInv, EnvOK, ParseOK, TypeOK

----------------------------------------------------------------------------
(* The ends of a call.                                                     *)

(* remainingBuf as ReceiveLoop has it.                                     *)
Kept == IF remainingBuf = NoBuf THEN -1 ELSE Len(remainingBuf)

LEMMA NoMapApart == ~ValidMap(NoMap)
<1>1. <<"NULL">> \in DOMAIN NoMap
  BY DEF NoMap
<1> QED BY <1>1, NoBufApart DEF ValidMap, NoBuf

LEMMA DiesKeeps ==
  ASSUME ParseOK, NEW how, how # "ok", NEW k \in 1 .. BufSize - 1, Dies(how, k)
  PROVE  ParseOK' /\ Loop!Dies(how) /\ n' = k
<1>1. /\ n' = k /\ text' = NoBuf /\ rest' = NoBuf /\ at' = 0 /\ chunkSize' = 0
      /\ continueProcessing' = FALSE /\ outcome' = how
      /\ UNCHANGED <<builderVars, requestVars>>
  BY DEF Dies, Leaves
<1>2. BuilderInv' /\ CallInv'
  BY <1>1 DEF ParseOK, BuilderInv, CallInv, Running, builderVars, requestVars, ValidMap
<1>3. ParseOK'
  <2>1. /\ UNCHANGED <<isRequestLineSet, areHeadersSet, isContentSet, remainingBuf>>
        /\ UNCHANGED <<headers, content, contentSize, declared>>
    BY <1>1 DEF builderVars, requestVars
  <2>2. {remainingBuf, text, rest}' \subseteq Seq(Token) \cup {NoBuf}
    BY <1>1, <2>1 DEF ParseOK
  <2>3. n' \in 0 .. BufSize - 1 /\ chunkSize' \in 0 .. BufSize - 1 /\ at' \in Nat
    BY <1>1
  <2> QED BY <1>1, <1>2, <2>1, <2>2, <2>3 DEF ParseOK
<1>4. Loop!Dies(how)
  BY <1>1 DEF Loop!Dies, Loop!builderVars, Loop!requestVars, builderVars, requestVars
<1> QED BY <1>1, <1>3, <1>4

LEMMA ReturnsKeeps ==
  ASSUME ParseOK, NEW k \in 1 .. BufSize - 1, Returns(k),
         remainingBuf' \in Seq(Token) \cup {NoBuf},
         <<isRequestLineSet, areHeadersSet, isContentSet>>' \in BOOLEAN \X BOOLEAN \X BOOLEAN,
         content' \in Seq(Token), contentSize' \in Nat, Len(content)' < contentSize',
         headers' = NoMap \/ ValidMap(headers'), areHeadersSet' => headers' # NoMap
  PROVE  ParseOK' /\ Loop!Returns /\ n' = k
<1>1. /\ n' = k /\ text' = NoBuf /\ rest' = NoBuf /\ at' = 0 /\ chunkSize' = 0
      /\ continueProcessing' = (remainingBuf' \notin {NoBuf, <<>>}) /\ outcome' = "ok"
  BY DEF Returns, Leaves
<1>2. BuilderInv' /\ CallInv'
  <2>1. CallInv'
    BY <1>1 DEF CallInv, Running
  <2>2. (continueProcessing => outcome = "ok" /\ n >= 1 /\ remainingBuf \notin {NoBuf, <<>>})'
    <3>1. n' >= 1 /\ outcome' = "ok"
      BY <1>1
    <3>2. continueProcessing' => remainingBuf' \notin {NoBuf, <<>>}
      BY <1>1, Zenon
    <3> QED BY <3>1, <3>2
  <2>3. (areHeadersSet => headers # NoMap)' /\ (headers = NoMap \/ ValidMap(headers))'
    OBVIOUS
  <2> QED BY <2>1, <2>2, <2>3 DEF BuilderInv
<1>3. ParseOK'
  <2>1. {remainingBuf, text, rest}' \subseteq Seq(Token) \cup {NoBuf}
    BY <1>1
  <2>2. n' \in 0 .. BufSize - 1 /\ chunkSize' \in 0 .. BufSize - 1 /\ at' \in Nat
    BY <1>1
  <2>3. continueProcessing' \in BOOLEAN
    BY <1>1
  <2> QED BY <1>2, <2>1, <2>2, <2>3 DEF ParseOK
<1>4. remainingBuf' \notin {NoBuf, <<>>} <=> Kept' # -1 /\ Kept' > 0
  <2>1. CASE remainingBuf' = NoBuf
    BY <2>1 DEF Kept
  <2>2. CASE remainingBuf' # NoBuf
    <3>1. remainingBuf' \in Seq(Token) /\ Kept' = Len(remainingBuf')
      BY <2>2 DEF Kept
    <3>2. Len(remainingBuf') \in Nat /\ (Len(remainingBuf') = 0 <=> remainingBuf' = <<>>)
      BY <3>1, LenProperties, EmptySeq
    <3> QED BY <2>2, <3>1, <3>2
  <2> QED BY <2>1, <2>2
<1>5. Loop!Returns
  BY <1>1, <1>4 DEF Loop!Returns, Loop!NoBuf, Kept
<1> QED BY <1>1, <1>3, <1>5

----------------------------------------------------------------------------
(* What a call does with the text it is given.                             *)

LEMMA RequestLineStep ==
  ASSUME ParseOK, NEW buf \in Seq(Token), Len(buf) \in 1 .. BufSize - 1,
         NEW k \in 1 .. BufSize - 1, ~isRequestLineSet, ParseRequestLine(buf, k)
  PROVE  ParseOK' /\ Loop!ParseRequestLine(Len(buf)) /\ n' = k
<1> DEFINE line == Upto(buf, {"LF"})
           kept == First(From(buf, Len(line) + 2), k)
<1>1. line \in Seq(Token) /\ Len(line) <= Len(buf) /\ Len(line) \in Nat
  BY UptoIs, LenProperties
<1>2. kept \in Seq(Token) /\ Len(kept) \in 0 .. Len(buf) - 1
  <2>1. Len(line) + 2 \in Nat \ {0}
    BY <1>1
  <2> DEFINE after == From(buf, Len(line) + 2)
  <2>2. after \in Seq(Token) /\ Len(after) \in 0 .. Len(buf) - 1
    <3>1. /\ after \in Seq(Token)
          /\ Len(after) = IF Len(line) + 2 <= Len(buf) THEN Len(buf) - (Len(line) + 2) + 1 ELSE 0
      <4> HIDE DEF line
      <4> QED BY <2>1, FromIs
    <3> HIDE DEF line, after
    <3> QED BY <1>1, <3>1
  <2> HIDE DEF line, after
  <2>3. First(after, k) \in Seq(Token) /\ Len(First(after, k)) = IF Len(after) <= k THEN Len(after) ELSE k
    BY <2>2, FirstIs
  <2> QED BY <2>2, <2>3 DEF after
<1>3. RequestLine(line) \in {"ok", "exit", "nullDeref"}
  BY DEF RequestLine
<1>4. \/ RequestLine(line) # "ok" /\ Dies(RequestLine(line), k)
      \/ Len(line) + 2 > BufSize /\ Dies("overread", k)
      \/ /\ isRequestLineSet' = TRUE
         /\ remainingBuf' = kept
         /\ Returns(k)
         /\ UNCHANGED <<areHeadersSet, isContentSet, requestVars>>
  BY DEF ParseRequestLine
<1> HIDE DEF line, kept
<1>5. CASE RequestLine(line) # "ok" /\ Dies(RequestLine(line), k)
  BY <1>3, <1>5, DiesKeeps DEF Loop!ParseRequestLine
<1>6. CASE Len(line) + 2 > BufSize /\ Dies("overread", k)
  <2>1. Len(buf) = BufSize - 1
    BY <1>1, <1>6
  <2> QED BY <1>6, <2>1, DiesKeeps DEF Loop!ParseRequestLine
<1>7. CASE /\ isRequestLineSet' = TRUE
           /\ remainingBuf' = kept
           /\ Returns(k)
           /\ UNCHANGED <<areHeadersSet, isContentSet, requestVars>>
  <2>1. UNCHANGED <<headers, content, contentSize, declared, areHeadersSet, isContentSet>>
    BY <1>7 DEF requestVars
  <2>2. ParseOK' /\ Loop!Returns /\ n' = k
    <3>1. <<isRequestLineSet, areHeadersSet, isContentSet>>' \in BOOLEAN \X BOOLEAN \X BOOLEAN
      BY <1>7, <2>1 DEF ParseOK
    <3>2. /\ content' \in Seq(Token) /\ contentSize' \in Nat /\ Len(content)' < contentSize'
          /\ headers' = NoMap \/ ValidMap(headers')
          /\ areHeadersSet' => headers' # NoMap
      BY <2>1 DEF ParseOK, BuilderInv, ValidMap
    <3>3. remainingBuf' \in Seq(Token) \cup {NoBuf}
      BY <1>2, <1>7
    <3> QED BY <1>7, <3>1, <3>2, <3>3, ReturnsKeeps
  <2>3. Kept' \in 0 .. Len(buf) - 1
    BY <1>2, <1>7, NoBufApart DEF Kept
  <2> QED BY <1>7, <2>1, <2>2, <2>3 DEF Loop!ParseRequestLine, Loop!requestVars, Kept
<1> QED BY <1>4, <1>5, <1>6, <1>7

LEMMA SetContentStep ==
  ASSUME EnvOK, ParseOK, NEW buf \in Seq(Token), Len(buf) \in 1 .. BufSize - 1,
         NEW k \in 1 .. BufSize - 1, isRequestLineSet, areHeadersSet, SetContent(buf, k)
  PROVE  ParseOK' /\ Loop!SetContent(Len(buf)) /\ n' = k
<1>1. ContentLength \in 0 .. MaxBody /\ ContentLength < UIntMax
  <2>1. request.length \in 0 .. MaxBody
    BY DEF EnvOK, Requests
  <2> QED BY <2>1 DEF ContentLength
<1>2. /\ First(buf, ContentLength) \in Seq(Token)
      /\ Len(First(buf, ContentLength)) = IF Len(buf) <= ContentLength THEN Len(buf) ELSE ContentLength
  BY <1>1, FirstIs
<1>3. /\ headers' = [f \in DOMAIN headers \ {<<"content-length">>} |-> headers[f]]
      /\ declared' = ContentLength
      /\ contentSize' = IF ContentLength >= contentSize THEN ContentLength + 1 ELSE contentSize
      /\ content' = First(buf, ContentLength)
      /\ isContentSet' = TRUE
      /\ remainingBuf' = NoBuf
      /\ Returns(k)
      /\ UNCHANGED <<isRequestLineSet, areHeadersSet>>
  BY DEF SetContent
<1>4. headers # NoMap /\ ValidMap(headers')
  <2>1. headers # NoMap /\ ValidMap(headers)
    BY DEF ParseOK, BuilderInv
  <2> QED BY <1>3, <2>1 DEF ValidMap
<1>5. headers' # NoMap
  BY <1>4, NoMapApart
<1>6. contentSize' \in Nat /\ Len(content)' < contentSize'
  <2>1. contentSize \in Nat /\ Len(buf) \in Nat
    BY LenProperties DEF ParseOK
  <2> QED BY <1>1, <1>2, <1>3, <2>1
<1>7. ParseOK' /\ Loop!Returns /\ n' = k
  <2>1. <<isRequestLineSet, areHeadersSet, isContentSet>>' \in BOOLEAN \X BOOLEAN \X BOOLEAN
    BY <1>3 DEF ParseOK
  <2>2. content' \in Seq(Token) /\ remainingBuf' \in Seq(Token) \cup {NoBuf}
    BY <1>2, <1>3
  <2> QED BY <1>3, <1>4, <1>5, <1>6, <2>1, <2>2, ReturnsKeeps
<1>8. Len(content)' = Loop!Smaller(Len(buf), ContentLength)
  BY <1>2, <1>3 DEF Loop!Smaller
<1> QED BY <1>1, <1>3, <1>4, <1>5, <1>7, <1>8 DEF Loop!SetContent, Loop!NoBuf

LEMMA AppendContentStep ==
  ASSUME ParseOK, NEW buf \in Seq(Token), Len(buf) \in 1 .. BufSize - 1,
         NEW k \in 1 .. BufSize - 1, isRequestLineSet, areHeadersSet, isContentSet,
         AppendContent(buf, k)
  PROVE  ParseOK' /\ Loop!AppendContent(Len(buf), k) /\ n' = k
<1> DEFINE added == First(buf, k)
<1>1. added \in Seq(Token) /\ Len(added) = Loop!Smaller(Len(buf), k) /\ Len(added) \in Nat
  <2>1. added \in Seq(Token) /\ Len(added) = IF Len(buf) <= k THEN Len(buf) ELSE k
    BY FirstIs
  <2> QED BY <2>1, LenProperties DEF Loop!Smaller
<1> HIDE DEF added
<1>2. content \in Seq(Token) /\ Len(content) \in Nat
  BY LenProperties DEF ParseOK, BuilderInv
<1>3. content \o added \in Seq(Token) /\ Len(content \o added) = Len(content) + Loop!Smaller(Len(buf), k)
  BY <1>1, <1>2, ConcatProperties
<1>4. CASE Len(content \o added) >= contentSize
  <2>1. Dies("contentOverflow", k)
    BY <1>4 DEF AppendContent, added
  <2> QED BY <1>3, <1>4, <2>1, DiesKeeps DEF Loop!AppendContent
<1>5. CASE ~ (Len(content \o added) >= contentSize)
  <2>1. /\ content' = content \o added
        /\ remainingBuf' = NoBuf
        /\ Returns(k)
        /\ UNCHANGED <<isRequestLineSet, areHeadersSet, isContentSet,
                       headers, contentSize, declared>>
    BY <1>5 DEF AppendContent, added
  <2>2. ParseOK' /\ Loop!Returns /\ n' = k
    <3>1. <<isRequestLineSet, areHeadersSet, isContentSet>>' \in BOOLEAN \X BOOLEAN \X BOOLEAN
      BY <2>1 DEF ParseOK
    <3>2. content' \in Seq(Token) /\ remainingBuf' \in Seq(Token) \cup {NoBuf}
      BY <1>3, <2>1
    <3>3. contentSize' \in Nat /\ Len(content)' < contentSize'
      <4>1. contentSize \in Nat
        BY DEF ParseOK
      <4> QED BY <1>1, <1>2, <1>3, <1>5, <2>1, <4>1
    <3>4. /\ headers' = NoMap \/ ValidMap(headers')
          /\ areHeadersSet' => headers' # NoMap
      BY <2>1 DEF ParseOK, BuilderInv, ValidMap
    <3> QED BY <2>1, <3>1, <3>2, <3>3, <3>4, ReturnsKeeps
  <2>3. ~ (Len(content) + Loop!Smaller(Len(buf), k) >= contentSize)
    BY <1>3, <1>5
  <2> QED BY <1>3, <2>1, <2>2, <2>3 DEF Loop!AppendContent, Loop!NoBuf
<1> QED BY <1>4, <1>5

LEMMA TextIs ==
  ASSUME ParseOK
  PROVE  Text(remainingBuf) \in Seq(Token) /\ Len(Text(remainingBuf)) = Loop!Strlen(Kept)
         /\ Len(Text(remainingBuf)) \in Nat
<1>1. CASE remainingBuf = NoBuf
  BY <1>1 DEF Text, Kept, Loop!Strlen, Loop!NoBuf
<1>2. CASE remainingBuf # NoBuf
  <2>1. remainingBuf \in Seq(Token)
    BY <1>2 DEF ParseOK
  <2>2. Len(remainingBuf) \in Nat
    BY <2>1, LenProperties
  <2> QED BY <1>2, <2>1, <2>2 DEF Text, Kept, Loop!Strlen, Loop!NoBuf
<1> QED BY <1>1, <1>2

(* A call that reads headers begins: ReceiveLoop has not seen it yet.      *)
LEMMA ParseHeadersStep ==
  ASSUME ParseOK, NEW buf \in Seq(Token), Len(buf) \in 1 .. BufSize - 1,
         NEW k \in 1 .. BufSize - 1, outcome = "ok", isRequestLineSet, ~areHeadersSet,
         Len(buf) = Len(Text(remainingBuf)) + IF continueProcessing THEN 0 ELSE k,
         continueProcessing => k = n, ParseHeaders(buf, k)
  PROVE  /\ ParseOK'
         /\ \/ UNCHANGED Loop!loopVars
            \/ Loop!EndOfHeaders(Len(buf), k) /\ n' = k
<1> DEFINE blank == BlankLine(buf)
<1>1. /\ blank.at \in 0 .. Len(buf) /\ blank.body \in Nat
      /\ blank.at # 0 => blank.body - 1 \in 2 .. Len(buf)
  BY BlankLineIs
<1>2. LastLf(buf) \in 0 .. Len(buf) /\ Len(buf) \in Nat
  BY LastLfIs, LenProperties
<1>3. CASE blank.at # 0 /\ blank.body > k + 1
  <2>1. Dies("lengthUnderflow", k)
    BY <1>3 DEF ParseHeaders
  <2> HIDE DEF blank
  <2>2. blank.body - 1 \in 2 .. Len(buf) /\ blank.body - 1 > k
    BY <1>1, <1>3
  <2> QED BY <2>1, <2>2, DiesKeeps DEF Loop!EndOfHeaders
<1>4. CASE ~ (blank.at # 0 /\ blank.body > k + 1)
  <2> DEFINE cut == IF blank.at # 0 THEN blank.at ELSE LastLf(buf)
  <2>1. /\ text' = Cut(buf, cut)
        /\ at' = 1
        /\ map' = IF headers = NoMap THEN <<>> ELSE headers
        /\ rest' = IF blank.at # 0 THEN From(First(buf, k), blank.body) ELSE NoBuf
        /\ chunkSize' = k
        /\ UNCHANGED <<builderVars, requestVars, n, continueProcessing, outcome>>
    BY <1>4 DEF ParseHeaders, LastLf
  <2>2. cut \in 0 .. Len(buf)
    BY <1>1, <1>2
  <2> HIDE DEF blank, cut
  <2>3. text' \in Seq(Token) /\ Len(text') = Len(buf)
    BY <2>1, <2>2, CutIs
  <2>4. First(buf, k) \in Seq(Token) /\ Len(First(buf, k)) = IF Len(buf) <= k THEN Len(buf) ELSE k
    BY FirstIs
  <2>5. rest' # NoBuf => /\ rest' \in Seq(Token)
                         /\ blank.body - 1 \in 2 .. Len(buf) /\ blank.body - 1 <= k
                         /\ Len(rest') = Len(First(buf, k)) - (blank.body - 1)
    <3> SUFFICES ASSUME rest' # NoBuf
                 PROVE  /\ rest' \in Seq(Token)
                        /\ blank.body - 1 \in 2 .. Len(buf) /\ blank.body - 1 <= k
                        /\ Len(rest') = Len(First(buf, k)) - (blank.body - 1)
      OBVIOUS
    <3>1. blank.at # 0 /\ rest' = From(First(buf, k), blank.body)
      BY <2>1
    <3>2. blank.body - 1 \in 2 .. Len(buf) /\ blank.body - 1 <= k /\ blank.body \in Nat \ {0}
      BY <1>1, <1>4, <3>1
    <3> DEFINE first == First(buf, k)
    <3>3. first \in Seq(Token) /\ Len(first) \in Nat /\ blank.body - 1 <= Len(first)
      BY <1>2, <2>4, <3>2
    <3> HIDE DEF first
    <3>4. /\ From(first, blank.body) \in Seq(Token)
          /\ Len(From(first, blank.body)) =
               IF blank.body <= Len(first) THEN Len(first) - blank.body + 1 ELSE 0
      BY <3>2, <3>3, FromIs
    <3>5. Len(From(first, blank.body)) = Len(first) - (blank.body - 1)
      BY <3>2, <3>3, <3>4, SMTT(20)
    <3> QED BY <3>1, <3>2, <3>4, <3>5 DEF first
  <2>6. /\ UNCHANGED <<isRequestLineSet, areHeadersSet, isContentSet, remainingBuf>>
        /\ UNCHANGED <<headers, content, contentSize, declared, n, continueProcessing, outcome>>
    BY <2>1 DEF builderVars, requestVars
  <2>7. UNCHANGED Loop!loopVars
    BY <2>6 DEF Loop!loopVars, Loop!builderVars, Loop!requestVars
  <2>8. BuilderInv'
    BY <2>6 DEF ParseOK, BuilderInv, ValidMap
  <2>9. ValidMap(map')
    <3>1. CASE headers = NoMap
      <4>1. map' = <<>>
        BY <2>1, <3>1
      <4> QED BY <4>1 DEF ValidMap
    <3>2. CASE headers # NoMap
      BY <2>1, <3>2 DEF ParseOK, BuilderInv
    <3> QED BY <3>1, <3>2
  <2>10. CallInv'
    <3>1. (outcome = "ok" /\ isRequestLineSet /\ ~areHeadersSet)'
      BY <2>6
    <3>2. (chunkSize >= 1 /\ at \in 1 .. Len(text) + 2 /\ Len(text) \in 1 .. BufSize - 1)'
      BY <1>2, <2>1, <2>3
    <3>3. (Len(text) = Len(Text(remainingBuf)) + IF continueProcessing THEN 0 ELSE chunkSize)'
      BY <2>1, <2>3, <2>6 DEF Text
    <3>4. (continueProcessing => chunkSize = n)'
      BY <2>1, <2>6
    <3>5. (rest # NoBuf => \E end \in 2 .. Len(text) :
             /\ end <= chunkSize
             /\ Len(rest) = (IF Len(text) <= chunkSize THEN Len(text) ELSE chunkSize) - end)'
      BY <2>1, <2>3, <2>4, <2>5
    <3> QED BY <2>9, <3>1, <3>2, <3>3, <3>4, <3>5 DEF CallInv, ValidMap
  <2>11. ParseOK'
    <3>1. {remainingBuf, text, rest}' \subseteq Seq(Token) \cup {NoBuf}
      BY <2>3, <2>5, <2>6 DEF ParseOK
    <3>2. n' \in 0 .. BufSize - 1 /\ chunkSize' \in 0 .. BufSize - 1 /\ at' \in Nat
      BY <2>1, <2>6 DEF ParseOK
    <3> QED BY <2>6, <2>8, <2>10, <3>1, <3>2 DEF ParseOK
  <2> QED BY <2>7, <2>11
<1> QED BY <1>3, <1>4

(* The line that readHeaders has come to.                                  *)
LEMMA LineIs ==
  ASSUME ParseOK, Running
  PROVE  /\ text \in Seq(Token) /\ Len(text) \in Nat /\ at \in Nat \ {0}
         /\ RawLine \in Seq(Token) /\ Line \in Seq(Token)
         /\ Len(RawLine) \in Nat /\ Len(Line) \in Nat
         /\ at <= Len(text) => at + Len(RawLine) <= Len(text) + 1
         /\ ~AtEnd => at <= Len(text)
<1>1. text \in Seq(Token) /\ Len(text) \in Nat /\ at \in Nat \ {0}
  BY LenProperties DEF ParseOK, CallInv, Running
<1> DEFINE after == From(text, at)
<1>2. after \in Seq(Token) /\ Len(after) = IF at <= Len(text) THEN Len(text) - at + 1 ELSE 0
  BY <1>1, FromIs
<1> HIDE DEF after
<1>3. /\ RawLine \in Seq(Token) /\ Len(RawLine) <= Len(after)
      /\ Len(RawLine) \in Nat
  BY <1>2, UptoIs, LenProperties DEF RawLine, after
<1>4. Line \in Seq(Token) /\ Len(Line) \in Nat
  BY <1>3, TrimIs, LenProperties DEF Line
<1>5. ~AtEnd => at <= Len(text)
  BY DEF AtEnd, At
<1> QED BY <1>1, <1>2, <1>3, <1>4, <1>5

LEMMA AddFieldKeeps ==
  ASSUME NEW m, ValidMap(m), NEW name \in Seq(Token), NEW value \in Seq(Token)
  PROVE  ValidMap(AddField(m, name, value))
<1> DEFINE new == AddField(m, name, value)
<1>1. DOMAIN new = DOMAIN m \cup {name}
  BY DEF AddField
<1>2. ASSUME NEW f \in DOMAIN new PROVE new[f] \in Seq(Token)
  <2>1. CASE f # name
    BY <1>1, <2>1 DEF ValidMap, AddField
  <2>2. CASE f = name /\ name \in DOMAIN m
    <3>1. new[f] = First(m[name] \o value, ValueMax)
      BY <2>2 DEF AddField
    <3>2. m[name] \in Seq(Token)
      BY <2>2 DEF ValidMap
    <3>3. m[name] \o value \in Seq(Token)
      BY <3>2, ConcatProperties
    <3> QED BY <3>1, <3>3, FirstIs
  <2>3. CASE f = name /\ name \notin DOMAIN m
    BY <2>3 DEF AddField
  <2> QED BY <2>1, <2>2, <2>3
<1> HIDE DEF new
<1>3. DOMAIN new \subseteq Seq(Token)
  BY <1>1 DEF ValidMap
<1> QED BY <1>2, <1>3 DEF new, ValidMap

LEMMA ReadHeaderStep ==
  ASSUME ParseOK, ReadHeader
  PROVE  ParseOK' /\ \/ UNCHANGED Loop!loopVars
                     \/ Loop!Dies("nullDeref") /\ n' = chunkSize
<1> DEFINE line == Line
           colon == SelectInSeq(line, LAMBDA t : t = "COLON")
           name == [j \in 1 .. colon - 1 |-> Lower(line[j])]
           value == From(line, colon + 1)
<1>1. Running /\ ~AtEnd
  BY DEF ReadHeader
<1>2. /\ text \in Seq(Token) /\ Len(text) \in Nat /\ at \in Nat \ {0}
      /\ line \in Seq(Token) /\ Len(RawLine) \in Nat /\ Len(line) \in Nat
      /\ at <= Len(text) => at + Len(RawLine) <= Len(text) + 1
      /\ at <= Len(text)
  BY <1>1, LineIs
<1>3. chunkSize \in 1 .. BufSize - 1
  BY <1>1 DEF ParseOK, CallInv
<1>4. \/ colon = 0 /\ Dies("nullDeref", chunkSize)
      \/ /\ colon # 0
         /\ map' = AddField(map, name, value)
         /\ at' = at + Len(RawLine) + 1
         /\ UNCHANGED <<builderVars, requestVars, text, rest, chunkSize, n,
                        continueProcessing, outcome>>
  BY DEF ReadHeader
<1>5. CASE colon = 0 /\ Dies("nullDeref", chunkSize)
  BY <1>3, <1>5, DiesKeeps
<1>6. CASE /\ colon # 0
           /\ map' = AddField(map, name, value)
           /\ at' = at + Len(RawLine) + 1
           /\ UNCHANGED <<builderVars, requestVars, text, rest, chunkSize, n,
                          continueProcessing, outcome>>
  <2>1. colon \in 0 .. Len(line)
    <3> HIDE DEF line
    <3> QED BY <1>2, ColonIs DEF Colon
  <2> HIDE DEF colon
  <2>2. name \in Seq(Token)
    <3>1. \A j \in 1 .. colon - 1 : Lower(line[j]) \in Token
      <4>1. \A t \in Token : Lower(t) \in Token
        BY DEF Lower, Token, FieldNames
      <4>2. \A j \in 1 .. colon - 1 : line[j] \in Token
        <5>1. \A j \in 1 .. Len(line) : line[j] \in Token
          BY <1>2, ElementOfSeq
        <5> HIDE DEF line
        <5> QED BY <1>2, <2>1, <5>1
      <4> QED BY <4>1, <4>2
    <3>2. colon - 1 \in Nat
      BY <1>6, <2>1
    <3> HIDE DEF line
    <3> QED BY <3>1, <3>2, IsASeq
  <2>3. value \in Seq(Token)
    <3>1. colon + 1 \in Nat \ {0}
      BY <2>1
    <3> HIDE DEF line
    <3> QED BY <1>2, <3>1, FromIs
  <2>4. ValidMap(map)
    BY <1>1 DEF ParseOK, CallInv
  <2> HIDE DEF name, value, line
  <2>5. ValidMap(map')
    <3>1. ValidMap(AddField(map, name, value))
      BY <2>2, <2>3, <2>4, AddFieldKeeps
    <3> QED BY <1>6, <3>1 DEF ValidMap
  <2>6. /\ UNCHANGED <<isRequestLineSet, areHeadersSet, isContentSet, remainingBuf>>
        /\ UNCHANGED <<headers, content, contentSize, declared, text, rest, chunkSize, n,
                       continueProcessing, outcome>>
    BY <1>6 DEF builderVars, requestVars
  <2>7. UNCHANGED Loop!loopVars
    BY <2>6 DEF Loop!loopVars, Loop!builderVars, Loop!requestVars
  <2>8. BuilderInv'
    BY <2>6 DEF ParseOK, BuilderInv, ValidMap
  <2>9. at' \in 1 .. Len(text) + 2
    BY <1>2, <1>6
  <2>10. CallInv'
    BY <1>1, <2>5, <2>6, <2>9 DEF ParseOK, CallInv, Running, ValidMap, Text
  <2>11. ParseOK'
    <3>1. {remainingBuf, text, rest}' \subseteq Seq(Token) \cup {NoBuf}
      BY <2>6 DEF ParseOK
    <3>2. n' \in 0 .. BufSize - 1 /\ chunkSize' \in 0 .. BufSize - 1 /\ at' \in Nat
      BY <1>2, <2>6, <2>9 DEF ParseOK
    <3> QED BY <2>6, <2>8, <2>10, <3>1, <3>2 DEF ParseOK
  <2> QED BY <2>7, <2>11
<1> QED BY <1>4, <1>5, <1>6

LEMMA HeadersReadStep ==
  ASSUME ParseOK, HeadersRead
  PROVE  /\ ParseOK' /\ n' = chunkSize
         /\ Loop!EndOfHeaders(Len(text), chunkSize) \/ Loop!MoreHeaders(Len(text))
<1> DEFINE stop == IF AtEnd THEN at ELSE at + 2
<1>1. Running
  BY DEF HeadersRead
<1>2. /\ text \in Seq(Token) /\ Len(text) \in 1 .. BufSize - 1 /\ at \in 1 .. Len(text) + 2
      /\ ~AtEnd => at <= Len(text)
      /\ isRequestLineSet /\ ~areHeadersSet /\ chunkSize \in 1 .. BufSize - 1 /\ ValidMap(map)
  BY <1>1, LineIs DEF ParseOK, CallInv
<1>3. stop \in Nat \ {0} /\ stop <= Len(text) + 2 /\ (At(text, stop) \in {"NUL", "LF"} \/ stop >= 2)
  <2>1. CASE AtEnd
    BY <1>2, <2>1 DEF AtEnd
  <2>2. CASE ~AtEnd
    BY <1>2, <2>2
  <2> QED BY <2>1, <2>2
<1>4. \/ rest = NoBuf /\ stop + 1 > BufSize /\ Dies("overread", chunkSize)
      \/ /\ areHeadersSet' = (rest # NoBuf)
         /\ headers' = map
         /\ remainingBuf' = IF rest # NoBuf THEN rest ELSE First(OneFurther(text, stop), chunkSize)
         /\ Returns(chunkSize)
         /\ UNCHANGED <<isRequestLineSet, isContentSet, content, contentSize, declared>>
  BY DEF HeadersRead
<1> HIDE DEF stop
<1>5. CASE rest = NoBuf /\ stop + 1 > BufSize /\ Dies("overread", chunkSize)
  <2>1. Len(text) >= BufSize - 2
    BY <1>2, <1>3, <1>5
  <2> QED BY <1>2, <1>5, <2>1, DiesKeeps DEF Loop!MoreHeaders
<1>6. CASE /\ areHeadersSet' = (rest # NoBuf)
           /\ headers' = map
           /\ remainingBuf' = IF rest # NoBuf THEN rest ELSE First(OneFurther(text, stop), chunkSize)
           /\ Returns(chunkSize)
           /\ UNCHANGED <<isRequestLineSet, isContentSet, content, contentSize, declared>>
  <2>1. map # NoMap /\ headers' # NoMap /\ ValidMap(headers')
    BY <1>2, <1>6, NoMapApart DEF ValidMap
  <2>2. /\ First(OneFurther(text, stop), chunkSize) \in Seq(Token)
        /\ Len(First(OneFurther(text, stop), chunkSize)) \in 0 .. Len(text) - 1
    <3> DEFINE kept == OneFurther(text, stop)
    <3>1. kept \in Seq(Token) /\ Len(kept) < Len(text) /\ Len(kept) \in Nat
      <4>1. Len(text) >= 1
        BY <1>2
      <4> QED BY <1>2, <1>3, <4>1, OneFurtherIs, LenProperties
    <3> HIDE DEF kept
    <3>2. /\ First(kept, chunkSize) \in Seq(Token)
          /\ Len(First(kept, chunkSize)) = IF Len(kept) <= chunkSize THEN Len(kept) ELSE chunkSize
      BY <1>2, <3>1, FirstIs
    <3> QED BY <1>2, <3>1, <3>2 DEF kept
  <2>3. remainingBuf' \in Seq(Token) \cup {NoBuf} /\ remainingBuf' # NoBuf
    <3>1. rest # NoBuf => rest \in Seq(Token)
      BY DEF ParseOK
    <3> QED BY <1>6, <2>2, <3>1, NoBufApart
  <2>4. ParseOK' /\ Loop!Returns /\ n' = chunkSize
    <3>1. <<isRequestLineSet, areHeadersSet, isContentSet>>' \in BOOLEAN \X BOOLEAN \X BOOLEAN
      <4>1. areHeadersSet' \in BOOLEAN
        BY <1>6
      <4> QED BY <1>6, <4>1 DEF ParseOK
    <3>2. content' \in Seq(Token) /\ contentSize' \in Nat /\ Len(content)' < contentSize'
      BY <1>6 DEF ParseOK, BuilderInv
    <3> QED BY <1>2, <1>6, <2>1, <2>3, <3>1, <3>2, ReturnsKeeps
  <2>5. Loop!CreateHeaders
    BY <2>1 DEF Loop!CreateHeaders
  <2>6. CASE rest # NoBuf
    <3>1. PICK end \in 2 .. Len(text) :
             /\ end <= chunkSize
             /\ Len(rest) = (IF Len(text) <= chunkSize THEN Len(text) ELSE chunkSize) - end
      BY <1>1, <2>6 DEF ParseOK, CallInv
    <3>2. remainingBuf' = rest /\ areHeadersSet' = TRUE
      BY <1>6, <2>6
    <3>3. Kept' = Loop!Smaller(Len(text), chunkSize) - end
      BY <2>3, <3>1, <3>2 DEF Kept, Loop!Smaller
    <3>4. ~ (end > chunkSize)
      BY <1>2, <3>1
    <3> QED BY <1>6, <2>4, <2>5, <3>2, <3>3, <3>4 DEF Loop!EndOfHeaders, Kept
  <2>7. CASE rest = NoBuf
    <3>1. areHeadersSet' = FALSE /\ areHeadersSet' = areHeadersSet
      BY <1>2, <1>6, <2>7 DEF ParseOK
    <3>2. Kept' \in 0 .. Len(text) - 1
      BY <1>6, <2>2, <2>3, <2>7 DEF Kept
    <3> QED BY <1>6, <2>4, <2>5, <3>1, <3>2 DEF Loop!MoreHeaders, Kept
  <2> QED BY <2>4, <2>6, <2>7
<1> QED BY <1>4, <1>5, <1>6

----------------------------------------------------------------------------
(* What a client sends.                                                    *)

LEMMA RequestIs ==
  ASSUME NEW r \in Requests
  PROVE  /\ Len(r.fields) \in 0 .. MaxFields /\ r.length \in 0 .. MaxBody
         /\ DOMAIN r.fields = 1 .. Len(r.fields)
         /\ \A i \in 1 .. Len(r.fields) :
              r.fields[i] \in FieldNames /\ ValueOf(r, i) \in Token \ (Special \cup {"NULL"})
         /\ \/ r.eol = <<"CR", "LF">> /\ Width(r) = 5 /\ Len(r.eol) = 2
            \/ r.eol = <<"LF">> /\ Width(r) = 4 /\ Len(r.eol) = 1
<1>1. PICK m \in MinFields .. MaxFields : r.fields \in [1 .. m -> FieldNames]
  BY DEF Requests
<1>2. m \in Nat /\ Len(r.fields) = m
  BY <1>1
<1>3. r.length \in 0 .. MaxBody /\ r.eol \in {<<"CR", "LF">>, <<"LF">>}
  BY DEF Requests
<1>4. ASSUME NEW i \in 1 .. m
      PROVE  r.fields[i] \in FieldNames /\ ValueOf(r, i) \in Token \ (Special \cup {"NULL"})
  <2>1. Values[i] \in Range(Values)
    <3>1. i \in 1 .. Len(Values) /\ Values \in Seq(Range(Values))
      BY <1>2
    <3> QED BY <3>1, ElementOfSeq
  <2>2. "length" \in Token \ (Special \cup {"NULL"})
    BY DEF Token, Special
  <2>3. Values[i] \in Token \ (Special \cup {"NULL"})
    BY <2>1 DEF Token
  <2> QED BY <1>1, <2>2, <2>3 DEF ValueOf
<1>5. \/ r.eol = <<"CR", "LF">> /\ Width(r) = 5 /\ Len(r.eol) = 2
      \/ r.eol = <<"LF">> /\ Width(r) = 4 /\ Len(r.eol) = 1
  <2>1. CASE r.eol = <<"CR", "LF">>
    BY <2>1 DEF Width
  <2>2. CASE r.eol = <<"LF">>
    BY <2>2 DEF Width
  <2> QED BY <1>3, <2>1, <2>2
<1> QED BY <1>1, <1>2, <1>3, <1>4, <1>5

(* The j-th byte of line k with its end.                                   *)
LineByte(r, k, j) == (LineOf(r, k) \o r.eol)[j]

LEMMA LineByteIs ==
  ASSUME NEW r \in Requests, NEW k \in 0 .. Len(r.fields) + 1, NEW j \in 1 .. Width(r),
         k = Len(r.fields) + 1 => j <= Len(r.eol)
  PROVE  /\ LineByte(r, k, j) \in Token
         /\ k = 0 => /\ LineByte(r, k, 1) = "GET" /\ LineByte(r, k, 2) = "target"
                     /\ LineByte(r, k, 3) = "HTTP/1.1"
         /\ k \in 1 .. Len(r.fields) =>
              /\ LineByte(r, k, 1) = r.fields[k] /\ LineByte(r, k, 2) = "COLON"
              /\ LineByte(r, k, 3) = ValueOf(r, k)
         /\ k <= Len(r.fields) /\ j >= 4 => LineByte(r, k, j) = r.eol[j - 3]
         /\ k = Len(r.fields) + 1 => LineByte(r, k, j) = r.eol[j]
<1> DEFINE m == Len(r.fields)
<1>1. /\ m \in Nat
      /\ \A i \in 1 .. m : r.fields[i] \in FieldNames /\ ValueOf(r, i) \in Token
      /\ \/ r.eol = <<"CR", "LF">> /\ Width(r) = 5 /\ Len(r.eol) = 2
         \/ r.eol = <<"LF">> /\ Width(r) = 4 /\ Len(r.eol) = 1
  BY RequestIs
<1>2. /\ r.eol \in Seq(Token)
      /\ {"GET", "target", "HTTP/1.1", "COLON"} \cup FieldNames \subseteq Token
  <2>1. {"GET", "target", "HTTP/1.1", "COLON", "CR", "LF"} \cup FieldNames \subseteq Token
    BY DEF Token, Special
  <2>2. "CR" \in Token /\ "LF" \in Token
    BY Tokens
  <2>3. <<"CR", "LF">> \in Seq(Token) /\ <<"LF">> \in Seq(Token)
    BY <2>2
  <2> QED BY <1>1, <2>1, <2>3
<1>8. Width(r) = 3 + Len(r.eol) /\ Len(r.eol) \in Nat
  BY <1>2, LenProperties DEF Width
<1> DEFINE line == LineOf(r, k)
           l == Len(line)
<1>7. line \in Seq(Token) =>
        /\ l \in Nat
        /\ \A i \in 1 .. l : LineByte(r, k, i) = line[i] /\ line[i] \in Token
        /\ \A i \in l + 1 .. l + Len(r.eol) :
             LineByte(r, k, i) = r.eol[i - l] /\ r.eol[i - l] \in Token
  <2> SUFFICES ASSUME line \in Seq(Token)
               PROVE  /\ l \in Nat
                      /\ \A i \in 1 .. l : LineByte(r, k, i) = line[i] /\ line[i] \in Token
                      /\ \A i \in l + 1 .. l + Len(r.eol) :
                           LineByte(r, k, i) = r.eol[i - l] /\ r.eol[i - l] \in Token
    OBVIOUS
  <2> HIDE DEF line
  <2>1. l \in Nat /\ \A i \in 1 .. l : line[i] \in Token
    BY LenProperties, ElementOfSeq
  <2>2. Len(r.eol) \in Nat /\ \A i \in 1 .. Len(r.eol) : r.eol[i] \in Token
    BY <1>2, LenProperties, ElementOfSeq
  <2>3. /\ Len(line \o r.eol) = l + Len(r.eol)
        /\ \A i \in 1 .. l + Len(r.eol) :
             (line \o r.eol)[i] = IF i <= l THEN line[i] ELSE r.eol[i - l]
    BY <1>2, ConcatProperties
  <2> HIDE DEF l
  <2> QED BY <2>1, <2>2, <2>3, SMTT(20) DEF LineByte, line
<1>3. CASE k = 0
  <2>1. LineOf(r, k) = <<"GET", "target", "HTTP/1.1">>
    BY <1>3 DEF LineOf
  <2>2. LineOf(r, k) \in Seq(Token) /\ Len(LineOf(r, k)) = 3
    BY <1>2, <2>1
  <2>3. line[1] = "GET" /\ line[2] = "target" /\ line[3] = "HTTP/1.1" /\ l = 3
    BY <2>1
  <2>4. /\ \A i \in 1 .. 3 : LineByte(r, k, i) = line[i] /\ line[i] \in Token
        /\ \A i \in 4 .. 3 + Len(r.eol) :
             LineByte(r, k, i) = r.eol[i - 3] /\ r.eol[i - 3] \in Token
    <3>1. line \in Seq(Token)
      BY <2>2
    <3> HIDE DEF line, l
    <3>2. /\ \A i \in 1 .. l : LineByte(r, k, i) = line[i] /\ line[i] \in Token
          /\ \A i \in l + 1 .. l + Len(r.eol) :
               LineByte(r, k, i) = r.eol[i - l] /\ r.eol[i - l] \in Token
      BY <1>7, <3>1
    <3> QED BY <2>3, <3>2
  <2> HIDE DEF line, l
  <2>5. LineByte(r, k, 1) = line[1] /\ LineByte(r, k, 2) = line[2] /\ LineByte(r, k, 3) = line[3]
    BY <2>4
  <2>6. LineByte(r, k, j) \in Token /\ (j >= 4 => LineByte(r, k, j) = r.eol[j - 3])
    <3>1. j \in 1 .. 3 \/ j \in 4 .. 3 + Len(r.eol)
      BY <1>8
    <3> QED BY <2>4, <3>1
  <2> QED BY <1>1, <1>3, <2>3, <2>5, <2>6
<1>4. CASE k \in 1 .. m
  <2>1. LineOf(r, k) = <<r.fields[k], "COLON", ValueOf(r, k)>>
    BY <1>4 DEF LineOf
  <2>2. LineOf(r, k) \in Seq(Token) /\ Len(LineOf(r, k)) = 3
    BY <1>1, <1>2, <1>4, <2>1
  <2>3. line[1] = r.fields[k] /\ line[2] = "COLON" /\ line[3] = ValueOf(r, k) /\ l = 3
    BY <2>1
  <2>4. /\ \A i \in 1 .. 3 : LineByte(r, k, i) = line[i] /\ line[i] \in Token
        /\ \A i \in 4 .. 3 + Len(r.eol) :
             LineByte(r, k, i) = r.eol[i - 3] /\ r.eol[i - 3] \in Token
    <3>1. line \in Seq(Token)
      BY <2>2
    <3> HIDE DEF line, l
    <3>2. /\ \A i \in 1 .. l : LineByte(r, k, i) = line[i] /\ line[i] \in Token
          /\ \A i \in l + 1 .. l + Len(r.eol) :
               LineByte(r, k, i) = r.eol[i - l] /\ r.eol[i - l] \in Token
      BY <1>7, <3>1
    <3> QED BY <2>3, <3>2
  <2> HIDE DEF line, l
  <2>5. LineByte(r, k, 1) = line[1] /\ LineByte(r, k, 2) = line[2] /\ LineByte(r, k, 3) = line[3]
    BY <2>4
  <2>6. LineByte(r, k, j) \in Token /\ (j >= 4 => LineByte(r, k, j) = r.eol[j - 3])
    <3>1. j \in 1 .. 3 \/ j \in 4 .. 3 + Len(r.eol)
      BY <1>8
    <3> QED BY <2>4, <3>1
  <2> QED BY <1>1, <1>4, <2>3, <2>5, <2>6
<1>5. CASE k = m + 1
  <2>1. LineOf(r, k) = <<>>
    BY <1>1, <1>5 DEF LineOf
  <2>2. LineOf(r, k) \in Seq(Token) /\ Len(LineOf(r, k)) = 0
    BY <2>1
  <2>3. l = 0
    BY <2>1
  <2> HIDE DEF line, l
  <2> QED BY <1>1, <1>5, <1>7, <2>2, <2>3, SMTT(20) DEF line
<1>6. k = 0 \/ k \in 1 .. m \/ k = m + 1
  BY <1>1
<1> QED BY <1>3, <1>4, <1>5, <1>6

LEMMA StreamIs ==
  ASSUME NEW r \in Requests
  PROVE  /\ HeadLen(r) \in Nat /\ HeadLen(r) = (Len(r.fields) + 1) * Width(r) + Len(r.eol)
         /\ StreamOf(r) \in Seq(Token) /\ Len(StreamOf(r)) = HeadLen(r) + r.length
         /\ \A p \in HeadLen(r) + 1 .. Len(StreamOf(r)) : StreamOf(r)[p] = "body"
         /\ \A p \in 1 .. HeadLen(r) :
              StreamOf(r)[p] = LineByte(r, (p - 1) \div Width(r), ((p - 1) % Width(r)) + 1)
<1> DEFINE m == Len(r.fields)
           w == Width(r)
           size == HeadLen(r) + r.length
           Byte(p) == IF p > HeadLen(r) THEN "body"
                      ELSE LineByte(r, (p - 1) \div w, ((p - 1) % w) + 1)
<1>1. /\ m \in Nat /\ r.length \in Nat
      /\ \/ w = 5 /\ Len(r.eol) = 2
         \/ w = 4 /\ Len(r.eol) = 1
  BY RequestIs
<1>2. HeadLen(r) = (m + 1) * w + Len(r.eol)
  BY DEF HeadLen
<1>3. HeadLen(r) \in Nat /\ size \in Nat
  <2> HIDE DEF m, w
  <2>1. CASE w = 5 /\ Len(r.eol) = 2
    BY <1>1, <1>2, <2>1
  <2>2. CASE w = 4 /\ Len(r.eol) = 1
    BY <1>1, <1>2, <2>2
  <2> QED BY <1>1, <2>1, <2>2
<1>4. ASSUME NEW p \in 1 .. size PROVE Byte(p) \in Token
  <2>1. CASE p > HeadLen(r)
    <3>1. "body" \in Token
      BY DEF Token
    <3> QED BY <2>1, <3>1
  <2>2. CASE ~ (p > HeadLen(r))
    <3> DEFINE k == (p - 1) \div w
               j == ((p - 1) % w) + 1
    <3>1. k \in 0 .. m + 1 /\ j \in 1 .. w /\ (k = m + 1 => j <= Len(r.eol))
      <4> HIDE DEF m, w
      <4>1. p - 1 \in Nat /\ p - 1 < (m + 1) * w + Len(r.eol)
        BY <1>2, <1>3, <2>2
      <4>2. CASE w = 5 /\ Len(r.eol) = 2
        BY <1>1, <4>1, <4>2
      <4>3. CASE w = 4 /\ Len(r.eol) = 1
        BY <1>1, <4>1, <4>3
      <4> QED BY <1>1, <4>2, <4>3
    <3>2. LineByte(r, k, j) \in Token
      <4> HIDE DEF k, j
      <4> QED BY <3>1, LineByteIs
    <3> QED BY <2>2, <3>2
  <2> QED BY <2>1, <2>2
<1>5. StreamOf(r) = [p \in 1 .. size |-> Byte(p)]
  BY DEF StreamOf, LineByte
<1> HIDE DEF Byte, size
<1>6. StreamOf(r) \in Seq(Token) /\ Len(StreamOf(r)) = size /\ \A p \in 1 .. size : StreamOf(r)[p] = Byte(p)
  <2>1. [p \in 1 .. size |-> Byte(p)] \in [1 .. size -> Token]
    BY <1>4
  <2>2. StreamOf(r) \in [1 .. size -> Token]
    BY <1>5, <2>1
  <2>3. \A p \in 1 .. size : StreamOf(r)[p] = Byte(p)
    BY <1>5
  <2>4. StreamOf(r) \in Seq(Token) /\ Len(StreamOf(r)) = size
    BY <1>3, <2>2
  <2> QED BY <2>3, <2>4
<1>7. \A p \in 1 .. HeadLen(r) : p \in 1 .. size /\ ~ (p > HeadLen(r))
  BY <1>1, <1>3 DEF size
<1>8. \A p \in HeadLen(r) + 1 .. size : p \in 1 .. size /\ p > HeadLen(r)
  BY <1>3
<1> HIDE DEF m
<1> QED BY <1>2, <1>3, <1>6, <1>7, <1>8 DEF Byte, size, m

LEMMA CutsIs ==
  ASSUME request \in Requests
  PROVE  Cuts(request) \subseteq 0 .. Len(StreamOf(request))
<1> DEFINE m == Len(request.fields)
           w == Width(request)
           h == HeadLen(request)
           size == Len(StreamOf(request))
<1>1. /\ m \in Nat /\ h \in Nat /\ size \in Nat /\ h <= size
      /\ h = (m + 1) * w + Len(request.eol)
      /\ \/ w = 5 /\ Len(request.eol) = 2
         \/ w = 4 /\ Len(request.eol) = 1
  <2>1. /\ m \in Nat /\ request.length \in Nat
        /\ \/ w = 5 /\ Len(request.eol) = 2
           \/ w = 4 /\ Len(request.eol) = 1
    BY RequestIs
  <2>2. h \in Nat /\ h = (m + 1) * w + Len(request.eol) /\ size = h + request.length
    BY StreamIs
  <2> HIDE DEF m, w, h, size
  <2> QED BY <2>1, <2>2, SMTT(20)
<1>2. Cuts(request) = IF anyCut THEN 1 .. size
                      ELSE {k * w : k \in 1 .. m + 1} \cup h .. size
  BY DEF Cuts
<1> HIDE DEF m, w, h, size
<1>3. ASSUME NEW k \in 1 .. m + 1 PROVE k * w \in 0 .. size
  <2>1. CASE w = 5 /\ Len(request.eol) = 2
    BY <1>1, <2>1
  <2>2. CASE w = 4 /\ Len(request.eol) = 1
    BY <1>1, <2>2
  <2> QED BY <1>1, <2>1, <2>2
<1>4. 1 .. size \subseteq 0 .. size /\ h .. size \subseteq 0 .. size
  BY <1>1
<1> QED BY <1>2, <1>3, <1>4 DEF size

----------------------------------------------------------------------------
(* Every step of the parser is a step of the loop, or none.                *)

LEMMA LoopStep ==
  ASSUME ParseOK, outcome = "ok", NEW k \in 1 .. BufSize - 1, n' = k, continueProcessing => k = n,
         Loop!ProcessRequestChunk(IF continueProcessing THEN 0 ELSE k, k)
  PROVE  Loop!LoopNext
<1>1. CASE continueProcessing
  <2>1. Loop!ProcessRequestChunk(0, n) /\ n' = n
    BY <1>1
  <2>2. Loop!ProcessAgain
    BY <1>1, <2>1 DEF Loop!ProcessAgain
  <2> QED BY <2>2 DEF Loop!LoopNext
<1>2. CASE ~continueProcessing
  <2>1. Loop!ProcessRequestChunk(k, k)
    BY <1>2
  <2>2. Loop!RecvChunk(k)
    BY <1>2, <2>1 DEF Loop!RecvChunk
  <2> QED BY <2>2 DEF Loop!LoopNext
<1> QED BY <1>1, <1>2

LEMMA CallStep ==
  ASSUME EnvOK, ParseOK, outcome = "ok", ~Running, NEW chunk \in Seq(Token), NEW k \in 1 .. BufSize - 1,
         continueProcessing => k = n, Len(chunk) = IF continueProcessing THEN 0 ELSE k,
         ProcessRequestChunk(chunk, k)
  PROVE  ParseOK' /\ [Loop!LoopNext]_(Loop!loopVars)
<1> DEFINE buf == Text(remainingBuf) \o chunk
           received == IF continueProcessing THEN 0 ELSE k
<1>1. /\ Text(remainingBuf) \in Seq(Token) /\ Len(Text(remainingBuf)) = Loop!Strlen(Kept)
      /\ Len(Text(remainingBuf)) \in Nat
  BY TextIs
<1>2. /\ buf \in Seq(Token) /\ Len(buf) = Len(Text(remainingBuf)) + received
      /\ Len(buf) \in Nat \ {0}
  <2>1. /\ buf \in Seq(Token) /\ Len(buf) = Len(Text(remainingBuf)) + Len(chunk)
    BY <1>1, ConcatProperties
  <2>2. continueProcessing => Len(Text(remainingBuf)) # 0
    <3>1. continueProcessing => Text(remainingBuf) = remainingBuf /\ remainingBuf # <<>>
      BY DEF ParseOK, BuilderInv, Text
    <3> QED BY <1>1, <3>1, EmptySeq
  <2> HIDE DEF buf
  <2> QED BY <1>1, <2>1, <2>2
<1>3. ProcessRequestChunk(chunk, k) <=>
        IF Len(buf) >= BufSize THEN Dies("prependOverflow", k)
        ELSE CASE ~isRequestLineSet -> ParseRequestLine(buf, k)
               [] isRequestLineSet /\ ~areHeadersSet -> ParseHeaders(buf, k)
               [] isRequestLineSet /\ areHeadersSet /\ ~isContentSet -> SetContent(buf, k)
               [] OTHER -> AppendContent(buf, k)
  BY DEF ProcessRequestChunk
<1> HIDE DEF buf, received
<1>4. Loop!Strlen(Kept) + received = Len(buf)
  BY <1>1, <1>2
<1>5. isRequestLineSet \in BOOLEAN /\ areHeadersSet \in BOOLEAN /\ isContentSet \in BOOLEAN
  BY DEF ParseOK
<1>6. CASE Len(buf) >= BufSize
  <2>1. Dies("prependOverflow", k)
    BY <1>3, <1>6
  <2>2. ParseOK' /\ Loop!Dies("prependOverflow") /\ n' = k
    BY <2>1, DiesKeeps
  <2>3. Loop!ProcessRequestChunk(received, k)
    BY <1>4, <1>6, <2>2 DEF Loop!ProcessRequestChunk, Kept
  <2> QED BY <2>2, <2>3, LoopStep DEF received
<1>7. CASE ~ (Len(buf) >= BufSize)
  <2>1. Len(buf) \in 1 .. BufSize - 1 /\ Len(buf) < BufSize
    BY <1>2, <1>7
  <2>2. CASE ~isRequestLineSet
    <3>1. ParseRequestLine(buf, k)
      BY <1>3, <1>7, <2>2
    <3>2. ParseOK' /\ Loop!ParseRequestLine(Len(buf)) /\ n' = k
      BY <1>2, <2>1, <2>2, <3>1, RequestLineStep
    <3>3. Loop!ProcessRequestChunk(received, k)
      BY <1>4, <2>1, <2>2, <3>2 DEF Loop!ProcessRequestChunk, Kept
    <3> QED BY <3>2, <3>3, LoopStep DEF received
  <2>3. CASE isRequestLineSet /\ ~areHeadersSet
    <3>1. ParseHeaders(buf, k)
      BY <1>3, <1>7, <2>3
    <3>2. /\ ParseOK'
          /\ \/ UNCHANGED Loop!loopVars
             \/ Loop!EndOfHeaders(Len(buf), k) /\ n' = k
      BY <1>2, <2>1, <2>3, <3>1, ParseHeadersStep DEF received
    <3>3. ASSUME Loop!EndOfHeaders(Len(buf), k), n' = k PROVE Loop!LoopNext
      <4>1. Loop!ProcessRequestChunk(received, k)
        BY <1>4, <2>1, <2>3, <3>3 DEF Loop!ProcessRequestChunk, Kept
      <4> QED BY <3>3, <4>1, LoopStep DEF received
    <3> QED BY <3>2, <3>3
  <2>4. CASE isRequestLineSet /\ areHeadersSet /\ ~isContentSet
    <3>1. SetContent(buf, k)
      BY <1>3, <1>7, <2>4
    <3>2. ParseOK' /\ Loop!SetContent(Len(buf)) /\ n' = k
      BY <1>2, <2>1, <2>4, <3>1, SetContentStep
    <3>3. Loop!ProcessRequestChunk(received, k)
      BY <1>4, <2>1, <2>4, <3>2 DEF Loop!ProcessRequestChunk, Kept
    <3> QED BY <3>2, <3>3, LoopStep DEF received
  <2>5. CASE isRequestLineSet /\ areHeadersSet /\ isContentSet
    <3>1. AppendContent(buf, k)
      BY <1>3, <1>7, <2>5
    <3>2. ParseOK' /\ Loop!AppendContent(Len(buf), k) /\ n' = k
      BY <1>2, <2>1, <2>5, <3>1, AppendContentStep
    <3>3. Loop!ProcessRequestChunk(received, k)
      BY <1>4, <2>1, <2>5, <3>2 DEF Loop!ProcessRequestChunk, Kept
    <3> QED BY <3>2, <3>3, LoopStep DEF received
  <2> QED BY <1>5, <2>2, <2>3, <2>4, <2>5
<1> QED BY <1>6, <1>7

(* readHeaders works on what the call has in buf.                          *)
LEMMA HeadersLoopStep ==
  ASSUME ParseOK, Running, n' = chunkSize,
         Loop!EndOfHeaders(Len(text), chunkSize) \/ Loop!MoreHeaders(Len(text))
                                                 \/ Loop!Dies("nullDeref")
  PROVE  Loop!LoopNext
<1>1. /\ outcome = "ok" /\ isRequestLineSet /\ ~areHeadersSet /\ chunkSize \in 1 .. BufSize - 1
      /\ Len(text) \in 1 .. BufSize - 1
      /\ continueProcessing => chunkSize = n
      /\ Len(text) = Len(Text(remainingBuf)) + IF continueProcessing THEN 0 ELSE chunkSize
  BY DEF ParseOK, CallInv
<1> DEFINE received == IF continueProcessing THEN 0 ELSE chunkSize
<1>2. Loop!Strlen(Kept) + received = Len(text) /\ Len(text) < BufSize
  BY <1>1, TextIs
<1> HIDE DEF received
<1>3. Loop!ProcessRequestChunk(received, chunkSize)
  BY <1>1, <1>2 DEF Loop!ProcessRequestChunk, Kept
<1> QED BY <1>1, <1>3, LoopStep DEF received

LEMMA StepIs ==
  ParserInv /\ [Next]_vars => ParserInv' /\ [Loop!LoopNext]_(Loop!loopVars)
<1> SUFFICES ASSUME ParserInv, [Next]_vars
             PROVE  ParserInv' /\ [Loop!LoopNext]_(Loop!loopVars)
  OBVIOUS
<1>1. /\ EnvOK /\ ParseOK /\ request \in Requests
      /\ taken \in Nat /\ sent \in Nat /\ taken <= sent
      /\ Len(StreamOf(request)) \in Nat /\ sent <= Len(StreamOf(request))
  <2>1. EnvOK /\ ParseOK /\ request \in Requests
    BY DEF ParserInv, EnvOK
  <2>2. Len(StreamOf(request)) \in Nat
    BY <2>1, StreamIs, LenProperties
  <2> QED BY <2>1, <2>2 DEF EnvOK
<1>2. ASSUME UNCHANGED parseVars PROVE ParseOK' /\ UNCHANGED Loop!loopVars
  <2>1. /\ UNCHANGED <<isRequestLineSet, areHeadersSet, isContentSet, remainingBuf>>
        /\ UNCHANGED <<headers, content, contentSize, declared>>
        /\ UNCHANGED <<text, at, map, rest, chunkSize, n, continueProcessing, outcome>>
    BY <1>2 DEF parseVars, builderVars, requestVars, callVars
  <2>2. BuilderInv'
    BY <1>1, <2>1 DEF ParseOK, BuilderInv, ValidMap
  <2>3. CallInv'
    BY <1>1, <2>1 DEF ParseOK, CallInv, ValidMap, Running, Text
  <2>4. {remainingBuf, text, rest}' \subseteq Seq(Token) \cup {NoBuf}
    BY <1>1, <2>1 DEF ParseOK
  <2>5. ParseOK'
    BY <1>1, <2>1, <2>2, <2>3, <2>4 DEF ParseOK
  <2> QED BY <2>1, <2>5 DEF Loop!loopVars, Loop!builderVars, Loop!requestVars
<1>3. CASE Arrive
  <2>1. PICK k \in Cuts(request) : k > sent /\ sent' = k
    BY <1>3 DEF Arrive
  <2>2. k \in 0 .. Len(StreamOf(request))
    BY <1>1, CutsIs
  <2>3. UNCHANGED <<request, anyCut, taken, parseVars, answered>>
    BY <1>3 DEF Arrive
  <2>4. taken' \in 0 .. sent' /\ sent' \in 0 .. Len(StreamOf(request))
    BY <1>1, <2>1, <2>2, <2>3
  <2>5. EnvOK'
    BY <1>1, <2>3, <2>4 DEF EnvOK
  <2> QED BY <1>2, <2>3, <2>5 DEF ParserInv
<1>4. CASE Recv
  <2> DEFINE k == IF sent - taken < BufSize THEN sent - taken ELSE BufSize - 1
             chunk == SubSeq(StreamOf(request), taken + 1, taken + k)
  <2>1. /\ Reading /\ taken < sent /\ taken' = taken + k
        /\ ProcessRequestChunk(chunk, k)
        /\ UNCHANGED <<request, anyCut, sent, answered>>
    BY <1>4 DEF Recv
  <2>2. outcome = "ok" /\ ~Running /\ ~continueProcessing
    BY <2>1 DEF Reading
  <2>3. k \in 1 .. BufSize - 1 /\ taken + k <= sent /\ k \in Nat
    BY <1>1, <2>1
  <2>4. chunk \in Seq(Token) /\ Len(chunk) = k
    <3> DEFINE stream == StreamOf(request)
    <3>1. stream \in Seq(Token) /\ \A j \in 1 .. Len(stream) : stream[j] \in Token
      BY <1>1, StreamIs, ElementOfSeq
    <3> HIDE DEF k
    <3>2. taken + k <= Len(stream) /\ taken + 1 \in Nat /\ taken + k \in Nat /\ Len(stream) \in Nat
      BY <1>1, <2>3
    <3> HIDE DEF stream
    <3>3. k \in Nat \ {0}
      BY <2>3
    <3>4. SubSeq(stream, taken + 1, taken + k) \in Seq(Token)
          /\ Len(SubSeq(stream, taken + 1, taken + k)) = k
      BY <1>1, <3>1, <3>2, <3>3, PartIs
    <3> QED BY <3>4 DEF stream
  <2>5. EnvOK'
    BY <1>1, <2>1, <2>3 DEF EnvOK
  <2> HIDE DEF k, chunk
  <2>6. ParseOK' /\ [Loop!LoopNext]_(Loop!loopVars)
    BY <1>1, <2>1, <2>2, <2>3, <2>4, CallStep
  <2> QED BY <2>5, <2>6 DEF ParserInv
<1>5. CASE ProcessRemaining
  <2>1. /\ outcome = "ok" /\ continueProcessing /\ ~Running /\ ProcessRequestChunk(<<>>, n)
        /\ UNCHANGED <<request, anyCut, sent, taken, answered>>
    BY <1>5 DEF ProcessRemaining
  <2>2. n \in 1 .. BufSize - 1
    BY <1>1, <2>1 DEF ParseOK, BuilderInv
  <2>3. <<>> \in Seq(Token) /\ Len(<<>>) = 0
    OBVIOUS
  <2>4. ParseOK' /\ [Loop!LoopNext]_(Loop!loopVars)
    <3> DEFINE chunk == <<>>
    <3>1. chunk \in Seq(Token) /\ ProcessRequestChunk(chunk, n)
          /\ Len(chunk) = IF continueProcessing THEN 0 ELSE n
      BY <2>1, <2>3
    <3> HIDE DEF chunk
    <3> QED BY <1>1, <2>1, <2>2, <3>1, CallStep
  <2>5. EnvOK'
    BY <1>1, <2>1 DEF EnvOK
  <2> QED BY <2>4, <2>5 DEF ParserInv
<1>6. CASE ReadHeader
  <2>1. Running /\ UNCHANGED <<request, anyCut, sent, taken, answered>>
    BY <1>6 DEF ReadHeader
  <2>2. ParseOK' /\ \/ UNCHANGED Loop!loopVars
                    \/ Loop!Dies("nullDeref") /\ n' = chunkSize
    BY <1>1, <1>6, ReadHeaderStep
  <2>3. [Loop!LoopNext]_(Loop!loopVars)
    BY <1>1, <2>1, <2>2, HeadersLoopStep
  <2>4. EnvOK'
    BY <1>1, <2>1 DEF EnvOK
  <2> QED BY <2>2, <2>3, <2>4 DEF ParserInv
<1>7. CASE HeadersRead
  <2>1. Running /\ UNCHANGED <<request, anyCut, sent, taken, answered>>
    BY <1>7 DEF HeadersRead
  <2>2. ParseOK' /\ Loop!LoopNext
    BY <1>1, <1>7, <2>1, HeadersReadStep, HeadersLoopStep
  <2>3. EnvOK'
    BY <1>1, <2>1 DEF EnvOK
  <2> QED BY <2>2, <2>3 DEF ParserInv
<1>8. CASE Answer
  <2>1. UNCHANGED <<request, anyCut, sent, taken, parseVars>> /\ answered' = TRUE
    BY <1>8 DEF Answer
  <2>2. EnvOK'
    BY <1>1, <2>1 DEF EnvOK
  <2> QED BY <1>2, <2>1, <2>2 DEF ParserInv
<1>9. CASE UNCHANGED vars
  <2>1. UNCHANGED <<request, anyCut, sent, taken, parseVars, answered>>
    BY <1>9 DEF vars
  <2>2. EnvOK'
    BY <1>1, <2>1 DEF EnvOK
  <2> QED BY <1>2, <2>1, <2>2 DEF ParserInv
<1> QED BY <1>3, <1>4, <1>5, <1>6, <1>7, <1>8, <1>9 DEF Next

LEMMA InitIs == Init => ParserInv /\ Loop!LoopInit
<1> SUFFICES ASSUME Init PROVE ParserInv /\ Loop!LoopInit
  OBVIOUS
<1>1. EnvOK
  <2>1. request \in Requests /\ anyCut \in AnyCut /\ sent = 0 /\ taken = 0 /\ answered = FALSE
    BY DEF Init
  <2>2. Len(StreamOf(request)) \in Nat
    BY <2>1, StreamIs, LenProperties
  <2>3. taken \in 0 .. sent /\ sent \in 0 .. Len(StreamOf(request))
    BY <2>1, <2>2
  <2> QED BY <2>1, <2>3 DEF EnvOK
<1>2. /\ isRequestLineSet = FALSE /\ areHeadersSet = FALSE /\ isContentSet = FALSE
      /\ remainingBuf = NoBuf /\ headers = NoMap /\ content = <<>> /\ contentSize = ContentMinLen
      /\ declared = 0 /\ n = 0 /\ continueProcessing = FALSE
      /\ text = NoBuf /\ at = 0 /\ map = NoMap /\ rest = NoBuf /\ chunkSize = 0 /\ outcome = "ok"
  BY DEF Init
<1>3. BuilderInv /\ CallInv
  BY <1>2 DEF BuilderInv, CallInv, Running
<1>4. ParseOK
  <2>1. {remainingBuf, text, rest} \subseteq Seq(Token) \cup {NoBuf}
    BY <1>2
  <2>2. contentSize \in Nat /\ Len(content) < contentSize
    <3>1. ContentMinLen \in Nat /\ 1 <= ContentMinLen
      OBVIOUS
    <3> QED BY <1>2, <3>1
  <2>3. n \in 0 .. BufSize - 1 /\ chunkSize \in 0 .. BufSize - 1 /\ at \in Nat
    BY <1>2
  <2>4. /\ isRequestLineSet \in BOOLEAN /\ areHeadersSet \in BOOLEAN /\ isContentSet \in BOOLEAN
        /\ continueProcessing \in BOOLEAN
    BY <1>2
  <2> QED BY <1>3, <2>1, <2>2, <2>3, <2>4 DEF ParseOK
<1>5. Loop!LoopInit
  BY <1>2 DEF Loop!LoopInit, Loop!NoBuf
<1> QED BY <1>1, <1>4, <1>5 DEF ParserInv

----------------------------------------------------------------------------

(* The inductive invariant: while headers are read, the text is what the   *)
(* builder had kept and what was received, and what has been saved of the  *)
(* body is what follows a blank line in it.                                *)
THEOREM ParserInvariant == Spec => []ParserInv
<1>1. Init => ParserInv
  BY InitIs
<1>2. ParserInv /\ [Next]_vars => ParserInv'
  BY StepIs
<1> QED BY <1>1, <1>2, PTL DEF Spec

(* The variables of the parser keep their types, and content its room.     *)
THEOREM ParserTypeCorrect == Spec => []TypeOK
  BY InvTypes, ParserInvariant, PTL

(* Whatever is sent and however it is cut, what processRequestChunk does   *)
(* with the bytes (request.c:135-210, fields.c:39-111) is what ReceiveLoop *)
(* says of their number.                                                   *)
THEOREM ParserImplementsReceiveLoop == Spec => ImplementsReceiveLoop
<1>1. Init => Loop!LoopInit
  BY InitIs
<1>2. ParserInv /\ [Next]_vars => [Loop!LoopNext]_(Loop!loopVars)
  BY StepIs
<1> QED BY <1>1, <1>2, ParserInvariant, PTL DEF Spec, ImplementsReceiveLoop

----------------------------------------------------------------------------
(* What is proved of ReceiveLoop therefore holds of the bytes.             *)

Proved == INSTANCE ReceiveLoopProofs WITH
  ContentLengths <- 0 .. MaxBody,
  remainingBuf <- IF remainingBuf = NoBuf THEN -1 ELSE Len(remainingBuf),
  headers      <- IF headers = NoMap THEN "null" ELSE "live",
  maps         <- IF headers = NoMap THEN 0 ELSE 1,
  content      <- Len(content)

(* What ReceiveLoop assumes of its constants holds of these.               *)
LEMMA LoopAssumptions ==
  /\ BufSize \in Nat /\ BufSize >= 3
  /\ UIntMax \in Nat /\ ContentMinLen \in 1 .. UIntMax
  /\ 0 .. MaxBody \subseteq 0 .. UIntMax /\ 0 \in 0 .. MaxBody
  OBVIOUS

LEMMA SameInit == Loop!LoopInit => Proved!LoopInit
  BY SMTT(20) DEF Loop!LoopInit, Proved!LoopInit, Loop!NoBuf, Proved!NoBuf

LEMMA SameNext == [Loop!LoopNext]_(Loop!loopVars) => [Proved!LoopNext]_(Proved!loopVars)
  BY DEF Loop!LoopNext, Loop!loopVars, Loop!builderVars, Loop!requestVars, Loop!NoBuf,
         Loop!Strlen, Loop!Smaller, Loop!Dies, Loop!Returns, Loop!ParseRequestLine,
         Loop!CreateHeaders, Loop!EndOfHeaders, Loop!MoreHeaders, Loop!SetContent,
         Loop!AppendContent, Loop!ProcessRequestChunk, Loop!RecvChunk, Loop!ProcessAgain,
         Loop!ResetRequest, Loop!Answered, Loop!FreeRequest, Loop!Killed,
         Proved!LoopNext, Proved!loopVars, Proved!builderVars, Proved!requestVars, Proved!NoBuf,
         Proved!Strlen, Proved!Smaller, Proved!Dies, Proved!Returns, Proved!ParseRequestLine,
         Proved!CreateHeaders, Proved!EndOfHeaders, Proved!MoreHeaders, Proved!SetContent,
         Proved!AppendContent, Proved!ProcessRequestChunk, Proved!RecvChunk, Proved!ProcessAgain,
         Proved!ResetRequest, Proved!Answered, Proved!FreeRequest, Proved!Killed

LEMMA LoopStepOfStep ==
  ParserInv /\ [Next]_vars => [Proved!LoopNext]_(Proved!loopVars)
  BY StepIs, SameNext

LEMMA ParserLoopInvariant == Spec => []Proved!LoopInv
<1>1. Init => Proved!LoopInv
  BY InitIs, SameInit, LoopAssumptions, Proved!InitInv
<1>2. Proved!LoopInv /\ [Proved!LoopNext]_(Proved!loopVars) => Proved!LoopInv'
  BY LoopAssumptions, Proved!NextInv
<1> QED BY <1>1, <1>2, LoopStepOfStep, ParserInvariant, PTL DEF Spec

(* No call prepends more than buf holds or computes a negative length, a   *)
(* read leaves buf only when one recv() has filled it, and content         *)
(* overflows only for a longer body than declared: of the bytes themselves *)
(* (server.c:142-177, request.c:135-210), whatever they are.               *)
THEOREM ParserMemorySafe == Spec => []Loop!MemorySafe
<1>1. Proved!LoopInv => Loop!MemorySafe
  BY DEF Proved!LoopInv, Proved!MemorySafe, Loop!MemorySafe
<1> QED BY <1>1, ParserLoopInvariant, PTL

(* A further call of the inner loop (server.c:173-177) that does not end   *)
(* the process leaves strictly less text than it was given, whatever the   *)
(* bytes are, so that the loop cannot spin.                                *)
THEOREM ParserInnerLoopShrinks == Spec => Loop!InnerLoopShrinks
<1>1. Proved!LoopInv /\ [Proved!LoopNext]_(Proved!loopVars)
        => [continueProcessing /\ outcome' = "ok" => Kept' < Kept]_(Proved!loopVars)
  BY LoopAssumptions, Proved!LoopStepShrinks DEF Kept
<1>2. [continueProcessing /\ outcome' = "ok" => Kept' < Kept]_(Proved!loopVars)
        => [continueProcessing /\ outcome' = "ok" => Kept' < Kept]_(Loop!loopVars)
  BY DEF Proved!loopVars, Proved!builderVars, Proved!requestVars,
         Loop!loopVars, Loop!builderVars, Loop!requestVars
<1> QED BY <1>1, <1>2, LoopStepOfStep, ParserLoopInvariant, ParserInvariant, PTL
        DEF Spec, Loop!InnerLoopShrinks, Kept

=============================================================================
