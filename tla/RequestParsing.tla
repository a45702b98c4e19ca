--------------------------- MODULE RequestParsing ---------------------------
(***************************************************************************)
(* How one request is parsed from the segments its bytes arrive in: the    *)
(* recv loop of main(), processRequestChunk (lib/request.c),               *)
(* getRequestLine (lib/startline.c) and readHeaders (lib/fields.c).        *)
(*                                                                         *)
(* A byte is a token: CR, LF and COLON are themselves, a word (a method, a *)
(* header name...) is one token that no segment cuts, spaces are left out, *)
(* and NUL is what the parser writes over a byte to end a string.  The     *)
(* module implements ReceiveLoop, where a string is only its length.       *)
(*                                                                         *)
(* readHeaders takes one step per line.  The process has one thread: what  *)
(* a call of processRequestChunk has done is seen by others when it        *)
(* returns, and is put into their variables then.                          *)
(***************************************************************************)
EXTENDS Integers, FiniteSets, SequencesExt

CONSTANTS
  BufSize,        (* BUFFSIZE.                                           *)
  ContentMinLen,  (* CONTENT_MINLEN.                                     *)
  UIntMax,        (* UINT_MAX.                                           *)
  ValueMax,       (* FIELD_VALUE_MAXLEN, in words.                       *)
  Values,         (* The values of the fields of a request, in order.    *)
  AnyCut,         (* Segments are cut anywhere (TRUE), or not in a line. *)
  MinFields,      (* Bounds: how few and how many headers a request has, *)
  MaxFields,
  MaxFieldsCut,   (* how many if it is cut anywhere,                     *)
  MaxBody         (* and how long its content is.                        *)

Special    == {"CR", "LF", "COLON", "NUL"}
FieldNames == {"a", "A", "content-length"}
Token      == Special \cup {"GET", "target", "HTTP/1.1", "length", "body", "junk"}
                \cup FieldNames \cup Range(Values)

ASSUME RequestParsingAssumption ==
  /\ BufSize \in Nat /\ BufSize >= 3
  /\ UIntMax \in Nat /\ ContentMinLen \in 1 .. UIntMax
  /\ ValueMax \in Nat \ {0}
  /\ {MinFields, MaxFields, MaxFieldsCut} \subseteq Nat /\ MaxBody \in 0 .. UIntMax - 1
  /\ Values \in Seq(Range(Values)) /\ Range(Values) \cap (Special \cup {"NULL"}) = {}
  /\ MaxFields <= Len(Values)
  /\ AnyCut \subseteq BOOLEAN

VARIABLES
  request, anyCut,     (* what the client sends, see Requests, and how   *)
  sent, taken,         (* the bytes that have arrived, have been received*)
  isRequestLineSet, areHeadersSet, isContentSet,  (* builder flags       *)
  remainingBuf,        (* builder->remainingBuf                          *)
  headers,             (* request->headers: field name -> value          *)
  content, contentSize,(* request->content and its allocated size        *)
  declared,            (* the length given to setContent                 *)
  n, continueProcessing,                          (* as in main()        *)
  text, at, map, rest, chunkSize,  (* while readHeaders runs: the string *)
                       (* it reads and how far it is, the map, what has  *)
                       (* been saved of the body, and an argument        *)
  outcome,             (* "ok", or how the process just ended            *)
  answered             (* the request was taken as complete              *)

builderVars == <<isRequestLineSet, areHeadersSet, isContentSet, remainingBuf>>
requestVars == <<headers, content, contentSize, declared>>
callVars    == <<text, at, map, rest, chunkSize>>
parseVars   == <<builderVars, requestVars, callVars, n, continueProcessing, outcome>>
vars        == <<request, anyCut, sent, taken, parseVars, answered>>

NoBuf == <<"NULL">>
NoMap == [f \in {<<"NULL">>} |-> <<>>]

----------------------------------------------------------------------------
(* The requests a client sends: a GET with header fields "a", also written *)
(* "A", or "content-length", each with a value of its own, and as much     *)
(* content as it declares, with no line end in it.  Lines end in CRLF, or  *)
(* in LF alone.                                                            *)

(* The value of its i-th field.                                            *)
ValueOf(r, i) == IF r.fields[i] = "content-length" THEN "length" ELSE Values[i]

(* Line 0 is the request line; every line but the blank one has 3 words.   *)
LineOf(r, k) ==
  IF k = 0 THEN <<"GET", "target", "HTTP/1.1">>
  ELSE IF k <= Len(r.fields) THEN <<r.fields[k], "COLON", ValueOf(r, k)>> ELSE <<>>

Width(r)   == 3 + Len(r.eol)
HeadLen(r) == (Len(r.fields) + 1) * Width(r) + Len(r.eol)

StreamOf(r) ==
  [p \in 1 .. HeadLen(r) + r.length |->
     IF p > HeadLen(r) THEN "body"
     ELSE (LineOf(r, (p - 1) \div Width(r)) \o r.eol)[((p - 1) % Width(r)) + 1]]

Requests ==
  { r \in [fields : UNION {[1 .. k -> FieldNames] : k \in MinFields .. MaxFields},
           eol : {<<"CR", "LF">>, <<"LF">>},
           length : 0 .. MaxBody] :
      /\ \A i, j \in DOMAIN r.fields :
           r.fields[i] = "content-length" /\ r.fields[j] = "content-length" => i = j
      /\ r.length > 0 => Contains(r.fields, "content-length") }

(* Where a segment may end: anywhere, or after a line (the request line, a *)
(* header line, the blank line) and anywhere in the content.               *)
Cuts(r) ==
  IF anyCut
  THEN 1 .. Len(StreamOf(r))
  ELSE {k * Width(r) : k \in 1 .. Len(r.fields) + 1} \cup HeadLen(r) .. Len(StreamOf(r))

(* strToLower.                                                             *)
Lower(name) == IF name = "A" THEN "a" ELSE name

(* Of the first k fields those of a name, and which of all fields of its   *)
(* name a field is.                                                        *)
FieldsNamed(r, name, k) == {i \in 1 .. k : Lower(r.fields[i]) = name}
Rank(r, i)              == Cardinality(FieldsNamed(r, Lower(r.fields[i]), i))

----------------------------------------------------------------------------
(* Strings in buf.  Past the text buf is zero.                             *)

At(buf, i)      == IF i <= Len(buf) THEN buf[i] ELSE "NUL"
From(buf, i)    == SubSeq(buf, i, Len(buf))
Upto(buf, ends) == LET i == SelectInSeq(buf, LAMBDA t : t \in ends) IN
                   IF i = 0 THEN buf ELSE SubSeq(buf, 1, i - 1)
Cut(buf, i)     == IF i = 0 THEN buf ELSE [buf EXCEPT ![i] = "NUL"]
First(buf, k)   == SubSeq(buf, 1, IF Len(buf) <= k THEN Len(buf) ELSE k)
Text(buf)       == IF buf = NoBuf THEN <<>> ELSE buf
Trim(line)      == IF line # <<>> /\ Last(line) = "CR" THEN Front(line) ELSE line

(* The string that starts one byte into the one at position i: a word of   *)
(* the head that loses its first letter is another word.                   *)
OneFurther(buf, i) ==
  LET after == Upto(From(buf, i + 1), {"NUL"}) IN
  IF At(buf, i) \in {"CR", "LF", "COLON", "NUL", "body"} THEN after ELSE <<"junk">> \o after

(* strstr(buf, pattern): where it starts, 0 for NULL.                      *)
StrStr(buf, pattern) ==
  LET found == {i \in 1 .. Len(buf) - Len(pattern) + 1 :
                  SubSeq(buf, i, i + Len(pattern) - 1) = pattern} IN
  IF found = {} THEN 0 ELSE Min(found)

(* getRequestLine: what it makes of the first line.  strtok splits at      *)
(* spaces only, so a CR belongs to the word before it.                     *)
RequestLine(line) ==
  CASE line = <<>>                                 -> "nullDeref"
    [] line[1] # "GET" \/ At(line, 2) = "CR"       -> "exit"
    [] Len(line) < 3 \/ At(line, 3) = "CR"         -> "nullDeref"
    [] line[3] # "HTTP/1.1"                        -> "exit"
    [] OTHER                                       -> "ok"

(* A variant with a bug: the later value is put first.                     *)
AddFieldInFront(m, name, value) ==
  [f \in DOMAIN m \cup {name} |->
     IF f # name THEN m[f] ELSE IF name \in DOMAIN m THEN First(value \o m[name], ValueMax) ELSE value]

(* A value given again is joined to the one before, and cut.               *)
AddField(m, name, value) ==
  [f \in DOMAIN m \cup {name} |->
     IF f # name THEN m[f] ELSE IF name \in DOMAIN m THEN First(m[name] \o value, ValueMax) ELSE value]

----------------------------------------------------------------------------

Init ==
  /\ request \in Requests /\ anyCut \in AnyCut
  /\ anyCut => Len(request.fields) <= MaxFieldsCut
  /\ sent = 0 /\ taken = 0
  /\ isRequestLineSet = FALSE /\ areHeadersSet = FALSE /\ isContentSet = FALSE
  /\ remainingBuf = NoBuf
  /\ headers = NoMap
  /\ content = <<>> /\ contentSize = ContentMinLen
  /\ declared = 0
  /\ n = 0
  /\ continueProcessing = FALSE
  /\ text = NoBuf /\ at = 0 /\ map = NoMap /\ rest = NoBuf /\ chunkSize = 0
  /\ outcome = "ok"
  /\ answered = FALSE

(* The call on a chunk of k bytes is over.                                 *)
Leaves(k) ==
  /\ n' = k
  /\ text' = NoBuf /\ at' = 0 /\ map' = NoMap /\ rest' = NoBuf /\ chunkSize' = 0

Dies(how, k) ==
  /\ outcome' = how
  /\ continueProcessing' = FALSE
  /\ Leaves(k)
  /\ UNCHANGED <<builderVars, requestVars>>

(* A variant with a bug: an empty remaining buffer counts as one.          *)
ReturnsEmpty(k) ==
  /\ outcome' = "ok"
  /\ continueProcessing' = (remainingBuf' # NoBuf)
  /\ Leaves(k)

(* processRequestChunk returns: is there a non-empty remaining buffer?     *)
Returns(k) ==
  /\ outcome' = "ok"
  /\ continueProcessing' = (remainingBuf' \notin {NoBuf, <<>>})
  /\ Leaves(k)

(* The text after the first line is kept.  Past a line that has no end     *)
(* there is nothing, and past one that fills buf, not even buf.            *)
ParseRequestLine(buf, k) ==
  LET line == Upto(buf, {"LF"}) IN
  IF RequestLine(line) # "ok" THEN Dies(RequestLine(line), k)
  ELSE IF Len(line) + 2 > BufSize THEN Dies("overread", k)
  ELSE /\ isRequestLineSet' = TRUE
       /\ remainingBuf' = First(From(buf, Len(line) + 2), k)
       /\ Returns(k)
       /\ UNCHANGED <<areHeadersSet, isContentSet, requestVars>>

(* A variant with a bug: only CRLF ends a line.                            *)
BlankLineCrlf(buf) ==
  LET crlf == StrStr(buf, <<"CR", "LF", "CR", "LF">>) IN [at |-> crlf, body |-> crlf + 4]

(* Where the blank line starts, 0 for nowhere, and where the body does.    *)
BlankLine(buf) ==
  LET crlf == StrStr(buf, <<"CR", "LF", "CR", "LF">>)
      lf   == StrStr(buf, <<"LF", "LF">>)
  IN  IF crlf # 0 THEN [at |-> crlf, body |-> crlf + 4] ELSE [at |-> lf, body |-> lf + 2]

(* A blank line ends the headers, and what follows it is saved.  Without   *)
(* one, the last LF is overwritten.  Then readHeaders is called.           *)
ParseHeaders(buf, k) ==
  LET blank  == BlankLine(buf)
      lastLf == SelectLastInSeq(buf, LAMBDA t : t = "LF")
  IN  IF blank.at # 0 /\ blank.body > k + 1 THEN Dies("lengthUnderflow", k)
      ELSE /\ text' = Cut(buf, IF blank.at # 0 THEN blank.at ELSE lastLf)
           /\ at' = 1
           /\ map' = IF headers = NoMap THEN <<>> ELSE headers
           /\ rest' = IF blank.at # 0 THEN From(First(buf, k), blank.body) ELSE NoBuf
           /\ chunkSize' = k
           /\ UNCHANGED <<builderVars, requestVars, n, continueProcessing, outcome>>

(* The line readHeaders has come to.                                       *)
Running == text # NoBuf
RawLine == Upto(From(text, at), {"LF", "NUL"})
Line    == Trim(RawLine)
AtEnd   == At(text, at) \in {"NUL", "LF"}

(* One turn of its loop.  A line that has no colon ends the process: the   *)
(* NULL that strchr returned is written through.                           *)
ReadHeader ==
  /\ Running /\ ~AtEnd /\ Line # <<>>
  /\ LET colon == SelectInSeq(Line, LAMBDA t : t = "COLON") IN
     IF colon = 0 THEN Dies("nullDeref", chunkSize)
     ELSE /\ map' = AddField(map, [j \in 1 .. colon - 1 |-> Lower(Line[j])], From(Line, colon + 1))
          /\ at' = at + Len(RawLine) + 1
          /\ UNCHANGED <<builderVars, requestVars, text, rest, chunkSize, n,
                         continueProcessing, outcome>>
  /\ UNCHANGED <<request, anyCut, sent, taken, answered>>

(* Its end, and that of the call.  Without a blank line, what follows the  *)
(* place where it stopped is kept, from one byte further on.               *)
HeadersRead ==
  /\ Running /\ (AtEnd \/ Line = <<>>)
  /\ LET stop == IF AtEnd THEN at ELSE at + 2 IN
     IF rest = NoBuf /\ stop + 1 > BufSize THEN Dies("overread", chunkSize)
     ELSE /\ areHeadersSet' = (rest # NoBuf)
          /\ headers' = map
          /\ remainingBuf' = IF rest # NoBuf THEN rest ELSE First(OneFurther(text, stop), chunkSize)
          /\ Returns(chunkSize)
          /\ UNCHANGED <<isRequestLineSet, isContentSet, content, contentSize, declared>>
  /\ UNCHANGED <<request, anyCut, sent, taken, answered>>

(* popHeader takes content-length out of the map.                          *)
ContentLength ==
  IF <<"content-length">> \in DOMAIN headers /\ headers[<<"content-length">>] = <<"length">>
  THEN request.length
  ELSE 0

(* A variant with a bug: no room for the terminator.                       *)
SetContentExact(buf, k) ==
  /\ headers' = [f \in DOMAIN headers \ {<<"content-length">>} |-> headers[f]]
  /\ declared' = ContentLength
  /\ contentSize' = IF ContentLength > contentSize THEN ContentLength ELSE contentSize
  /\ content' = First(buf, ContentLength)
  /\ isContentSet' = TRUE
  /\ remainingBuf' = NoBuf
  /\ Returns(k)
  /\ UNCHANGED <<isRequestLineSet, areHeadersSet>>

(* setContent, with room for the declared length and one byte more.        *)
SetContent(buf, k) ==
  /\ headers' = [f \in DOMAIN headers \ {<<"content-length">>} |-> headers[f]]
  /\ declared' = ContentLength
  /\ contentSize' = IF ContentLength >= contentSize THEN ContentLength + 1 ELSE contentSize
  /\ content' = First(buf, ContentLength)
  /\ isContentSet' = TRUE
  /\ remainingBuf' = NoBuf
  /\ Returns(k)
  /\ UNCHANGED <<isRequestLineSet, areHeadersSet>>

(* strncat writes past content when it has no room left.                   *)
AppendContent(buf, k) ==
  IF Len(content \o First(buf, k)) >= contentSize
  THEN Dies("contentOverflow", k)
  ELSE /\ content' = content \o First(buf, k)
       /\ remainingBuf' = NoBuf
       /\ Returns(k)
       /\ UNCHANGED <<isRequestLineSet, areHeadersSet, isContentSet,
                      headers, contentSize, declared>>

(* What the builder still has goes in front of the chunk.                  *)
ProcessRequestChunk(chunk, k) ==
  LET buf == Text(remainingBuf) \o chunk IN
  IF Len(buf) >= BufSize THEN Dies("prependOverflow", k)
  ELSE CASE ~isRequestLineSet -> ParseRequestLine(buf, k)
         [] isRequestLineSet /\ ~areHeadersSet -> ParseHeaders(buf, k)
         [] isRequestLineSet /\ areHeadersSet /\ ~isContentSet -> SetContent(buf, k)
         [] OTHER -> AppendContent(buf, k)

----------------------------------------------------------------------------

(* A segment arrives.                                                      *)
Arrive ==
  /\ \E k \in Cuts(request) : k > sent /\ sent' = k
  /\ UNCHANGED <<request, anyCut, taken, parseVars, answered>>

Reading == outcome = "ok" /\ ~Running /\ ~continueProcessing /\ ~answered

(* recv() returns what there is, at most BufSize - 1 bytes.                *)
Recv ==
  /\ Reading
  /\ taken < sent
  /\ LET k == IF sent - taken < BufSize THEN sent - taken ELSE BufSize - 1 IN
       /\ taken' = taken + k
       /\ ProcessRequestChunk(SubSeq(StreamOf(request), taken + 1, taken + k), k)
  /\ UNCHANGED <<request, anyCut, sent, answered>>

ProcessRemaining ==
  /\ outcome = "ok"
  /\ continueProcessing /\ ~Running
  /\ ProcessRequestChunk(<<>>, n)
  /\ UNCHANGED <<request, anyCut, sent, taken, answered>>

(* Nothing to read (EAGAIN, or the end of the stream) and the headers are  *)
(* complete: what there is of the request is answered.                     *)
Answer ==
  /\ Reading
  /\ taken = sent
  /\ isRequestLineSet /\ areHeadersSet
  /\ answered' = TRUE
  /\ UNCHANGED <<request, anyCut, sent, taken, parseVars>>

Next == Arrive \/ Recv \/ ProcessRemaining \/ ReadHeader \/ HeadersRead \/ Answer

Spec == Init /\ [][Next]_vars

(* main() can take a step other than another recv() that returns EAGAIN.   *)
Busy ==
  /\ outcome = "ok"
  /\ \/ continueProcessing \/ Running
     \/ Reading /\ taken < sent
     \/ Reading /\ isRequestLineSet /\ areHeadersSet

(* The client sends its whole request, and main() keeps running: its weak  *)
(* fairness, with ENABLED written out as Busy.                             *)
FairSpec ==
  /\ Spec
  /\ WF_vars(Arrive)
  /\ \/ []<>~Busy
     \/ []<><<Recv \/ ProcessRemaining \/ ReadHeader \/ HeadersRead \/ Answer>>_vars

----------------------------------------------------------------------------

TypeOK ==
  /\ request \in Requests /\ anyCut \in AnyCut
  /\ taken \in 0 .. sent /\ sent \in 0 .. Len(StreamOf(request))
  /\ isRequestLineSet \in BOOLEAN /\ areHeadersSet \in BOOLEAN /\ isContentSet \in BOOLEAN
  /\ contentSize \in Nat /\ Len(content) < contentSize
  /\ {remainingBuf, text, rest} \subseteq Seq(Token) \cup {NoBuf}
  /\ n \in 0 .. BufSize - 1 /\ chunkSize \in 0 .. BufSize - 1 /\ at \in Nat
  /\ continueProcessing \in BOOLEAN /\ answered \in BOOLEAN

(* Byte for byte, the parser is an instance of ReceiveLoop, whose theorems *)
(* therefore hold of it.                                                   *)
Loop == INSTANCE ReceiveLoop WITH
  ContentLengths <- 0 .. MaxBody,
  remainingBuf <- IF remainingBuf = NoBuf THEN -1 ELSE Len(remainingBuf),
  headers      <- IF headers = NoMap THEN "null" ELSE "live",
  maps         <- IF headers = NoMap THEN 0 ELSE 1,
  content      <- Len(content)

(* However the request is cut, each call of processRequestChunk on bytes   *)
(* (request.c:135-210) does what ReceiveLoop says of lengths, so that its  *)
(* memory safety and the end of its inner loop hold of the parser.         *)
ImplementsReceiveLoop == Loop!LoopInit /\ [][Loop!LoopNext]_(Loop!loopVars)

(* The requests the parser is meant for: no line is cut, there are headers,*)
(* and buf holds it all.                                                   *)
Regular == ~anyCut /\ request.fields # <<>> /\ Len(StreamOf(request)) < BufSize

(* value is that of the fields of r with a name, joined in their order:    *)
(* each stands where its rank says.                                        *)
Joined(value, r, name, k) ==
  /\ Len(value) = LET all == Cardinality(FieldsNamed(r, name, k)) IN
                   IF all <= ValueMax THEN all ELSE ValueMax
  /\ \A i \in FieldsNamed(r, name, k) :
       Rank(r, i) <= ValueMax => value[Rank(r, i)] = ValueOf(r, i)

(* A regular request is parsed as a parser that saw it in one piece would: *)
(* the fields with their values, whatever the case of their names, a       *)
(* repeated one joined in order and cut at its end (fields.c:33-97), and   *)
(* the content as far as it has arrived (request.c:196-207), wherever the  *)
(* content is cut.                                                         *)
ParsedAsSent ==
  Regular /\ answered =>
    LET names == {Lower(name) : name \in Range(request.fields)} IN
    /\ {<<name>> : name \in names \ {"content-length"}} \subseteq DOMAIN headers
    /\ \A f \in DOMAIN headers :
         \E name \in names : f = <<name>> /\ Joined(headers[f], request, name, Len(request.fields))
    /\ content = SubSeq(StreamOf(request), HeadLen(request) + 1, taken)

(* A recv() has ended between the header lines and the blank line.         *)
BlankLineApart == taken = HeadLen(request) - Len(request.eol)

(* And it is answered, neither ending the process nor left waiting for     *)
(* ever, unless a recv() ends just before its blank line: of that case     *)
(* EndOfHeadersFound says what the code promises and does not do.          *)
AnsweredInTheEnd == Regular /\ []~BlankLineApart => <>answered

(* "save the last part of the chunk that contains the start of the next    *)
(* line of headers, to be used when reading the next chunk"                *)
(* (request.c:191-192): headers cut inside a line are read all the same.   *)
HeadersSurviveCuts == isRequestLineSet => outcome = "ok"

(* "the headers section always ends in a blank line (i.e., two consecutive *)
(* newlines), so we can use that to determine when we've reached the end   *)
(* of the headers section" (request.c:162): once the whole request has     *)
(* been received, the end of its headers has been found.                   *)
EndOfHeadersFound == [](taken = Len(StreamOf(request)) => <>areHeadersSet)

=============================================================================
