---------------------------- MODULE ReceiveLoop ----------------------------
(***************************************************************************)
(* The receive loop of main() (server.c) and the request builder it feeds  *)
(* (lib/request.c), for one connection after another.                      *)
(*                                                                         *)
(* Bytes are abstracted to lengths: what is kept of a string is how long   *)
(* it is, so that every write into buf, remainingBuf and content can be    *)
(* compared with the room there is.  What the parser finds in the bytes    *)
(* (is there a line end, a blank line, a colon?) is a free choice here;    *)
(* RequestParsing decides it from the bytes and implements this module.    *)
(***************************************************************************)
EXTENDS Integers

CONSTANTS
  BufSize,         (* BUFFSIZE, the size of buf[] in main().             *)
  ContentMinLen,   (* CONTENT_MINLEN, the initial size of content.       *)
  UIntMax,         (* UINT_MAX, what sizes of content are cut to.        *)
  ContentLengths   (* What atoi makes of a Content-Length, as unsigned.  *)

ASSUME BufSizeAssumption        == BufSize \in Nat /\ BufSize >= 3
ASSUME ContentMinLenAssumption  == UIntMax \in Nat /\ ContentMinLen \in 1 .. UIntMax
ASSUME ContentLengthsAssumption == ContentLengths \subseteq 0 .. UIntMax /\ 0 \in ContentLengths

VARIABLES
  isRequestLineSet, areHeadersSet, isContentSet,  (* builder flags       *)
  remainingBuf,        (* strlen(builder->remainingBuf), NoBuf for NULL  *)
  headers,             (* request->headers: "null" or "live"             *)
  maps,                (* hash maps allocated and not freed yet          *)
  content,             (* strlen(request->content)                       *)
  contentSize,         (* request->contentSize                           *)
  declared,            (* the Content-Length given to setContent         *)
  n,                   (* what the last recv() returned                  *)
  continueProcessing,  (* as in main()                                   *)
  outcome              (* "ok", or how this process just ended           *)

builderVars == <<isRequestLineSet, areHeadersSet, isContentSet, remainingBuf>>
requestVars == <<headers, maps, content, contentSize, declared>>
loopVars    == <<builderVars, requestVars, n, continueProcessing, outcome>>

NoBuf == -1

(* exit(EXIT_FAILURE) on an invalid request line, a dereferenced NULL, one *)
(* of the ways the C code could leave the bounds of an object, the end of  *)
(* main()'s cleanup, a signal nobody handles.                              *)
Corruptions == {"prependOverflow", "lengthUnderflow", "contentOverflow", "overread"}
Outcomes    == {"ok", "exit", "nullDeref", "freed", "killed"} \cup Corruptions

Strlen(b)    == IF b = NoBuf THEN 0 ELSE b
Smaller(a, b) == IF a <= b THEN a ELSE b

----------------------------------------------------------------------------

LoopInit ==
  /\ isRequestLineSet = FALSE
  /\ areHeadersSet = FALSE
  /\ isContentSet = FALSE
  /\ remainingBuf = NoBuf
  /\ headers = "null"
  /\ maps = 0
  /\ content = 0
  /\ contentSize = ContentMinLen
  /\ declared = 0
  /\ n = 0
  /\ continueProcessing = FALSE
  /\ outcome = "ok"

(* The process stops in the middle of a call: nothing it wrote matters.    *)
Dies(how) ==
  /\ outcome' = how
  /\ continueProcessing' = FALSE
  /\ UNCHANGED <<builderVars, requestVars>>

(* processRequestChunk returns: is there a non-empty remaining buffer?     *)
Returns ==
  /\ outcome' = "ok"
  /\ continueProcessing' = (remainingBuf' # NoBuf /\ remainingBuf' > 0)

(* getRequestLine cuts the first line off and the rest is kept.  A line    *)
(* with no end consumes everything, and when it fills the buffer the       *)
(* pointer moved past its terminator leaves buf.                           *)
ParseRequestLine(text) ==
  \/ /\ isRequestLineSet' = TRUE
     /\ remainingBuf' \in 0 .. text - 1
     /\ Returns
     /\ UNCHANGED <<areHeadersSet, isContentSet, requestVars>>
  \/ Dies("exit")
  \/ Dies("nullDeref")
  \/ text = BufSize - 1 /\ Dies("overread")

(* A variant with a bug: a map for every chunk of headers.                 *)
CreateHeadersAlways ==
  /\ headers' = "live"
  /\ maps' = maps + 1

(* The map is created by the first call that reads headers.                *)
CreateHeaders ==
  /\ headers' = "live"
  /\ maps' = IF headers = "null" THEN maps + 1 ELSE maps

(* A blank line ends at offset end of the text.  What follows is copied    *)
(* with a length computed from chunkSize, not from the text.               *)
EndOfHeaders(text, chunkSize) ==
  \E end \in 2 .. text :
    IF end > chunkSize
    THEN Dies("lengthUnderflow")
    ELSE /\ areHeadersSet' = TRUE
         /\ remainingBuf' = Smaller(text, chunkSize) - end
         /\ CreateHeaders
         /\ Returns
         /\ UNCHANGED <<isRequestLineSet, isContentSet, content, contentSize, declared>>

(* A variant with a bug: the rest is kept from where reading stopped.      *)
MoreHeadersNotFurther(text) ==
  /\ remainingBuf' \in 0 .. text
  /\ CreateHeaders
  /\ Returns
  /\ UNCHANGED <<isRequestLineSet, areHeadersSet, isContentSet,
                 content, contentSize, declared>>

(* No blank line in the text: the lines are read, the rest from one past   *)
(* where reading stopped is kept.                                          *)
MoreHeaders(text) ==
  \/ /\ remainingBuf' \in 0 .. text - 1
     /\ CreateHeaders
     /\ Returns
     /\ UNCHANGED <<isRequestLineSet, areHeadersSet, isContentSet,
                    content, contentSize, declared>>
  \/ text >= BufSize - 2 /\ Dies("overread")

(* A variant with a bug: no room for the terminator.                       *)
SetContentExact(text) ==
  \E contentLength \in ContentLengths :
    /\ declared' = contentLength
    /\ contentSize' = IF contentLength > contentSize THEN contentLength ELSE contentSize
    /\ content' = Smaller(text, contentLength)
    /\ isContentSet' = TRUE
    /\ remainingBuf' = NoBuf
    /\ Returns
    /\ UNCHANGED <<isRequestLineSet, areHeadersSet, headers, maps>>

(* setContent: room is made for the declared length and one byte more.     *)
(* realloc may fail; the size UIntMax + 1 wraps to 0, for which it returns *)
(* NULL always.                                                            *)
SetContent(text) ==
  \E contentLength \in ContentLengths :
    \/ /\ contentLength < UIntMax
       /\ declared' = contentLength
       /\ contentSize' = IF contentLength >= contentSize THEN contentLength + 1 ELSE contentSize
       /\ content' = Smaller(text, contentLength)
       /\ isContentSet' = TRUE
       /\ remainingBuf' = NoBuf
       /\ Returns
       /\ UNCHANGED <<isRequestLineSet, areHeadersSet, headers, maps>>
    \/ contentLength >= contentSize /\ Dies("exit")

(* strncat is bounded by the chunk, not by the room left in content.       *)
AppendContent(text, chunkSize) ==
  LET added == Smaller(text, chunkSize) IN
  IF content + added >= contentSize
  THEN Dies("contentOverflow")
  ELSE /\ content' = content + added
       /\ remainingBuf' = NoBuf
       /\ Returns
       /\ UNCHANGED <<isRequestLineSet, areHeadersSet, isContentSet,
                      headers, maps, contentSize, declared>>

(* One call, on a chunk that holds received bytes.  prependStr first puts  *)
(* the remaining buffer in front of them, inside buf.                      *)
ProcessRequestChunk(received, chunkSize) ==
  LET text == Strlen(remainingBuf) + received IN
  \/ text >= BufSize /\ Dies("prependOverflow")
  \/ /\ text < BufSize
     /\ \/ ~isRequestLineSet /\ ParseRequestLine(text)
        \/ /\ isRequestLineSet
           /\ ~areHeadersSet
           /\ EndOfHeaders(text, chunkSize) \/ MoreHeaders(text) \/ Dies("nullDeref")
        \/ isRequestLineSet /\ areHeadersSet /\ ~isContentSet /\ SetContent(text)
        \/ isRequestLineSet /\ areHeadersSet /\ isContentSet /\ AppendContent(text, chunkSize)

----------------------------------------------------------------------------

(* recv() returned k bytes: the call made with them in buf.                *)
RecvChunk(k) ==
  /\ outcome = "ok"
  /\ ~continueProcessing
  /\ n' = k
  /\ ProcessRequestChunk(k, k)

(* A variant with a bug: buf is not cleared.                               *)
ProcessAgainUncleared ==
  /\ outcome = "ok"
  /\ continueProcessing
  /\ n' = n
  /\ ProcessRequestChunk(n, n)

(* The inner loop: buf is cleared, the call is made again with the old n.  *)
ProcessAgain ==
  /\ outcome = "ok"
  /\ continueProcessing
  /\ n' = n
  /\ ProcessRequestChunk(0, n)

(* A variant with a bug: isContentSet is not cleared.                      *)
ResetRequestKeepsContent ==
  /\ isRequestLineSet' = FALSE
  /\ areHeadersSet' = FALSE
  /\ remainingBuf' = NoBuf
  /\ headers' = "null"
  /\ maps' = IF headers = "live" THEN maps - 1 ELSE maps
  /\ content' = 0
  /\ declared' = 0
  /\ n' = 0
  /\ UNCHANGED <<isContentSet, contentSize, continueProcessing, outcome>>

(* request->reset and requestBuilder->reset, after a response.  The size   *)
(* content has grown to is kept; n goes out of scope with the connection.  *)
ResetRequest ==
  /\ isRequestLineSet' = FALSE
  /\ areHeadersSet' = FALSE
  /\ isContentSet' = FALSE
  /\ remainingBuf' = NoBuf
  /\ headers' = "null"
  /\ maps' = IF headers = "live" THEN maps - 1 ELSE maps
  /\ content' = 0
  /\ declared' = 0
  /\ n' = 0
  /\ UNCHANGED <<contentSize, continueProcessing, outcome>>

(* main() answers, and so resets, only a request with line and headers.    *)
Answered == outcome = "ok" /\ ~continueProcessing /\ areHeadersSet /\ ResetRequest

(* A variant with a bug: the map is freed without a test for NULL.         *)
FreeRequestUnchecked ==
  /\ outcome = "ok"
  /\ ~continueProcessing
  /\ outcome' = "freed"
  /\ headers' = "null"
  /\ maps' = maps - 1
  /\ UNCHANGED <<builderVars, content, contentSize, declared, n, continueProcessing>>

(* request->free in the cleanup of main(); remainingBuf is not freed.      *)
FreeRequest ==
  /\ outcome = "ok"
  /\ ~continueProcessing
  /\ outcome' = "freed"
  /\ headers' = "null"
  /\ maps' = IF headers = "live" THEN maps - 1 ELSE maps
  /\ UNCHANGED <<builderVars, content, contentSize, declared, n, continueProcessing>>

Killed == outcome = "ok" /\ Dies("killed") /\ n' = n

LoopNext ==
  \/ \E k \in 1 .. BufSize - 1 : RecvChunk(k)
  \/ ProcessAgain
  \/ Answered
  \/ FreeRequest
  \/ Killed

LoopSpec == LoopInit /\ [][LoopNext]_loopVars /\ WF_loopVars(ProcessAgain)

----------------------------------------------------------------------------

FlagsTypeOK ==
  /\ isRequestLineSet \in BOOLEAN
  /\ areHeadersSet \in BOOLEAN
  /\ isContentSet \in BOOLEAN
  /\ continueProcessing \in BOOLEAN

CountsTypeOK ==
  /\ remainingBuf \in 0 .. BufSize - 1 \cup {NoBuf}
  /\ maps \in Nat
  /\ content \in Nat
  /\ contentSize \in 1 .. UIntMax
  /\ declared \in ContentLengths
  /\ n \in 0 .. BufSize - 1

LoopTypeOK ==
  /\ FlagsTypeOK
  /\ CountsTypeOK
  /\ headers \in {"null", "live"}
  /\ outcome \in Outcomes

(* Memory safety of the loop (server.c:142-177, request.c:135-210): no     *)
(* call ever prepends more than buf can hold or computes a negative length *)
(* for the body it keeps, a read past buf happens only when one recv() has *)
(* filled it to within a byte of its end, and content overflows only for a *)
(* client that sends a longer body than it declared.                       *)
MemorySafe ==
  /\ outcome \notin {"prependOverflow", "lengthUnderflow"}
  /\ outcome = "overread" => n >= BufSize - 2
  /\ outcome = "contentOverflow" => content + n > declared

(* Each further call of the inner loop (server.c:173-177) is made on a     *)
(* strictly shorter remaining buffer, whatever the bytes are: it cannot    *)
(* spin on the same text.                                                  *)
InnerLoopShrinks ==
  [][continueProcessing /\ outcome' = "ok" => remainingBuf' < remainingBuf]_loopVars

(* The inner loop, which does not look at keepRunning, always hands back   *)
(* to the recv() loop or ends the process.                                 *)
InnerLoopEnds == continueProcessing ~> ~continueProcessing

(* The flags of one request are set in order and only a reset clears them: *)
(* the content of a request is never read before its headers are complete, *)
(* and the header map that popHeader and hashmap_scan use exists by then.  *)
PhasesInOrder ==
  /\ isContentSet => areHeadersSet
  /\ areHeadersSet => isRequestLineSet
  /\ areHeadersSet /\ outcome = "ok" => headers = "live"
  /\ areHeadersSet => (isContentSet <=> remainingBuf = NoBuf)

(* What makes these inductive: text is left over only while the inner loop *)
(* is running, and then it is shorter than what was received, so that no   *)
(* recv() ever prepends anything; content has room for the declared length;*)
(* the map is allocated just when the pointer holds it.                    *)
TextLeftOver ==
  /\ outcome = "ok" /\ ~continueProcessing => remainingBuf \in {NoBuf, 0}
  /\ continueProcessing => outcome = "ok" /\ remainingBuf \in 1 .. n - 1

ContentHasRoom ==
  /\ content < contentSize
  /\ isContentSet => declared < contentSize

MapOwned == maps = IF headers = "live" THEN 1 ELSE 0

(* All of it, of the recv loop and the builder (server.c:139-179,          *)
(* request.c:9-210), as one inductive invariant.                           *)
LoopInv ==
  /\ LoopTypeOK
  /\ MemorySafe
  /\ PhasesInOrder
  /\ TextLeftOver
  /\ ContentHasRoom
  /\ MapOwned

=============================================================================
