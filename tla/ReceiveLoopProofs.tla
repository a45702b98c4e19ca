------------------------- MODULE ReceiveLoopProofs -------------------------
(***************************************************************************)
(* The receive loop is memory safe, keeps its phases in order and makes    *)
(* progress in its inner loop, for every size of buf, every initial size   *)
(* of content and every set of declared lengths.                           *)
(***************************************************************************)
EXTENDS ReceiveLoop, TLAPS

USE BufSizeAssumption, ContentMinLenAssumption, ContentLengthsAssumption
USE DEF BufSizeAssumption, ContentMinLenAssumption, ContentLengthsAssumption

(* No state is reached but through a well-formed one: the invariant holds  *)
(* before the first recv().                                                *)
LEMMA InitInv == LoopInit => LoopInv
<1> SUFFICES ASSUME LoopInit PROVE LoopInv
  OBVIOUS
<1>11. FlagsTypeOK
  BY DEF LoopInv, LoopTypeOK, FlagsTypeOK, LoopInit
<1>12. CountsTypeOK
  BY DEF LoopInv, LoopTypeOK, CountsTypeOK, NoBuf, LoopInit
<1>13. headers \in {"null", "live"} /\ outcome \in Outcomes
  BY DEF LoopInv, LoopTypeOK, Outcomes, LoopInit
<1>14. MemorySafe
  BY DEF LoopInv, LoopTypeOK, MemorySafe, LoopInit
<1>15. PhasesInOrder
  BY DEF LoopInv, LoopTypeOK, CountsTypeOK, FlagsTypeOK, PhasesInOrder, NoBuf, LoopInit
<1>16. TextLeftOver
  BY DEF LoopInv, LoopTypeOK, CountsTypeOK, TextLeftOver, NoBuf, LoopInit
<1>17. ContentHasRoom
  BY DEF LoopInv, LoopTypeOK, CountsTypeOK, PhasesInOrder, ContentHasRoom, LoopInit
<1>18. MapOwned
  BY DEF LoopInv, LoopTypeOK, MapOwned, LoopInit
<1> QED BY <1>11, <1>12, <1>13, <1>14, <1>15, <1>16, <1>17, <1>18
  DEF LoopInv, LoopTypeOK

(* A process that stops in the middle of a call leaves the invariant true, *)
(* as long as it does not stop by one of the overflows MemorySafe excludes.*)
LEMMA DiesInv ==
  ASSUME LoopInv, NEW how \in Outcomes, how # "ok", Dies(how),
         n' \in 0 .. BufSize - 1,
         how \notin {"prependOverflow", "lengthUnderflow"},
         how = "overread" => n' >= BufSize - 2,
         how = "contentOverflow" => content + n' > declared
  PROVE  LoopInv'
<1>11. FlagsTypeOK'
  BY DEF LoopInv, LoopTypeOK, FlagsTypeOK, Dies, builderVars, requestVars
<1>12. CountsTypeOK'
  BY DEF LoopInv, LoopTypeOK, CountsTypeOK, NoBuf, Dies, builderVars, requestVars
<1>13. headers' \in {"null", "live"} /\ outcome' \in Outcomes
  BY DEF LoopInv, LoopTypeOK, Outcomes, Dies, builderVars, requestVars
<1>14. MemorySafe'
  BY DEF LoopInv, LoopTypeOK, MemorySafe, Dies, builderVars, requestVars
<1>15. PhasesInOrder'
  BY DEF LoopInv, LoopTypeOK, CountsTypeOK, FlagsTypeOK, PhasesInOrder, NoBuf, Dies, builderVars, requestVars
<1>16. TextLeftOver'
  BY DEF LoopInv, LoopTypeOK, CountsTypeOK, TextLeftOver, NoBuf, Dies, builderVars, requestVars
<1>17. ContentHasRoom'
  BY DEF LoopInv, LoopTypeOK, CountsTypeOK, PhasesInOrder, ContentHasRoom, Dies, builderVars, requestVars
<1>18. MapOwned'
  BY DEF LoopInv, LoopTypeOK, MapOwned, Dies, builderVars, requestVars
<1> QED BY <1>11, <1>12, <1>13, <1>14, <1>15, <1>16, <1>17, <1>18
  DEF LoopInv, LoopTypeOK

(* A length is that of some text, or of none, or of a NULL buffer.         *)
LEMMA TextLengths ==
  ASSUME NEW m \in Nat, NEW left \in 0 .. m - 1 \cup {NoBuf}
  PROVE  /\ (left # NoBuf /\ left > 0) <=> left \in 1 .. m - 1
         /\ ~(left # NoBuf /\ left > 0) => left \in {NoBuf, 0}
  BY DEF NoBuf

(* What is left of a text is shorter than the chunk the text came from.    *)
LEMMA ShorterText ==
  ASSUME NEW text \in 1 .. BufSize - 1, NEW m \in text .. BufSize - 1,
         NEW left \in 0 .. text - 1
  PROVE  m \in Nat /\ left \in 0 .. m - 1 \cup {NoBuf}
  BY DEF NoBuf

(* When a call returns, text is left over just when main() will call again.*)
LEMMA ReturnsText ==
  ASSUME Returns, n' \in Nat, remainingBuf' \in 0 .. n' - 1 \cup {NoBuf}
  PROVE  TextLeftOver'
<1>1. outcome' = "ok" /\ (continueProcessing' <=> remainingBuf' # NoBuf /\ remainingBuf' > 0)
  BY DEF Returns
<1>2. /\ (remainingBuf' # NoBuf /\ remainingBuf' > 0) <=> remainingBuf' \in 1 .. n' - 1
      /\ ~(remainingBuf' # NoBuf /\ remainingBuf' > 0) => remainingBuf' \in {NoBuf, 0}
  BY TextLengths
<1> QED BY <1>1, <1>2 DEF TextLeftOver

(* The four branches of processRequestChunk, each on a text no longer than *)
(* the chunk size it is called with, preserve the invariant.               *)
LEMMA ParseRequestLineInv ==
  ASSUME LoopInv, outcome = "ok", ~isRequestLineSet,
         NEW text \in 1 .. BufSize - 1, n' \in text .. BufSize - 1,
         ParseRequestLine(text)
  PROVE  LoopInv'
<1>1. CASE Dies("exit") \/ Dies("nullDeref")
  BY <1>1, DiesInv DEF Outcomes, Corruptions
<1>2. CASE text = BufSize - 1 /\ Dies("overread")
  BY <1>2, DiesInv DEF Outcomes, Corruptions
<1>3. CASE /\ isRequestLineSet' = TRUE
           /\ remainingBuf' \in 0 .. text - 1
           /\ Returns
           /\ UNCHANGED <<areHeadersSet, isContentSet, requestVars>>
  <2>11. FlagsTypeOK'
    BY <1>3 DEF LoopInv, LoopTypeOK, FlagsTypeOK, Returns, requestVars
  <2>12. CountsTypeOK'
    BY <1>3 DEF LoopInv, LoopTypeOK, CountsTypeOK, NoBuf, Returns, requestVars
  <2>13. headers' \in {"null", "live"} /\ outcome' \in Outcomes
    BY <1>3 DEF LoopInv, LoopTypeOK, Outcomes, Returns, requestVars
  <2>14. MemorySafe'
    BY <1>3 DEF LoopInv, LoopTypeOK, MemorySafe, Returns, requestVars
  <2>15. PhasesInOrder'
    BY <1>3 DEF LoopInv, LoopTypeOK, CountsTypeOK, FlagsTypeOK, PhasesInOrder, NoBuf, Returns, requestVars
  <2>16. TextLeftOver'
    <3>1. remainingBuf' \in 0 .. text - 1
      BY <1>3
    <3>2. n' \in Nat /\ remainingBuf' \in 0 .. n' - 1 \cup {NoBuf}
      BY <3>1, ShorterText
    <3> QED BY <1>3, <3>2, ReturnsText
  <2>17. ContentHasRoom'
    BY <1>3 DEF LoopInv, LoopTypeOK, CountsTypeOK, PhasesInOrder, ContentHasRoom, Returns, requestVars
  <2>18. MapOwned'
    BY <1>3 DEF LoopInv, LoopTypeOK, MapOwned, Returns, requestVars
  <2> QED BY <2>11, <2>12, <2>13, <2>14, <2>15, <2>16, <2>17, <2>18
      DEF LoopInv, LoopTypeOK
<1> QED BY <1>1, <1>2, <1>3 DEF ParseRequestLine

LEMMA EndOfHeadersInv ==
  ASSUME LoopInv, outcome = "ok", isRequestLineSet, ~areHeadersSet,
         NEW text \in 1 .. BufSize - 1, NEW chunkSize \in text .. BufSize - 1,
         n' = chunkSize, EndOfHeaders(text, chunkSize)
  PROVE  LoopInv'
<1>0. Smaller(text, chunkSize) = text /\ \A end \in 2 .. text : ~(end > chunkSize)
  BY DEF Smaller
<1>1. PICK end \in 2 .. text :
        /\ areHeadersSet' = TRUE
        /\ remainingBuf' = text - end
        /\ CreateHeaders
        /\ Returns
        /\ UNCHANGED <<isRequestLineSet, isContentSet, content, contentSize, declared>>
  BY <1>0 DEF EndOfHeaders
<1>11. FlagsTypeOK'
  BY <1>1 DEF LoopInv, LoopTypeOK, FlagsTypeOK, Returns, CreateHeaders
<1>12. CountsTypeOK'
  BY <1>1 DEF LoopInv, LoopTypeOK, CountsTypeOK, NoBuf, Returns, CreateHeaders
<1>13. headers' \in {"null", "live"} /\ outcome' \in Outcomes
  BY <1>1 DEF LoopInv, LoopTypeOK, Outcomes, Returns, CreateHeaders
<1>14. MemorySafe'
  BY <1>1 DEF LoopInv, LoopTypeOK, MemorySafe, Returns, CreateHeaders
<1>15. PhasesInOrder'
  BY <1>1 DEF LoopInv, LoopTypeOK, CountsTypeOK, FlagsTypeOK, PhasesInOrder, NoBuf, Returns, CreateHeaders
<1>16. TextLeftOver'
  BY <1>1, ReturnsText
<1>17. ContentHasRoom'
  BY <1>1 DEF LoopInv, LoopTypeOK, CountsTypeOK, PhasesInOrder, ContentHasRoom, Returns, CreateHeaders
<1>18. MapOwned'
  BY <1>1 DEF LoopInv, LoopTypeOK, MapOwned, Returns, CreateHeaders
<1> QED BY <1>11, <1>12, <1>13, <1>14, <1>15, <1>16, <1>17, <1>18
  DEF LoopInv, LoopTypeOK

LEMMA MoreHeadersInv ==
  ASSUME LoopInv, outcome = "ok", isRequestLineSet, ~areHeadersSet,
         NEW text \in 1 .. BufSize - 1, n' \in text .. BufSize - 1,
         MoreHeaders(text)
  PROVE  LoopInv'
<1>1. CASE text >= BufSize - 2 /\ Dies("overread")
  BY <1>1, DiesInv DEF Outcomes, Corruptions
<1>2. CASE /\ remainingBuf' \in 0 .. text - 1
           /\ CreateHeaders
           /\ Returns
           /\ UNCHANGED <<isRequestLineSet, areHeadersSet, isContentSet,
                          content, contentSize, declared>>
  <2>11. FlagsTypeOK'
    BY <1>2 DEF LoopInv, LoopTypeOK, FlagsTypeOK, Returns, CreateHeaders
  <2>12. CountsTypeOK'
    BY <1>2 DEF LoopInv, LoopTypeOK, CountsTypeOK, NoBuf, Returns, CreateHeaders
  <2>13. headers' \in {"null", "live"} /\ outcome' \in Outcomes
    BY <1>2 DEF LoopInv, LoopTypeOK, Outcomes, Returns, CreateHeaders
  <2>14. MemorySafe'
    BY <1>2 DEF LoopInv, LoopTypeOK, MemorySafe, Returns, CreateHeaders
  <2>15. PhasesInOrder'
    BY <1>2 DEF LoopInv, LoopTypeOK, CountsTypeOK, FlagsTypeOK, PhasesInOrder, NoBuf, Returns, CreateHeaders
  <2>16. TextLeftOver'
    <3>1. remainingBuf' \in 0 .. text - 1
      BY <1>2
    <3>2. n' \in Nat /\ remainingBuf' \in 0 .. n' - 1 \cup {NoBuf}
      BY <3>1, ShorterText
    <3> QED BY <1>2, <3>2, ReturnsText
  <2>17. ContentHasRoom'
    BY <1>2 DEF LoopInv, LoopTypeOK, CountsTypeOK, PhasesInOrder, ContentHasRoom, Returns, CreateHeaders
  <2>18. MapOwned'
    BY <1>2 DEF LoopInv, LoopTypeOK, MapOwned, Returns, CreateHeaders
  <2> QED BY <2>11, <2>12, <2>13, <2>14, <2>15, <2>16, <2>17, <2>18
      DEF LoopInv, LoopTypeOK
<1> QED BY <1>1, <1>2 DEF MoreHeaders

LEMMA SetContentInv ==
  ASSUME LoopInv, outcome = "ok", isRequestLineSet, areHeadersSet,
         NEW text \in 1 .. BufSize - 1, n' \in text .. BufSize - 1,
         SetContent(text)
  PROVE  LoopInv'
<1>1. CASE Dies("exit")
  BY <1>1, DiesInv DEF Outcomes, Corruptions
<1>2. ASSUME NEW contentLength \in ContentLengths,
             contentLength < UIntMax,
             declared' = contentLength,
             contentSize' = IF contentLength >= contentSize THEN contentLength + 1 ELSE contentSize,
             content' = Smaller(text, contentLength),
             isContentSet' = TRUE,
             remainingBuf' = NoBuf,
             Returns,
             UNCHANGED <<isRequestLineSet, areHeadersSet, headers, maps>>
      PROVE  LoopInv'
  <2>11. FlagsTypeOK'
    BY <1>2 DEF LoopInv, LoopTypeOK, FlagsTypeOK, Returns, Smaller
  <2>12. CountsTypeOK'
    BY <1>2 DEF LoopInv, LoopTypeOK, CountsTypeOK, NoBuf, Returns, Smaller
  <2>13. headers' \in {"null", "live"} /\ outcome' \in Outcomes
    BY <1>2 DEF LoopInv, LoopTypeOK, Outcomes, Returns, Smaller
  <2>14. MemorySafe'
    BY <1>2 DEF LoopInv, LoopTypeOK, MemorySafe, Returns, Smaller
  <2>15. PhasesInOrder'
    BY <1>2 DEF LoopInv, LoopTypeOK, CountsTypeOK, FlagsTypeOK, PhasesInOrder, NoBuf, Returns, Smaller
  <2>16. TextLeftOver'
    BY <1>2, ReturnsText
  <2>17. ContentHasRoom'
    BY <1>2 DEF LoopInv, LoopTypeOK, CountsTypeOK, PhasesInOrder, ContentHasRoom, Returns, Smaller
  <2>18. MapOwned'
    BY <1>2 DEF LoopInv, LoopTypeOK, MapOwned, Returns, Smaller
  <2> QED BY <2>11, <2>12, <2>13, <2>14, <2>15, <2>16, <2>17, <2>18
      DEF LoopInv, LoopTypeOK
<1> QED BY <1>1, <1>2 DEF SetContent

LEMMA AppendContentInv ==
  ASSUME LoopInv, outcome = "ok", isRequestLineSet, areHeadersSet, isContentSet,
         NEW text \in 1 .. BufSize - 1, NEW chunkSize \in text .. BufSize - 1,
         n' = chunkSize, AppendContent(text, chunkSize)
  PROVE  LoopInv'
<1>1. CASE content + text >= contentSize
  <2>1. Dies("contentOverflow")
    BY <1>1 DEF AppendContent, Smaller
  <2>2. content + n' > declared
    BY <1>1 DEF LoopInv, LoopTypeOK, CountsTypeOK, ContentHasRoom
  <2> QED BY <2>1, <2>2, DiesInv DEF Outcomes, Corruptions
<1>2. CASE ~(content + text >= contentSize)
  <2>1. /\ content' = content + text
        /\ remainingBuf' = NoBuf
        /\ Returns
        /\ UNCHANGED <<isRequestLineSet, areHeadersSet, isContentSet,
                       headers, maps, contentSize, declared>>
    BY <1>2 DEF AppendContent, Smaller
  <2>11. FlagsTypeOK'
    BY <1>2, <2>1 DEF LoopInv, LoopTypeOK, FlagsTypeOK, Returns
  <2>12. CountsTypeOK'
    BY <1>2, <2>1 DEF LoopInv, LoopTypeOK, CountsTypeOK, NoBuf, Returns
  <2>13. headers' \in {"null", "live"} /\ outcome' \in Outcomes
    BY <1>2, <2>1 DEF LoopInv, LoopTypeOK, Outcomes, Returns
  <2>14. MemorySafe'
    BY <1>2, <2>1 DEF LoopInv, LoopTypeOK, MemorySafe, Returns
  <2>15. PhasesInOrder'
    BY <1>2, <2>1 DEF LoopInv, LoopTypeOK, CountsTypeOK, FlagsTypeOK, PhasesInOrder, NoBuf, Returns
  <2>16. TextLeftOver'
    BY <1>2, <2>1, ReturnsText
  <2>17. ContentHasRoom'
    BY <1>2, <2>1 DEF LoopInv, LoopTypeOK, CountsTypeOK, PhasesInOrder, ContentHasRoom, Returns
  <2>18. MapOwned'
    BY <1>2, <2>1 DEF LoopInv, LoopTypeOK, MapOwned, Returns
  <2> QED BY <2>11, <2>12, <2>13, <2>14, <2>15, <2>16, <2>17, <2>18
      DEF LoopInv, LoopTypeOK
<1> QED BY <1>1, <1>2

(* A whole call, on a text that is not longer than its chunk size.         *)
LEMMA ChunkInv ==
  ASSUME LoopInv, outcome = "ok",
         NEW received \in 0 .. BufSize - 1, NEW chunkSize \in 1 .. BufSize - 1,
         Strlen(remainingBuf) + received \in 1 .. chunkSize,
         n' = chunkSize, ProcessRequestChunk(received, chunkSize)
  PROVE  LoopInv'
<1> DEFINE text == Strlen(remainingBuf) + received
<1>1. text \in 1 .. BufSize - 1 /\ n' \in text .. BufSize - 1 /\ chunkSize \in text .. BufSize - 1
  OBVIOUS
<1>2. ~(text >= BufSize)
  BY <1>1
<1> HIDE DEF text
<1>3. CASE ~isRequestLineSet /\ ParseRequestLine(text)
  BY <1>1, <1>3, ParseRequestLineInv
<1>4. CASE isRequestLineSet /\ ~areHeadersSet /\ EndOfHeaders(text, chunkSize)
  BY <1>1, <1>4, EndOfHeadersInv
<1>5. CASE isRequestLineSet /\ ~areHeadersSet /\ MoreHeaders(text)
  BY <1>1, <1>5, MoreHeadersInv
<1>6. CASE Dies("nullDeref")
  BY <1>1, <1>6, DiesInv DEF Outcomes, Corruptions
<1>7. CASE isRequestLineSet /\ areHeadersSet /\ SetContent(text)
  BY <1>1, <1>7, SetContentInv
<1>8. CASE isRequestLineSet /\ areHeadersSet /\ isContentSet /\ AppendContent(text, chunkSize)
  BY <1>1, <1>8, AppendContentInv
<1> QED
  BY <1>2, <1>3, <1>4, <1>5, <1>6, <1>7, <1>8 DEF ProcessRequestChunk, text

(* Every step of the loop preserves the invariant.                         *)
LEMMA NextInv == LoopInv /\ [LoopNext]_loopVars => LoopInv'
<1> SUFFICES ASSUME LoopInv, [LoopNext]_loopVars PROVE LoopInv'
  OBVIOUS
<1>1. ASSUME NEW k \in 1 .. BufSize - 1, RecvChunk(k) PROVE LoopInv'
  <2>1. Strlen(remainingBuf) = 0
    BY <1>1 DEF RecvChunk, LoopInv, TextLeftOver, Strlen, NoBuf
  <2> QED BY <1>1, <2>1, ChunkInv DEF RecvChunk
<1>2. CASE ProcessAgain
  <2>1. /\ Strlen(remainingBuf) = remainingBuf
        /\ remainingBuf \in 1 .. n - 1
        /\ n \in 0 .. BufSize - 1
    BY <1>2 DEF ProcessAgain, LoopInv, LoopTypeOK, CountsTypeOK, TextLeftOver, Strlen, NoBuf
  <2>2. n \in 1 .. BufSize - 1 /\ Strlen(remainingBuf) + 0 \in 1 .. n
    BY <2>1
  <2> QED BY <1>2, <2>2, ChunkInv DEF ProcessAgain
<1>3. CASE Answered
  <2>11. FlagsTypeOK'
    BY <1>3 DEF LoopInv, LoopTypeOK, FlagsTypeOK, Answered, ResetRequest
  <2>12. CountsTypeOK'
    BY <1>3 DEF LoopInv, LoopTypeOK, CountsTypeOK, NoBuf, MapOwned, Answered, ResetRequest
  <2>13. headers' \in {"null", "live"} /\ outcome' \in Outcomes
    BY <1>3 DEF LoopInv, LoopTypeOK, Outcomes, Answered, ResetRequest
  <2>14. MemorySafe'
    BY <1>3 DEF LoopInv, LoopTypeOK, MemorySafe, Answered, ResetRequest
  <2>15. PhasesInOrder'
    BY <1>3 DEF LoopInv, LoopTypeOK, CountsTypeOK, FlagsTypeOK, PhasesInOrder, NoBuf, MapOwned, Answered, ResetRequest
  <2>16. TextLeftOver'
    BY <1>3 DEF LoopInv, LoopTypeOK, CountsTypeOK, TextLeftOver, NoBuf, MapOwned, Answered, ResetRequest
  <2>17. ContentHasRoom'
    BY <1>3 DEF LoopInv, LoopTypeOK, CountsTypeOK, PhasesInOrder, ContentHasRoom, Answered, ResetRequest
  <2>18. MapOwned'
    BY <1>3 DEF LoopInv, LoopTypeOK, MapOwned, Answered, ResetRequest
  <2> QED BY <2>11, <2>12, <2>13, <2>14, <2>15, <2>16, <2>17, <2>18
      DEF LoopInv, LoopTypeOK
<1>4. CASE FreeRequest
  <2>11. FlagsTypeOK'
    BY <1>4 DEF LoopInv, LoopTypeOK, FlagsTypeOK, FreeRequest, builderVars
  <2>12. CountsTypeOK'
    BY <1>4 DEF LoopInv, LoopTypeOK, CountsTypeOK, NoBuf, MapOwned, FreeRequest, builderVars
  <2>13. headers' \in {"null", "live"} /\ outcome' \in Outcomes
    BY <1>4 DEF LoopInv, LoopTypeOK, Outcomes, FreeRequest, builderVars
  <2>14. MemorySafe'
    BY <1>4 DEF LoopInv, LoopTypeOK, MemorySafe, FreeRequest, builderVars
  <2>15. PhasesInOrder'
    BY <1>4 DEF LoopInv, LoopTypeOK, CountsTypeOK, FlagsTypeOK, PhasesInOrder, NoBuf, MapOwned, FreeRequest, builderVars
  <2>16. TextLeftOver'
    BY <1>4 DEF LoopInv, LoopTypeOK, CountsTypeOK, TextLeftOver, NoBuf, MapOwned, FreeRequest, builderVars
  <2>17. ContentHasRoom'
    BY <1>4 DEF LoopInv, LoopTypeOK, CountsTypeOK, PhasesInOrder, ContentHasRoom, FreeRequest, builderVars
  <2>18. MapOwned'
    BY <1>4 DEF LoopInv, LoopTypeOK, MapOwned, FreeRequest, builderVars
  <2> QED BY <2>11, <2>12, <2>13, <2>14, <2>15, <2>16, <2>17, <2>18
      DEF LoopInv, LoopTypeOK
<1>5. CASE Killed
  BY <1>5, DiesInv DEF Killed, LoopInv, LoopTypeOK, CountsTypeOK, Outcomes, Corruptions
<1>6. CASE UNCHANGED loopVars
  BY <1>6 DEF loopVars, builderVars, requestVars, LoopInv, LoopTypeOK, FlagsTypeOK, CountsTypeOK,
              MemorySafe, PhasesInOrder, TextLeftOver, ContentHasRoom, MapOwned
<1> QED BY <1>1, <1>2, <1>3, <1>4, <1>5, <1>6 DEF LoopNext

----------------------------------------------------------------------------

(* The inductive invariant: what is left over and what content has room    *)
(* for are as the recv loop and setContent leave them.                     *)
THEOREM LoopInvariant == LoopSpec => []LoopInv
  BY InitInv, NextInv, PTL DEF LoopSpec

(* The variables of main() and of the builder keep their types.            *)
THEOREM LoopTypeCorrect == LoopSpec => []LoopTypeOK
<1>1. LoopInv => LoopTypeOK
  BY DEF LoopInv
<1> QED BY <1>1, LoopInvariant, PTL

(* processRequestChunk never prepends past buf nor copies a negative       *)
(* length; it reads past buf only when one recv() filled it, and overflows *)
(* content only for a body longer than declared (request.c:135-210).       *)
THEOREM LoopMemorySafe == LoopSpec => []MemorySafe
<1>1. LoopInv => MemorySafe
  BY DEF LoopInv
<1> QED BY <1>1, LoopInvariant, PTL

(* No content before the headers, no headers before the request line, and  *)
(* the map exists as soon as the headers are complete.                     *)
THEOREM LoopPhasesInOrder == LoopSpec => []PhasesInOrder
<1>1. LoopInv => PhasesInOrder
  BY DEF LoopInv
<1> QED BY <1>1, LoopInvariant, PTL

(* A call of the inner loop leaves less text than it was given.            *)
LEMMA ChunkShrinks ==
  ASSUME LoopInv, continueProcessing,
         ProcessRequestChunk(0, n), outcome' = "ok"
  PROVE  remainingBuf' < remainingBuf
<1>1. remainingBuf \in 1 .. n - 1 /\ n \in 0 .. BufSize - 1
  BY DEF LoopInv, LoopTypeOK, CountsTypeOK, TextLeftOver
<1>2. Strlen(remainingBuf) + 0 = remainingBuf
  BY <1>1 DEF Strlen, NoBuf
<1> DEFINE text == remainingBuf
<1>3. \A how \in Outcomes \ {"ok"} : ~Dies(how)
  BY DEF Dies
<1>4. ASSUME ParseRequestLine(text) PROVE remainingBuf' < remainingBuf
  BY <1>1, <1>3, <1>4 DEF ParseRequestLine, Outcomes, Corruptions
<1>5. ASSUME EndOfHeaders(text, n) PROVE remainingBuf' < remainingBuf
  BY <1>1, <1>3, <1>5 DEF EndOfHeaders, Smaller, Outcomes, Corruptions
<1>6. ASSUME MoreHeaders(text) PROVE remainingBuf' < remainingBuf
  BY <1>1, <1>3, <1>6 DEF MoreHeaders, Outcomes, Corruptions
<1>7. ASSUME SetContent(text) \/ AppendContent(text, n) PROVE remainingBuf' < remainingBuf
  BY <1>1, <1>3, <1>7 DEF SetContent, AppendContent, NoBuf, Outcomes, Corruptions
<1> QED
  BY <1>2, <1>3, <1>4, <1>5, <1>6, <1>7 DEF ProcessRequestChunk, Outcomes, Corruptions

(* So does any step of the loop that is taken while the inner loop runs.    *)
LEMMA LoopStepShrinks ==
  LoopInv /\ [LoopNext]_loopVars
    => [continueProcessing /\ outcome' = "ok" => remainingBuf' < remainingBuf]_loopVars
<1>1. ASSUME LoopInv, LoopNext, continueProcessing, outcome' = "ok"
      PROVE  remainingBuf' < remainingBuf
  <2>1. ProcessAgain
    BY <1>1 DEF LoopNext, RecvChunk, Answered, FreeRequest, Killed, Dies
  <2> QED BY <1>1, <2>1, ChunkShrinks DEF ProcessAgain
<1> QED BY <1>1

(* The inner loop of main() (server.c:173-177) works on ever less text, so *)
(* it makes at most as many calls as one recv() returned bytes.            *)
THEOREM LoopShrinks == LoopSpec => InnerLoopShrinks
  BY LoopStepShrinks, LoopInvariant, PTL DEF LoopSpec, InnerLoopShrinks

=============================================================================
