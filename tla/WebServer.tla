----------------------------- MODULE WebServer -----------------------------
(***************************************************************************)
(* main() of server.c: one process that boots, then serves one connection  *)
(* at a time until SIGINT or an error, and cleans up.  Around it are the   *)
(* clients, the kernel's accept queue and socket buffers, and the user     *)
(* who presses ctrl-C, all of which move between any two of its steps.     *)
(* The request it is reading is the state of ReceiveLoop.                  *)
(***************************************************************************)
EXTENDS ReceiveLoop, Sequences

CONSTANTS
  Clients,      (* Each connects at most once.                           *)
  Backlog,      (* BACKLOG_LENGTH, the argument of listen().             *)
  MaxBytes,     (* Bound: the bytes one client sends.                    *)
  SockBuf,      (* What the kernel buffers for a client that reads late. *)
  PartLen,      (* The length of each call of sendResponse.              *)
  MaxChunks     (* Bound: the body chunks sendBody reads from a file.    *)

NoFd == "none"   (* -1, which is no descriptor.                          *)

ASSUME WebServerAssumption ==
  /\ Backlog \in Nat
  /\ MaxBytes \in Nat
  /\ SockBuf \in Nat \ {0}
  /\ PartLen \in Nat \ {0}
  /\ MaxChunks \in Nat

ASSUME NoFdAssumption == NoFd \notin Clients

VARIABLES
  pc,           (* where main() is                                       *)
  keepRunning, status, clientfd,            (* as in main()              *)
  listening,    (* serverfd is open                                      *)
  openfds,      (* the clients whose connection main() holds open        *)
  respHeaders,  (* response->headers: "garbage", "null" or "live"        *)
  respMaps,     (* response header maps allocated and not freed          *)
  parts,        (* how many times sendResponse is called for a response  *)
  part, total,  (* the call it is in, and total there                    *)
  copied,       (* the bytes the send() in progress has copied           *)
  accepted,     (* the bytes the kernel has taken for this client        *)
  backlog,      (* connections the kernel completed, not yet accepted    *)
  peer,         (* each client: "idle", "open", "shut" or "gone"         *)
  budget,       (* the bytes each client may still send                  *)
  inbox,        (* the bytes waiting to be received from each client     *)
  unread        (* the bytes clientfd's client has not read yet          *)

responseVars == <<respHeaders, respMaps, parts, part, total, copied>>
clientVars   == <<peer, budget, inbox>>
channelVars  == <<accepted, unread>>
mainVars     == <<keepRunning, status, clientfd, listening, openfds, backlog>>
serverVars   == <<loopVars, pc, mainVars, responseVars, clientVars, channelVars>>

Pcs == {"boot", "accept", "recv", "received", "generate", "send", "call",
        "inSend", "interrupted", "sent", "again", "cleanup", "over", "wild"}

(* main() has returned, exited, crashed or been killed.                    *)
Over    == pc \in {"over", "wild"} \/ outcome # "ok"
Running == ~Over

----------------------------------------------------------------------------

(* initializeResponse leaves headers as malloc returned it.                *)
Init ==
  /\ LoopInit
  /\ pc = "boot"
  /\ keepRunning = TRUE
  /\ status = "success"
  /\ clientfd = NoFd
  /\ listening = FALSE
  /\ openfds = {}
  /\ respHeaders \in {"null", "garbage"}
  /\ respMaps = 0
  /\ parts = 0 /\ part = 0 /\ total = 0 /\ copied = 0
  /\ accepted = 0
  /\ backlog = <<>>
  /\ peer = [c \in Clients |-> "idle"]
  /\ budget = [c \in Clients |-> MaxBytes]
  /\ inbox = [c \in Clients |-> 0]
  /\ unread = 0

(* The configuration is read, the socket bound and listening, the handler  *)
(* of SIGINT installed.                                                    *)
Boot ==
  /\ pc = "boot" /\ Running
  /\ pc' = "accept"
  /\ listening' = TRUE
  /\ UNCHANGED <<loopVars, keepRunning, status, clientfd, openfds, backlog,
                 responseVars, clientVars, channelVars>>

(* No configuration, or a system call of the boot failed.                  *)
BootFails ==
  /\ pc = "boot" /\ Running
  /\ pc' = "cleanup"
  /\ status' = "failure"
  /\ listening' \in BOOLEAN
  /\ UNCHANGED <<loopVars, keepRunning, clientfd, openfds, backlog,
                 responseVars, clientVars, channelVars>>

----------------------------------------------------------------------------

(* accept() takes the first connection; one that arrives together with     *)
(* SIGINT is accepted and not served.                                      *)
Accept ==
  /\ pc = "accept" /\ Running
  /\ backlog # <<>>
  /\ clientfd' = Head(backlog)
  /\ backlog' = Tail(backlog)
  /\ openfds' = openfds \cup {Head(backlog)}
  /\ accepted' = 0
  /\ unread' = 0
  /\ pc' = IF keepRunning THEN "recv" ELSE "cleanup"
  /\ UNCHANGED <<loopVars, keepRunning, status, listening, responseVars, clientVars>>

(* A variant with a bug: the loop does not look at keepRunning.            *)
AcceptNothingForever ==
  /\ pc = "accept" /\ Running
  /\ backlog = <<>>
  /\ clientfd' = NoFd
  /\ UNCHANGED <<loopVars, pc, keepRunning, status, listening, openfds, backlog,
                 responseVars, clientVars, channelVars>>

(* EAGAIN: the loop goes on until SIGINT.                                  *)
AcceptNothing ==
  /\ pc = "accept" /\ Running
  /\ backlog = <<>>
  /\ clientfd' = NoFd
  /\ pc' = IF keepRunning THEN "accept" ELSE "cleanup"
  /\ UNCHANGED <<loopVars, keepRunning, status, listening, openfds, backlog,
                 responseVars, clientVars, channelVars>>

(* Any other error (EMFILE, ECONNABORTED...) ends the server.              *)
AcceptFails ==
  /\ pc = "accept" /\ Running
  /\ clientfd' = NoFd
  /\ pc' = "cleanup"
  /\ status' = IF keepRunning THEN "failure" ELSE status
  /\ UNCHANGED <<loopVars, keepRunning, listening, openfds, backlog,
                 responseVars, clientVars, channelVars>>

----------------------------------------------------------------------------

Reading == pc = "recv" /\ Running /\ ~continueProcessing

(* while (keepRunning) of the recv loop ends.                              *)
StopReading ==
  /\ Reading
  /\ ~keepRunning
  /\ pc' = "received"
  /\ UNCHANGED <<loopVars, mainVars, responseVars, clientVars, channelVars>>

(* Bytes were received, as many as there are and fit.                      *)
RecvData ==
  /\ Reading
  /\ keepRunning
  /\ inbox[clientfd] > 0
  /\ LET k == Smaller(inbox[clientfd], BufSize - 1) IN
       /\ RecvChunk(k)
       /\ inbox' = [inbox EXCEPT ![clientfd] = @ - k]
  /\ UNCHANGED <<pc, mainVars, responseVars, peer, budget, channelVars>>

(* The inner loop, which does not look at keepRunning.                     *)
ProcessRemaining ==
  /\ pc = "recv" /\ Running
  /\ ProcessAgain
  /\ UNCHANGED <<pc, mainVars, responseVars, clientVars, channelVars>>

(* EAGAIN: the end of a request whose headers are complete, otherwise the  *)
(* loop goes on.                                                           *)
RecvNothing ==
  /\ Reading
  /\ keepRunning
  /\ inbox[clientfd] = 0
  /\ peer[clientfd] = "open"
  /\ pc' = IF isRequestLineSet /\ areHeadersSet THEN "received" ELSE "recv"
  /\ UNCHANGED <<loopVars, mainVars, responseVars, clientVars, channelVars>>

(* A variant with a bug: recv() returning 0 is taken for EAGAIN.           *)
RecvClosedIgnored ==
  /\ Reading
  /\ keepRunning
  /\ inbox[clientfd] = 0
  /\ peer[clientfd] \in {"shut", "gone"}
  /\ pc' = IF isRequestLineSet /\ areHeadersSet THEN "received" ELSE "recv"
  /\ UNCHANGED <<loopVars, mainVars, responseVars, clientVars, channelVars>>

(* recv() returns 0: the client has closed its side.                       *)
RecvClosed ==
  /\ Reading
  /\ keepRunning
  /\ inbox[clientfd] = 0
  /\ peer[clientfd] \in {"shut", "gone"}
  /\ pc' = "received"
  /\ UNCHANGED <<loopVars, mainVars, responseVars, clientVars, channelVars>>

(* A variant with a bug: a reset connection is left for the next one.      *)
RecvFailsLeaks ==
  /\ Reading
  /\ keepRunning
  /\ peer[clientfd] = "gone"
  /\ pc' = "accept"
  /\ UNCHANGED <<loopVars, mainVars, responseVars, clientVars, channelVars>>

(* recv() fails: the connection was reset.                                 *)
RecvFails ==
  /\ Reading
  /\ keepRunning
  /\ peer[clientfd] = "gone"
  /\ status' = "failure"
  /\ pc' = "cleanup"
  /\ UNCHANGED <<loopVars, keepRunning, clientfd, listening, openfds, backlog,
                 responseVars, clientVars, channelVars>>

(* A variant with a bug: a request line is taken for a whole request.      *)
ReceivedLine ==
  /\ pc = "received" /\ Running
  /\ pc' = IF keepRunning /\ isRequestLineSet THEN "generate" ELSE "cleanup"
  /\ status' = IF keepRunning /\ ~isRequestLineSet THEN "failure" ELSE status
  /\ UNCHANGED <<loopVars, keepRunning, clientfd, listening, openfds, backlog,
                 responseVars, clientVars, channelVars>>

(* What follows the recv loop: SIGINT and an incomplete request both end   *)
(* the server, the second with a failure.                                  *)
Received ==
  /\ pc = "received" /\ Running
  /\ LET complete == isRequestLineSet /\ areHeadersSet IN
       /\ pc' = IF keepRunning /\ complete THEN "generate" ELSE "cleanup"
       /\ status' = IF keepRunning /\ ~complete THEN "failure" ELSE status
  /\ UNCHANGED <<loopVars, keepRunning, clientfd, listening, openfds, backlog,
                 responseVars, clientVars, channelVars>>

----------------------------------------------------------------------------

(* A status line, header lines, and a body of any number of chunks.        *)
GenerateResponse ==
  /\ pc = "generate" /\ Running
  /\ respHeaders' = "live"
  /\ respMaps' = respMaps + 1
  /\ parts' \in 2 .. 2 + MaxChunks
  /\ part' = 1
  /\ total' = 0
  /\ pc' = "send"
  /\ UNCHANGED <<loopVars, mainVars, copied, clientVars, channelVars>>

(* A file of a compressed type, asked for without Accept-Encoding: strstr  *)
(* is given a NULL pointer.                                                *)
GenerateCrashes ==
  /\ pc = "generate" /\ Running
  /\ Killed
  /\ UNCHANGED <<pc, mainVars, responseVars, clientVars, channelVars>>

(* Variants with a bug: keepRunning is not looked at; the last chunk is    *)
(* left out.                                                               *)
SendLoopUnstoppable ==
  /\ pc = "send" /\ Running
  /\ IF part <= parts /\ total < PartLen
     THEN pc' = "call" /\ UNCHANGED <<part, total>>
     ELSE /\ pc' = IF part < parts THEN "send" ELSE "sent"
          /\ part' = part + 1
          /\ total' = 0
  /\ UNCHANGED <<loopVars, mainVars, respHeaders, respMaps, parts, copied,
                 clientVars, channelVars>>

SendLoopShort ==
  /\ pc = "send" /\ Running
  /\ IF part < parts /\ total < PartLen /\ keepRunning
     THEN pc' = "call" /\ UNCHANGED <<part, total>>
     ELSE /\ pc' = IF part < parts THEN "send" ELSE "sent"
          /\ part' = part + 1
          /\ total' = 0
  /\ UNCHANGED <<loopVars, mainVars, respHeaders, respMaps, parts, copied,
                 clientVars, channelVars>>

(* The head of the loop of sendResponse, and what follows it.              *)
SendLoop ==
  /\ pc = "send" /\ Running
  /\ IF part <= parts /\ total < PartLen /\ keepRunning
     THEN pc' = "call" /\ UNCHANGED <<part, total>>
     ELSE /\ pc' = IF part < parts THEN "send" ELSE "sent"
          /\ part' = part + 1
          /\ total' = 0
  /\ UNCHANGED <<loopVars, mainVars, respHeaders, respMaps, parts, copied,
                 clientVars, channelVars>>

(* send() enters the kernel.  A signal handled before this point no longer *)
(* interrupts it.                                                          *)
EnterSend ==
  /\ pc = "call" /\ Running
  /\ pc' = "inSend"
  /\ copied' = 0
  /\ UNCHANGED <<loopVars, mainVars, respHeaders, respMaps, parts, part, total,
                 clientVars, channelVars>>

(* The kernel copies one more byte; it has to wait for room, except that   *)
(* what is sent to a client that is gone is lost.                          *)
CopyByte ==
  /\ pc \in {"inSend", "interrupted"} /\ Running
  /\ total + copied < PartLen
  /\ \/ peer[clientfd] # "gone" /\ unread < SockBuf /\ unread' = unread + 1
     \/ peer[clientfd] = "gone" /\ unread' = unread
  /\ copied' = copied + 1
  /\ accepted' = accepted + 1
  /\ UNCHANGED <<loopVars, pc, mainVars, respHeaders, respMaps, parts, part, total,
                 clientVars>>

(* send() returns a count: everything is copied, or a signal or the end of *)
(* the connection cut it short.                                            *)
SendReturns ==
  /\ pc \in {"inSend", "interrupted"} /\ Running
  /\ copied > 0
  /\ \/ total + copied = PartLen
     \/ pc = "interrupted"
     \/ peer[clientfd] = "gone"
  /\ total' = total + copied
  /\ copied' = 0
  /\ pc' = "send"
  /\ UNCHANGED <<loopVars, mainVars, respHeaders, respMaps, parts, part,
                 clientVars, channelVars>>

(* send() returns -1 and sendResponse gives up this part; the next part is *)
(* tried all the same.                                                     *)
SendFails ==
  /\ pc \in {"inSend", "interrupted"} /\ Running
  /\ copied = 0
  /\ pc = "interrupted" \/ peer[clientfd] = "gone"
  /\ part' = part + 1
  /\ total' = 0
  /\ pc' = IF part < parts THEN "send" ELSE "sent"
  /\ UNCHANGED <<loopVars, mainVars, respHeaders, respMaps, parts, copied,
                 clientVars, channelVars>>

(* SIGPIPE, which is not handled, on a connection that is gone.            *)
SendKills ==
  /\ pc \in {"inSend", "interrupted"} /\ Running
  /\ copied = 0
  /\ peer[clientfd] = "gone"
  /\ Killed
  /\ UNCHANGED <<pc, mainVars, responseVars, clientVars, channelVars>>

(* SIGINT ends the server before anything is reset.                        *)
StopSending ==
  /\ pc = "sent" /\ Running
  /\ ~keepRunning
  /\ pc' = "cleanup"
  /\ UNCHANGED <<loopVars, mainVars, responseVars, clientVars, channelVars>>

(* A variant with a bug: the pointer is cleared, the map is not freed.     *)
ResetResponseLeaks ==
  /\ respHeaders' = "null"
  /\ parts' = 0 /\ part' = 0 /\ total' = 0
  /\ UNCHANGED <<respMaps, copied>>

(* resetResponse.                                                          *)
ResetResponse ==
  /\ respHeaders' = "null"
  /\ respMaps' = IF respHeaders = "live" THEN respMaps - 1 ELSE respMaps
  /\ parts' = 0 /\ part' = 0 /\ total' = 0
  /\ UNCHANGED copied

(* A variant with a bug: the response is not reset.                        *)
AnswerKeepsResponse ==
  /\ pc = "sent" /\ Running
  /\ keepRunning
  /\ ResetRequest
  /\ openfds' = openfds \ {clientfd}
  /\ clientfd' \in {NoFd, clientfd}
  /\ pc' = "again"
  /\ UNCHANGED <<keepRunning, status, listening, backlog, responseVars,
                 clientVars, channelVars>>

(* A variant with a bug: the connection is not closed.                     *)
AnswerLeavesOpen ==
  /\ pc = "sent" /\ Running
  /\ keepRunning
  /\ ResetRequest
  /\ ResetResponse
  /\ clientfd' \in {NoFd, clientfd}
  /\ pc' = "again"
  /\ UNCHANGED <<keepRunning, status, listening, openfds, backlog, clientVars, channelVars>>

(* The three resets, then close(), which releases the descriptor even when *)
(* it reports an error; clientfd then keeps its value.                     *)
Answer ==
  /\ pc = "sent" /\ Running
  /\ keepRunning
  /\ ResetRequest
  /\ ResetResponse
  /\ openfds' = openfds \ {clientfd}
  /\ clientfd' \in {NoFd, clientfd}
  /\ pc' = "again"
  /\ UNCHANGED <<keepRunning, status, listening, backlog, clientVars, channelVars>>

(* while (keepRunning) of the outer loop.                                  *)
ServeAgain ==
  /\ pc = "again" /\ Running
  /\ pc' = IF keepRunning THEN "accept" ELSE "cleanup"
  /\ UNCHANGED <<loopVars, mainVars, responseVars, clientVars, channelVars>>

(* A variant with a bug: the map is freed without a test for NULL.         *)
CleanupUnchecked ==
  /\ pc = "cleanup" /\ Running
  /\ FreeRequest
  /\ pc' = IF respHeaders = "garbage" THEN "wild" ELSE "over"
  /\ respMaps' = respMaps - 1
  /\ openfds' = IF respHeaders = "garbage" THEN openfds ELSE openfds \ {clientfd}
  /\ listening' = IF respHeaders = "garbage" THEN listening ELSE FALSE
  /\ UNCHANGED <<keepRunning, status, clientfd, backlog, respHeaders, parts, part,
                 total, copied, clientVars, channelVars>>

(* free and close.  freeResponse follows whatever headers holds.           *)
Cleanup ==
  /\ pc = "cleanup" /\ Running
  /\ FreeRequest
  /\ pc' = IF respHeaders = "garbage" THEN "wild" ELSE "over"
  /\ respMaps' = IF respHeaders = "live" THEN respMaps - 1 ELSE respMaps
  /\ openfds' = IF respHeaders = "garbage" THEN openfds ELSE openfds \ {clientfd}
  /\ listening' = IF respHeaders = "garbage" THEN listening ELSE FALSE
  /\ UNCHANGED <<keepRunning, status, clientfd, backlog, respHeaders, parts, part,
                 total, copied, clientVars, channelVars>>

----------------------------------------------------------------------------

(* ctrl-C.  Until the handler is installed it kills the process; later it  *)
(* clears keepRunning and wakes a send() that is in the kernel.  Nothing   *)
(* in the cleanup depends on it.                                           *)
Sigint ==
  /\ Running
  /\ keepRunning
  /\ pc # "cleanup"
  /\ IF pc = "boot"
     THEN Killed /\ UNCHANGED <<pc, keepRunning>>
     ELSE /\ keepRunning' = FALSE
          /\ pc' = IF pc = "inSend" THEN "interrupted" ELSE pc
          /\ UNCHANGED loopVars
  /\ UNCHANGED <<status, clientfd, listening, openfds, backlog,
                 responseVars, clientVars, channelVars>>

(* The kernel completes a connection while its queue has room.             *)
Connect(c) ==
  /\ Running /\ listening
  /\ peer[c] = "idle"
  /\ Len(backlog) <= Backlog
  /\ peer' = [peer EXCEPT ![c] = "open"]
  /\ backlog' = Append(backlog, c)
  /\ UNCHANGED <<loopVars, pc, keepRunning, status, clientfd, listening, openfds,
                 responseVars, budget, inbox, channelVars>>

ClientSend(c) ==
  /\ Running
  /\ peer[c] = "open"
  /\ \E k \in 1 .. budget[c] :
       /\ budget' = [budget EXCEPT ![c] = @ - k]
       /\ inbox' = [inbox EXCEPT ![c] = @ + k]
  /\ UNCHANGED <<loopVars, pc, mainVars, responseVars, peer, channelVars>>

(* shutdown(SHUT_WR), or the end of what the client has to say.            *)
ClientShut(c) ==
  /\ Running
  /\ peer[c] = "open"
  /\ peer' = [peer EXCEPT ![c] = "shut"]
  /\ UNCHANGED <<loopVars, pc, mainVars, responseVars, budget, inbox, channelVars>>

(* The client closes its socket, crashes, or gives up.                     *)
ClientGone(c) ==
  /\ Running
  /\ peer[c] \in {"open", "shut"}
  /\ peer' = [peer EXCEPT ![c] = "gone"]
  /\ UNCHANGED <<loopVars, pc, mainVars, responseVars, budget, inbox, channelVars>>

ClientRead ==
  /\ Running
  /\ clientfd \in openfds
  /\ peer[clientfd] # "gone"
  /\ unread > 0
  /\ unread' = unread - 1
  /\ UNCHANGED <<loopVars, pc, mainVars, responseVars, clientVars, accepted>>

----------------------------------------------------------------------------

(* What the system may do to main() but never has to.                      *)
Fails ==
  \/ BootFails \/ AcceptFails \/ RecvFails \/ GenerateCrashes \/ SendKills

(* What main() does by itself.                                             *)
Work ==
  \/ Boot \/ Accept \/ AcceptNothing
  \/ StopReading \/ RecvData \/ ProcessRemaining
  \/ RecvNothing \/ RecvClosed \/ Received
  \/ GenerateResponse \/ SendLoop \/ EnterSend \/ CopyByte
  \/ SendReturns \/ SendFails
  \/ StopSending \/ Answer \/ ServeAgain \/ Cleanup

Client(c) == Connect(c) \/ ClientSend(c) \/ ClientShut(c) \/ ClientGone(c)

(* Nothing happens any more.                                               *)
Ended == Over /\ UNCHANGED serverVars

Next == Work \/ Fails \/ Sigint \/ ClientRead \/ Ended \/ \E c \in Clients : Client(c)

Spec == Init /\ [][Next]_serverVars

(* main() is one thread that the system keeps running.                     *)
ServerSpec == Spec /\ WF_serverVars(Work)

(* And clients that read what they are sent.                               *)
ReadingSpec == ServerSpec /\ WF_serverVars(ClientRead)

(* And, besides, each client is done sending some day.                     *)
FairSpec == ReadingSpec /\ \A c \in Clients : WF_serverVars(ClientShut(c))

----------------------------------------------------------------------------

TypeOK ==
  /\ LoopTypeOK
  /\ pc \in Pcs
  /\ keepRunning \in BOOLEAN
  /\ status \in {"success", "failure"}
  /\ clientfd \in Clients \cup {NoFd}
  /\ listening \in BOOLEAN
  /\ openfds \subseteq Clients
  /\ respHeaders \in {"garbage", "null", "live"}
  /\ respMaps \in Nat
  /\ parts \in 0 .. 2 + MaxChunks
  /\ part \in 0 .. 3 + MaxChunks
  /\ total \in 0 .. PartLen
  /\ copied \in 0 .. PartLen
  /\ accepted \in Nat
  /\ backlog \in Seq(Clients)
  /\ peer \in [Clients -> {"idle", "open", "shut", "gone"}]
  /\ budget \in [Clients -> 0 .. MaxBytes]
  /\ inbox \in [Clients -> 0 .. MaxBytes]
  /\ unread \in 0 .. SockBuf

(* sendResponse gives a part up after a failed or interrupted send() and   *)
(* main() goes on to the next one (response.c:92-107, server.c:203-205);   *)
(* still no client that is there is ever sent a later byte of a response   *)
(* without all the earlier ones, whatever SIGINT interrupts.               *)
NoHoles ==
  pc \in {"call", "inSend", "interrupted"} /\ Running /\ peer[clientfd] # "gone"
    => accepted = (part - 1) * PartLen + total + copied

(* A response that main() counts as sent (server.c:206-210) was taken by   *)
(* the kernel to the last byte, unless its client is gone.                 *)
AnsweredInFull ==
  pc = "sent" /\ Running /\ keepRunning /\ peer[clientfd] # "gone"
    => accepted = parts * PartLen

(* A new connection starts with nothing of the one before: flags, text,    *)
(* headers and descriptor (the resets and the close of server.c:212-223).  *)
FreshAtAccept ==
  pc = "accept" /\ Running =>
    /\ ~isRequestLineSet /\ ~areHeadersSet /\ ~isContentSet
    /\ remainingBuf = NoBuf /\ content = 0
    /\ headers = "null" /\ respHeaders # "live"
    /\ openfds = {}

(* The header maps are owned by the two pointers on every path (created in *)
(* request.c:186 and response.c:337, freed by resets and by the cleanup):  *)
(* none leaks, none is freed twice, none is left when main() returns.      *)
MapsOwned ==
  /\ Running => /\ maps = IF headers = "live" THEN 1 ELSE 0
                /\ respMaps = IF respHeaders = "live" THEN 1 ELSE 0
  /\ pc = "over" => maps = 0 /\ respMaps = 0

(* recv() and send() are only called on the connection main() holds open,  *)
(* never on the number a failed close() left in clientfd (server.c:216-223)*)
(* and main() returns with no descriptor open (server.c:231-243).          *)
DescriptorsClosed ==
  /\ openfds \subseteq {clientfd}
  /\ pc \in {"recv", "received", "generate", "send", "call",
            "inSend", "interrupted", "sent"} => clientfd \in openfds
  /\ pc = "over" => openfds = {} /\ ~listening

(* What makes these inductive: where main() is says what the request and   *)
(* the response hold ...                                                   *)
BetweenRequests  == pc \in {"boot", "accept", "again"}
BeforeResponse   == pc \in {"recv", "received", "generate"}
InResponse       == pc \in {"send", "call", "inSend", "interrupted", "sent"}

RequestAtPc ==
  Running =>
    /\ continueProcessing => pc = "recv"
    /\ BetweenRequests => /\ ~isRequestLineSet /\ ~areHeadersSet /\ ~isContentSet
                          /\ remainingBuf = NoBuf /\ content = 0
                          /\ headers = "null"
    /\ pc = "generate" \/ InResponse => isRequestLineSet /\ areHeadersSet

ResponseAtPc ==
  Running =>
    /\ BetweenRequests \/ BeforeResponse => respHeaders # "live" /\ parts = 0
    /\ InResponse => respHeaders = "live" /\ parts >= 2

(* ... which descriptors are open, and who may have sent how much ...      *)
ConnectionAtPc ==
  /\ BetweenRequests => openfds = {}
  /\ pc = "interrupted" => ~keepRunning
  /\ \A c \in Clients : inbox[c] + budget[c] <= MaxBytes

(* ... and how far the response is: accepted is exact for a client that is *)
(* there, as long as no part was given up, and never too much.             *)
Before(k)  == (k - 1) * PartLen

SentAtPc ==
  Running =>
    /\ BeforeResponse => accepted = 0
    /\ pc \notin {"inSend", "interrupted"} => copied = 0
    /\ pc \in {"call", "inSend", "interrupted"} => total < PartLen
    /\ total + copied <= PartLen
    /\ InResponse =>
         /\ IF pc = "sent" THEN part = parts + 1 /\ total = 0 ELSE part \in 1 .. parts
         /\ accepted <= Before(part) + total + copied
         /\ (pc \in {"send", "sent"} => keepRunning) /\ peer[clientfd] # "gone"
              => accepted = Before(part) + total + copied

(* All of main(), its clients and the kernel (server.c:91-246), as one     *)
(* inductive invariant.                                                    *)
ServerInv ==
  /\ LoopInv /\ TypeOK
  /\ MapsOwned /\ DescriptorsClosed
  /\ RequestAtPc /\ ResponseAtPc /\ ConnectionAtPc /\ SentAtPc

(* Composed with its clients and SIGINT, main() drives the request builder *)
(* as ReceiveLoop says: it never answers, resets or frees a request in the *)
(* middle of the inner loop or before its headers are complete.            *)
DrivesReceiveLoop == LoopInit /\ [][LoopNext]_loopVars

(* For the clients main() is a service that takes them one at a time, in   *)
(* the order they came, and turns to the next only when one has all of its *)
(* response, is gone, or the server ends (server.c:120-224), whatever      *)
(* SIGINT, resets and failing calls do between any two steps.              *)
InTurn == Running /\ clientfd \in openfds

Service == INSTANCE SequentialService WITH
  None    <- NoFd,
  came    <- {c \in Clients : peer[c] # "idle"},
  left    <- {c \in Clients : peer[c] = "gone"},
  waiting <- backlog,
  serving <- IF InTurn THEN clientfd ELSE NoFd,
  given   <- IF InTurn THEN accepted ELSE 0,
  length  <- IF InTurn THEN parts * PartLen ELSE 0,
  stopped <- Over

ImplementsService == Service!Spec

(* After SIGINT the process ends (server.c:180-183, 206-209, 224).         *)
SigintStops == ~keepRunning ~> Over

(* A client that connects is not kept waiting for ever: its connection is  *)
(* closed, or the process has ended (server.c:120-224).                    *)
EveryClientGetsThrough ==
  \A c \in Clients :
    peer[c] = "open" ~> Over \/ (c \notin openfds /\ \A i \in DOMAIN backlog : backlog[i] # c)

(* "Failed to read complete HTTP request, closing connection..."           *)
(* (server.c:188): an incomplete request costs its client the connection,  *)
(* and the server goes on.                                                 *)
IncompleteEndsConnection ==
  [][pc = "received" /\ keepRunning => pc' # "cleanup"]_serverVars

(* "Caught SIGINT while sending response, shutting down server..."         *)
(* (server.c:207): SIGINT during a response ends the server, whatever its  *)
(* client does.                                                            *)
SigintStopsSending ==
  ~keepRunning /\ pc \in {"send", "call", "inSend", "interrupted"} ~> Over

=============================================================================
