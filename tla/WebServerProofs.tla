-------------------------- MODULE WebServerProofs --------------------------
(***************************************************************************)
(* main() with its clients, the kernel's queues and SIGINT: what it owns,  *)
(* has open and has sent at every point, for any number of clients, any    *)
(* backlog and any sizes.  Its steps on the request are steps of           *)
(* ReceiveLoop, so what is proved there holds here.                        *)
(***************************************************************************)
EXTENDS WebServer, ReceiveLoopProofs, SequenceTheorems

USE BufSizeAssumption, WebServerAssumption, NoFdAssumption
USE DEF BufSizeAssumption, WebServerAssumption, NoFdAssumption
USE DEF serverVars, mainVars, responseVars, clientVars, channelVars,
        loopVars, builderVars, requestVars, Running, Over

(* Every step of main() is a step of the receive loop or leaves it alone.  *)
LEMMA DrivesLoop == ServerInv /\ [Next]_serverVars => [LoopNext]_loopVars
<1> SUFFICES ASSUME ServerInv, [Next]_serverVars PROVE LoopNext \/ UNCHANGED loopVars
  OBVIOUS
<1>1. CASE RecvData
  <2>1. clientfd \in Clients /\ inbox[clientfd] \in Nat
    BY <1>1 DEF ServerInv, TypeOK, DescriptorsClosed, RecvData, Reading
  <2>2. Smaller(inbox[clientfd], BufSize - 1) \in 1 .. BufSize - 1
    BY <1>1, <2>1 DEF RecvData, Smaller
  <2> QED BY <1>1, <2>2 DEF RecvData, LoopNext
<1>2. CASE ProcessRemaining
  BY <1>2 DEF ProcessRemaining, LoopNext
<1>3. CASE Answer
  BY <1>3 DEF Answer, ServerInv, RequestAtPc, InResponse, Answered, LoopNext
<1>4. CASE Cleanup
  BY <1>4 DEF Cleanup, LoopNext
<1>5. CASE GenerateCrashes \/ SendKills
  BY <1>5 DEF GenerateCrashes, SendKills, LoopNext
<1>6. CASE Sigint
  BY <1>6 DEF Sigint, LoopNext
<1>7. CASE UNCHANGED loopVars
  BY <1>7
<1>8. CASE ~(\/ RecvData \/ ProcessRemaining \/ Answer \/ Cleanup
             \/ GenerateCrashes \/ SendKills \/ Sigint)
  BY <1>8 DEF Next, Work, Fails, Client, Boot, Accept, AcceptNothing, StopReading, RecvNothing,
     RecvClosed, Received, GenerateResponse, SendLoop, EnterSend, CopyByte, SendReturns, SendFails,
     StopSending, ServeAgain, BootFails, AcceptFails, RecvFails, ClientRead, Ended,
     Connect, ClientSend, ClientShut, ClientGone
<1> QED BY <1>1, <1>2, <1>3, <1>4, <1>5, <1>6, <1>7, <1>8

(* So the invariant of the receive loop carries over.                      *)
LEMMA LoopInvCarries == ServerInv /\ [Next]_serverVars => LoopInv'
  BY DrivesLoop, NextInv DEF ServerInv

LEMMA InitServerInv == Init => ServerInv
<1> SUFFICES ASSUME Init PROVE ServerInv
  OBVIOUS
<1>1. LoopInv
  BY InitInv DEF Init
<1>2. TypeOK
  <2>1. backlog \in Seq(Clients)
    BY DEF Init
  <2>2. /\ peer \in [Clients -> {"idle", "open", "shut", "gone"}]
        /\ budget \in [Clients -> 0 .. MaxBytes]
        /\ inbox \in [Clients -> 0 .. MaxBytes]
    BY DEF Init
  <2>3. /\ parts \in 0 .. 2 + MaxChunks /\ part \in 0 .. 3 + MaxChunks
        /\ total \in 0 .. PartLen /\ copied \in 0 .. PartLen
        /\ unread \in 0 .. SockBuf /\ accepted \in Nat /\ respMaps \in Nat
    BY DEF Init
  <2>4. /\ pc \in Pcs /\ keepRunning \in BOOLEAN /\ status \in {"success", "failure"}
        /\ clientfd \in Clients \cup {NoFd} /\ listening \in BOOLEAN
        /\ openfds \subseteq Clients /\ respHeaders \in {"garbage", "null", "live"}
    BY DEF Init, Pcs
  <2> QED BY <1>1, <2>1, <2>2, <2>3, <2>4 DEF TypeOK, LoopInv
<1>3. MapsOwned /\ DescriptorsClosed
  BY DEF Init, LoopInit, MapsOwned, DescriptorsClosed
<1>4. RequestAtPc /\ ResponseAtPc
  BY DEF Init, LoopInit, RequestAtPc, ResponseAtPc, BetweenRequests, BeforeResponse, InResponse
<1>5. ConnectionAtPc /\ SentAtPc
  BY DEF Init, ConnectionAtPc, SentAtPc, BetweenRequests, BeforeResponse, InResponse
<1> QED BY <1>1, <1>2, <1>3, <1>4, <1>5 DEF ServerInv

(* Steps that decide where main() goes next and little else.               *)
LEMMA PlainStepsInv ==
  ASSUME ServerInv, LoopInv',
         \/ Boot \/ BootFails \/ AcceptNothing \/ AcceptFails \/ StopReading
         \/ RecvNothing \/ RecvClosed \/ RecvFails \/ Received
         \/ EnterSend \/ StopSending \/ ServeAgain
  PROVE  ServerInv'
<1> USE DEF ServerInv, LoopInv, TypeOK, Pcs, MapsOwned, DescriptorsClosed, RequestAtPc,
            ResponseAtPc, ConnectionAtPc, SentAtPc, BetweenRequests, BeforeResponse, InResponse
<1>1. CASE Boot
  BY <1>1 DEF Boot
<1>2. CASE BootFails
  BY <1>2 DEF BootFails
<1>3. CASE AcceptNothing
  BY <1>3 DEF AcceptNothing
<1>4. CASE AcceptFails
  BY <1>4 DEF AcceptFails
<1>5. CASE StopReading
  BY <1>5 DEF StopReading, Reading
<1>6. CASE RecvNothing
  BY <1>6 DEF RecvNothing, Reading
<1>7. CASE RecvClosed
  BY <1>7 DEF RecvClosed, Reading
<1>8. CASE RecvFails
  BY <1>8 DEF RecvFails, Reading
<1>9. CASE Received
  BY <1>9 DEF Received
<1>10. CASE EnterSend
  BY <1>10 DEF EnterSend
<1>11. CASE StopSending
  BY <1>11 DEF StopSending
<1>12. CASE ServeAgain
  BY <1>12 DEF ServeAgain
<1> QED BY <1>1, <1>2, <1>3, <1>4, <1>5, <1>6, <1>7, <1>8, <1>9, <1>10, <1>11, <1>12

(* accept(): the books of the new connection are opened.                   *)
LEMMA AcceptInv ==
  ASSUME ServerInv, LoopInv', Accept
  PROVE  ServerInv'
<1>1. TypeOK'
  <2>1. Head(backlog) \in Clients /\ Tail(backlog) \in Seq(Clients)
    BY HeadTailProperties DEF Accept, ServerInv, TypeOK
  <2> QED BY <2>1 DEF Accept, ServerInv, TypeOK, Pcs, LoopInv
<1>2. MapsOwned'
  BY DEF Accept, ServerInv, MapsOwned
<1>3. DescriptorsClosed' /\ ConnectionAtPc'
  BY DEF Accept, ServerInv, DescriptorsClosed, ConnectionAtPc, BetweenRequests
<1>4. RequestAtPc' /\ ResponseAtPc'
  BY DEF Accept, ServerInv, RequestAtPc, ResponseAtPc, BetweenRequests, BeforeResponse, InResponse
<1>5. SentAtPc'
  BY DEF Accept, ServerInv, SentAtPc, BeforeResponse, InResponse
<1> QED BY <1>1, <1>2, <1>3, <1>4, <1>5 DEF ServerInv

(* A call of processRequestChunk changes nothing but the request, and what *)
(* is left to receive.                                                     *)
LEMMA RecvDataInv ==
  ASSUME ServerInv, LoopInv', RecvData
  PROVE  ServerInv'
<1> DEFINE k == Smaller(inbox[clientfd], BufSize - 1)
<1>1. clientfd \in Clients /\ inbox[clientfd] \in 1 .. MaxBytes
  BY DEF RecvData, Reading, ServerInv, TypeOK, DescriptorsClosed
<1>2. k \in 1 .. inbox[clientfd]
  BY <1>1 DEF Smaller
<1>3. /\ inbox' \in [Clients -> 0 .. MaxBytes]
      /\ \A c \in Clients : inbox'[c] <= inbox[c]
  BY <1>1, <1>2 DEF RecvData, ServerInv, TypeOK
<1> HIDE DEF k
<1>4. TypeOK'
  BY <1>3 DEF RecvData, ServerInv, TypeOK, LoopInv
<1>5. ConnectionAtPc'
  <2>1. ASSUME NEW c \in Clients PROVE inbox'[c] + budget'[c] <= MaxBytes
    BY <1>3 DEF RecvData, ServerInv, TypeOK, ConnectionAtPc
  <2> QED BY <2>1 DEF RecvData, Reading, ServerInv, ConnectionAtPc, BetweenRequests
<1>6. MapsOwned' /\ DescriptorsClosed'
  BY DEF RecvData, Reading, ServerInv, MapsOwned, DescriptorsClosed, LoopInv, MapOwned
<1>7. RequestAtPc' /\ ResponseAtPc'
  BY DEF RecvData, Reading, ServerInv, RequestAtPc, ResponseAtPc,
         BetweenRequests, BeforeResponse, InResponse
<1>8. SentAtPc'
  BY DEF RecvData, Reading, ServerInv, SentAtPc, BeforeResponse, InResponse
<1> QED BY <1>4, <1>5, <1>6, <1>7, <1>8 DEF ServerInv

LEMMA ProcessRemainingInv ==
  ASSUME ServerInv, LoopInv', ProcessRemaining
  PROVE  ServerInv'
<1>1. TypeOK' /\ ConnectionAtPc'
  BY DEF ProcessRemaining, ServerInv, TypeOK, LoopInv, ConnectionAtPc, BetweenRequests
<1>2. MapsOwned' /\ DescriptorsClosed'
  BY DEF ProcessRemaining, ServerInv, MapsOwned, DescriptorsClosed, LoopInv, MapOwned
<1>3. RequestAtPc' /\ ResponseAtPc'
  BY DEF ProcessRemaining, ServerInv, RequestAtPc, ResponseAtPc,
         BetweenRequests, BeforeResponse, InResponse
<1>4. SentAtPc'
  BY DEF ProcessRemaining, ServerInv, SentAtPc, BeforeResponse, InResponse
<1> QED BY <1>1, <1>2, <1>3, <1>4 DEF ServerInv

(* A process that is killed is not Running, whatever pc says.              *)
LEMMA KilledInv ==
  ASSUME ServerInv, LoopInv', Killed, pc # "over",
         UNCHANGED <<pc, mainVars, responseVars, clientVars, channelVars>>
  PROVE  ServerInv'
<1>1. outcome' # "ok"
  BY DEF Killed, Dies
<1>2. TypeOK'
  BY DEF ServerInv, TypeOK, LoopInv
<1>3. DescriptorsClosed' /\ ConnectionAtPc'
  BY DEF ServerInv, DescriptorsClosed, ConnectionAtPc, BetweenRequests
<1>4. MapsOwned' /\ RequestAtPc' /\ ResponseAtPc' /\ SentAtPc'
  BY <1>1 DEF MapsOwned, RequestAtPc, ResponseAtPc, SentAtPc
<1> QED BY <1>2, <1>3, <1>4 DEF ServerInv

LEMMA SigintInv ==
  ASSUME ServerInv, LoopInv', Sigint
  PROVE  ServerInv'
<1>1. CASE pc = "boot"
  BY <1>1, KilledInv DEF Sigint
<1>2. CASE pc # "boot"
  <2>1. TypeOK'
    BY <1>2 DEF Sigint, ServerInv, TypeOK, Pcs, LoopInv
  <2>2. MapsOwned'
    BY <1>2 DEF Sigint, ServerInv, MapsOwned
  <2>3. DescriptorsClosed' /\ ConnectionAtPc'
    BY <1>2 DEF Sigint, ServerInv, DescriptorsClosed, ConnectionAtPc, BetweenRequests
  <2>4. RequestAtPc' /\ ResponseAtPc'
    BY <1>2 DEF Sigint, ServerInv, RequestAtPc, ResponseAtPc,
                BetweenRequests, BeforeResponse, InResponse
  <2>5. SentAtPc'
    BY <1>2 DEF Sigint, ServerInv, SentAtPc, BeforeResponse, InResponse
  <2> QED BY <2>1, <2>2, <2>3, <2>4, <2>5 DEF ServerInv
<1> QED BY <1>1, <1>2

----------------------------------------------------------------------------

(* A response begins, with a map of its own and nothing sent.              *)
LEMMA GenerateResponseInv ==
  ASSUME ServerInv, LoopInv', GenerateResponse
  PROVE  ServerInv'
<1>1. respMaps = 0 /\ copied = 0 /\ accepted = 0
  BY DEF GenerateResponse, ServerInv, MapsOwned, ResponseAtPc, SentAtPc, BeforeResponse
<1>2. TypeOK'
  BY <1>1 DEF GenerateResponse, ServerInv, TypeOK, Pcs, LoopInv
<1>3. MapsOwned'
  BY <1>1 DEF GenerateResponse, ServerInv, MapsOwned
<1>4. DescriptorsClosed' /\ ConnectionAtPc'
  BY DEF GenerateResponse, ServerInv, DescriptorsClosed, ConnectionAtPc, BetweenRequests
<1>5. RequestAtPc' /\ ResponseAtPc'
  <2>1. isRequestLineSet /\ areHeadersSet /\ parts' >= 2
    BY DEF GenerateResponse, ServerInv, RequestAtPc
  <2> QED BY <2>1 DEF GenerateResponse, ServerInv, RequestAtPc, ResponseAtPc,
                      BetweenRequests, BeforeResponse, InResponse
<1>6. SentAtPc'
  <2>1. part' \in 1 .. parts' /\ (part' - 1) * PartLen + total' + copied' = 0
    BY <1>1 DEF GenerateResponse
  <2> QED BY <1>1, <2>1 DEF GenerateResponse, SentAtPc, Before, BeforeResponse, InResponse
<1> QED BY <1>2, <1>3, <1>4, <1>5, <1>6 DEF ServerInv

(* The steps of sendResponse change its counts and nothing that is owned.  *)
LEMMA SendingInv ==
  ASSUME ServerInv, LoopInv', TypeOK', SentAtPc',
         SendLoop \/ CopyByte \/ SendReturns \/ SendFails
  PROVE  ServerInv'
<1> USE DEF SendLoop, CopyByte, SendReturns, SendFails
<1>1. MapsOwned' /\ DescriptorsClosed' /\ ConnectionAtPc'
  BY DEF ServerInv, MapsOwned, DescriptorsClosed, ConnectionAtPc, BetweenRequests
<1>2. RequestAtPc' /\ ResponseAtPc'
  BY DEF ServerInv, RequestAtPc, ResponseAtPc, BetweenRequests, BeforeResponse, InResponse
<1> QED BY <1>1, <1>2 DEF ServerInv

(* What is known of the counts during a response.                          *)
LEMMA Counts ==
  ASSUME ServerInv, Running, InResponse
  PROVE  /\ parts \in 2 .. 2 + MaxChunks
         /\ IF pc = "sent" THEN part = parts + 1 ELSE part \in 1 .. parts
         /\ total \in 0 .. PartLen /\ copied \in 0 .. PartLen /\ total + copied <= PartLen
         /\ accepted \in Nat /\ accepted <= Before(part) + total + copied
  BY DEF ServerInv, TypeOK, ResponseAtPc, SentAtPc, InResponse

(* The head of the loop: the part is complete, or SIGINT ends it.          *)
LEMMA SendLoopInv ==
  ASSUME ServerInv, LoopInv', SendLoop
  PROVE  ServerInv'
<1>1. /\ parts \in 2 .. 2 + MaxChunks /\ part \in 1 .. parts
      /\ total \in 0 .. PartLen /\ copied = 0
      /\ accepted \in Nat /\ accepted <= Before(part) + total
      /\ keepRunning /\ peer[clientfd] # "gone" => accepted = Before(part) + total
  <2>1. pc = "send" /\ Running
    BY DEF SendLoop
  <2>2. /\ copied = 0
        /\ keepRunning /\ peer[clientfd] # "gone" => accepted = Before(part) + total + copied
    BY <2>1 DEF ServerInv, SentAtPc, InResponse
  <2>3. Before(part) + total + 0 = Before(part) + total
    BY <2>1, Counts DEF Before, InResponse
  <2> QED BY <2>1, <2>2, <2>3, Counts DEF InResponse
<1>2. CASE pc' = "call"
  <2>1. TypeOK'
    BY <1>2 DEF SendLoop, ServerInv, TypeOK, Pcs, LoopInv
  <2>2. /\ keepRunning /\ total < PartLen
        /\ UNCHANGED <<part, parts, total, copied, accepted, peer, clientfd>>
    BY <1>2 DEF SendLoop
  <2>3. SentAtPc'
    BY <1>1, <1>2, <2>2 DEF SentAtPc, Before, BeforeResponse, InResponse
  <2> QED BY <2>1, <2>3, SendingInv
<1>3. CASE pc' # "call"
  <2>1. /\ pc' = IF part < parts THEN "send" ELSE "sent"
        /\ part' = part + 1 /\ total' = 0
        /\ keepRunning => total = PartLen
    BY <1>1, <1>3 DEF SendLoop
  <2>2. TypeOK'
    BY <1>1, <2>1 DEF SendLoop, ServerInv, TypeOK, Pcs, LoopInv
  <2>3. SentAtPc'
    BY <1>1, <2>1 DEF SendLoop, SentAtPc, Before, BeforeResponse, InResponse
  <2> QED BY <2>2, <2>3, SendingInv
<1> QED BY <1>2, <1>3

(* One byte: one more is copied, and one more accepted.                    *)
LEMMA CopyByteInv ==
  ASSUME ServerInv, LoopInv', CopyByte
  PROVE  ServerInv'
<1>1. total + copied < PartLen /\ total \in Nat /\ copied \in Nat /\ accepted \in Nat
  BY DEF CopyByte, ServerInv, TypeOK
<1>2. TypeOK'
  <2>1. unread' \in 0 .. SockBuf /\ copied' \in 0 .. PartLen /\ accepted' \in Nat
    BY <1>1 DEF CopyByte, ServerInv, TypeOK
  <2> QED BY <2>1 DEF CopyByte, ServerInv, TypeOK, LoopInv
<1>3. SentAtPc'
  BY <1>1, Counts DEF CopyByte, ServerInv, SentAtPc, Before, BeforeResponse, InResponse
<1> QED BY <1>2, <1>3, SendingInv

LEMMA SendReturnsInv ==
  ASSUME ServerInv, LoopInv', SendReturns
  PROVE  ServerInv'
<1>1. TypeOK'
  BY Counts DEF SendReturns, ServerInv, TypeOK, Pcs, LoopInv, InResponse
<1>2. SentAtPc'
  BY Counts DEF SendReturns, ServerInv, SentAtPc, Before, BeforeResponse, InResponse
<1> QED BY <1>1, <1>2, SendingInv

(* A part is given up only for a client that is gone, or after SIGINT, and *)
(* then nothing is sent any more.                                          *)
LEMMA SendFailsInv ==
  ASSUME ServerInv, LoopInv', SendFails
  PROVE  ServerInv'
<1>1. TypeOK'
  BY Counts DEF SendFails, ServerInv, TypeOK, Pcs, LoopInv, InResponse
<1>2. SentAtPc'
  <2>1. /\ part \in 1 .. parts /\ parts \in Nat /\ copied = 0
        /\ accepted \in Nat /\ accepted <= Before(part) + PartLen
    BY Counts DEF SendFails, Before, InResponse
  <2>2. keepRunning => peer[clientfd] = "gone"
    BY DEF SendFails, ServerInv, ConnectionAtPc
  <2> QED BY <2>1, <2>2 DEF SendFails, SentAtPc, Before, BeforeResponse, InResponse
<1> QED BY <1>1, <1>2, SendingInv

----------------------------------------------------------------------------

(* The three resets and close().                                           *)
LEMMA AnswerInv ==
  ASSUME ServerInv, LoopInv', Answer
  PROVE  ServerInv'
<1>1. respMaps' = 0 /\ headers' = "null" /\ openfds' = {}
  BY DEF Answer, ResetRequest, ResetResponse, ServerInv, MapsOwned, DescriptorsClosed
<1>2. TypeOK'
  BY <1>1 DEF Answer, ResetResponse, ServerInv, TypeOK, Pcs, LoopInv
<1>3. MapsOwned'
  BY <1>1 DEF Answer, ResetResponse, MapsOwned, LoopInv, MapOwned
<1>4. DescriptorsClosed' /\ ConnectionAtPc'
  BY <1>1 DEF Answer, ServerInv, DescriptorsClosed, ConnectionAtPc, BetweenRequests
<1>5. RequestAtPc' /\ ResponseAtPc'
  BY DEF Answer, ResetRequest, ResetResponse, ServerInv, RequestAtPc, ResponseAtPc,
         BetweenRequests, BeforeResponse, InResponse
<1>6. SentAtPc'
  BY DEF Answer, ResetResponse, ServerInv, TypeOK, SentAtPc, BeforeResponse, InResponse
<1> QED BY <1>2, <1>3, <1>4, <1>5, <1>6 DEF ServerInv

(* The end: both maps are freed, both descriptors closed.                  *)
LEMMA CleanupInv ==
  ASSUME ServerInv, LoopInv', Cleanup
  PROVE  ServerInv'
<1>1. outcome' # "ok" /\ headers' = "null"
  BY DEF Cleanup, FreeRequest
<1>2. respMaps' = 0
  BY DEF Cleanup, ServerInv, MapsOwned
<1>3. pc' = "wild" \/ (pc' = "over" /\ openfds' = {} /\ ~listening')
  BY DEF Cleanup, ServerInv, DescriptorsClosed
<1>4. openfds' \subseteq openfds /\ listening' \in BOOLEAN
  BY DEF Cleanup, ServerInv, TypeOK
<1>5. TypeOK'
  <2>1. openfds' \subseteq Clients /\ pc' \in Pcs /\ respMaps' \in Nat
    BY <1>2, <1>3, <1>4 DEF ServerInv, TypeOK, Pcs
  <2>2. UNCHANGED <<keepRunning, status, clientfd, backlog, respHeaders, parts, part,
                    total, copied, clientVars, channelVars>>
    BY DEF Cleanup
  <2> QED BY <1>4, <2>1, <2>2 DEF ServerInv, TypeOK, LoopInv
<1>6. MapsOwned' /\ RequestAtPc' /\ ResponseAtPc' /\ SentAtPc'
  BY <1>1, <1>2 DEF MapsOwned, RequestAtPc, ResponseAtPc, SentAtPc, LoopInv, MapOwned
<1>7. DescriptorsClosed' /\ ConnectionAtPc'
  BY <1>3, <1>4 DEF Cleanup, ServerInv, DescriptorsClosed, ConnectionAtPc, BetweenRequests
<1> QED BY <1>5, <1>6, <1>7 DEF ServerInv

(* What clients do reaches main() through peer, inbox and unread only.     *)
LEMMA ClientStepsInv ==
  ASSUME ServerInv, LoopInv',
         ClientRead \/ \E c \in Clients : Client(c)
  PROVE  ServerInv'
<1>1. /\ UNCHANGED <<loopVars, pc, keepRunning, clientfd, listening, openfds, responseVars, accepted>>
      /\ \A c \in Clients : peer[c] = "gone" => peer'[c] = "gone"
  <2>1. CASE ClientRead
    BY <2>1 DEF ClientRead
  <2>2. ASSUME NEW c \in Clients, Client(c)
        PROVE  <1>1
    BY <2>2 DEF Client, Connect, ClientSend, ClientShut, ClientGone, ServerInv, TypeOK
  <2> QED BY <2>1, <2>2
<1>2. TypeOK' /\ \A c \in Clients : inbox'[c] + budget'[c] <= MaxBytes
  <2>1. CASE ClientRead
    BY <2>1 DEF ClientRead, ServerInv, TypeOK, LoopInv, ConnectionAtPc
  <2>2. ASSUME NEW c \in Clients, Connect(c)
        PROVE  <1>2
    <3>1. Append(backlog, c) \in Seq(Clients)
      BY DEF ServerInv, TypeOK
    <3> QED BY <2>2, <3>1 DEF Connect, ServerInv, TypeOK, LoopInv, ConnectionAtPc
  <2>3. ASSUME NEW c \in Clients, ClientSend(c)
        PROVE  <1>2
    <3>1. PICK k \in 1 .. budget[c] :
            /\ budget' = [budget EXCEPT ![c] = @ - k]
            /\ inbox' = [inbox EXCEPT ![c] = @ + k]
      BY <2>3 DEF ClientSend
    <3>2. /\ budget[c] \in 0 .. MaxBytes /\ inbox[c] \in 0 .. MaxBytes
          /\ inbox[c] + budget[c] <= MaxBytes
      BY DEF ServerInv, TypeOK, ConnectionAtPc
    <3>3. budget[c] - k \in 0 .. MaxBytes /\ inbox[c] + k \in 0 .. MaxBytes
      BY <3>2
    <3>4. budget' \in [Clients -> 0 .. MaxBytes] /\ inbox' \in [Clients -> 0 .. MaxBytes]
      BY <3>1, <3>3 DEF ServerInv, TypeOK
    <3>5. ASSUME NEW d \in Clients PROVE inbox'[d] + budget'[d] <= MaxBytes
      BY <3>1, <3>2 DEF ServerInv, TypeOK, ConnectionAtPc
    <3> QED BY <2>3, <3>4, <3>5 DEF ClientSend, ServerInv, TypeOK, LoopInv
  <2>4. ASSUME NEW c \in Clients, ClientShut(c) \/ ClientGone(c)
        PROVE  <1>2
    BY <2>4 DEF ClientShut, ClientGone, ServerInv, TypeOK, LoopInv, ConnectionAtPc
  <2> QED BY <2>1, <2>2, <2>3, <2>4 DEF Client
<1>3. ConnectionAtPc'
  BY <1>1, <1>2 DEF ServerInv, ConnectionAtPc, BetweenRequests
<1>4. MapsOwned' /\ DescriptorsClosed'
  BY <1>1 DEF ServerInv, MapsOwned, DescriptorsClosed
<1>5. RequestAtPc' /\ ResponseAtPc'
  BY <1>1 DEF ServerInv, RequestAtPc, ResponseAtPc, BetweenRequests, BeforeResponse, InResponse
<1>6. SentAtPc'
  <2>1. InResponse /\ Running => clientfd \in Clients
    BY DEF ServerInv, TypeOK, DescriptorsClosed, InResponse
  <2> QED BY <1>1, <2>1 DEF ServerInv, SentAtPc, BeforeResponse, InResponse
<1> QED BY <1>2, <1>3, <1>4, <1>5, <1>6 DEF ServerInv

(* Every step of the whole system preserves the invariant.                 *)
LEMMA ServerNextInv == ServerInv /\ [Next]_serverVars => ServerInv'
<1> SUFFICES ASSUME ServerInv, [Next]_serverVars PROVE ServerInv'
  OBVIOUS
<1>1. LoopInv'
  BY LoopInvCarries
<1>2. CASE \/ Boot \/ BootFails \/ AcceptNothing \/ AcceptFails \/ StopReading
           \/ RecvNothing \/ RecvClosed \/ RecvFails \/ Received
           \/ EnterSend \/ StopSending \/ ServeAgain
  BY <1>1, <1>2, PlainStepsInv
<1>3. CASE Accept \/ RecvData \/ ProcessRemaining
  BY <1>1, <1>3, AcceptInv, RecvDataInv, ProcessRemainingInv
<1>4. CASE GenerateResponse \/ SendLoop \/ CopyByte \/ SendReturns \/ SendFails
  BY <1>1, <1>4, GenerateResponseInv, SendLoopInv, CopyByteInv, SendReturnsInv, SendFailsInv
<1>5. CASE Answer \/ Cleanup
  BY <1>1, <1>5, AnswerInv, CleanupInv
<1>6. CASE GenerateCrashes \/ SendKills
  BY <1>1, <1>6, KilledInv DEF GenerateCrashes, SendKills
<1>7. CASE Sigint
  BY <1>1, <1>7, SigintInv
<1>8. CASE ClientRead \/ \E c \in Clients : Client(c)
  BY <1>1, <1>8, ClientStepsInv
<1>9. CASE UNCHANGED serverVars
  BY <1>1, <1>9 DEF ServerInv, TypeOK, LoopInv, MapsOwned, DescriptorsClosed, RequestAtPc, ResponseAtPc,
                    ConnectionAtPc, SentAtPc, BetweenRequests, BeforeResponse, InResponse
<1> QED BY <1>2, <1>3, <1>4, <1>5, <1>6, <1>7, <1>8, <1>9 DEF Next, Work, Fails, Ended

----------------------------------------------------------------------------

(* The inductive invariant of main() with all that moves around it.        *)
THEOREM ServerInvariant == Spec => []ServerInv
  BY InitServerInv, ServerNextInv, PTL DEF Spec

(* Every variable keeps its type: in particular the accounts of bytes of   *)
(* each client, and of the send() in progress, never leave their bounds.   *)
THEOREM ServerTypeCorrect == Spec => []TypeOK
<1>1. ServerInv => TypeOK
  BY DEF ServerInv
<1> QED BY <1>1, ServerInvariant, PTL

(* No client that is there is sent a byte of a response without all the    *)
(* earlier ones (response.c:92-107, server.c:203-205).                     *)
THEOREM ServerNoHoles == Spec => []NoHoles
<1>1. ServerInv => NoHoles
  BY DEF ServerInv, SentAtPc, NoHoles, InResponse, Before
<1> QED BY <1>1, ServerInvariant, PTL

(* When all parts are counted as sent, all of them were accepted.          *)
LEMMA InvAnswersInFull == ServerInv => AnsweredInFull
<1> SUFFICES ASSUME ServerInv, pc = "sent", Running, keepRunning, peer[clientfd] # "gone"
             PROVE  accepted = parts * PartLen
  BY DEF AnsweredInFull
<1>1. /\ part = parts + 1 /\ parts \in Nat /\ total = 0 /\ copied = 0
      /\ accepted = Before(part) + total + copied
  BY DEF ServerInv, TypeOK, SentAtPc, InResponse
<1> QED BY <1>1 DEF Before

(* A response main() counts as sent was taken to its last byte, unless its *)
(* client is gone (server.c:206-210).                                      *)
THEOREM ServerAnswersInFull == Spec => []AnsweredInFull
  BY InvAnswersInFull, ServerInvariant, PTL

(* A new connection finds nothing of the one before it (server.c:212-223). *)
THEOREM ServerFreshAtAccept == Spec => []FreshAtAccept
<1>1. ServerInv => FreshAtAccept
  BY DEF ServerInv, RequestAtPc, ResponseAtPc, ConnectionAtPc, FreshAtAccept, BetweenRequests
<1> QED BY <1>1, ServerInvariant, PTL

(* Both header maps are owned by their pointers on every path, and freed   *)
(* when main() returns.                                                    *)
THEOREM ServerMapsOwned == Spec => []MapsOwned
<1>1. ServerInv => MapsOwned
  BY DEF ServerInv
<1> QED BY <1>1, ServerInvariant, PTL

(* At most one connection is open, the one recv() and send() are called    *)
(* on, and none when main() returns.                                       *)
THEOREM ServerDescriptorsClosed == Spec => []DescriptorsClosed
<1>1. ServerInv => DescriptorsClosed
  BY DEF ServerInv
<1> QED BY <1>1, ServerInvariant, PTL

(* Composed with its clients and SIGINT, main() takes only the steps of    *)
(* ReceiveLoop ...                                                         *)
THEOREM ServerDrivesReceiveLoop == Spec => DrivesReceiveLoop
<1>1. Init => LoopInit
  BY DEF Init
<1> QED BY <1>1, DrivesLoop, ServerInvariant, PTL DEF Spec, DrivesReceiveLoop

(* ... so that it is memory safe and keeps the phases of a request in      *)
(* order, and its inner loop works on ever less text.                      *)
THEOREM ServerMemorySafe == Spec => [](MemorySafe /\ PhasesInOrder) /\ InnerLoopShrinks
<1>1. ServerInv => MemorySafe /\ PhasesInOrder /\ LoopInv
  BY DEF ServerInv, LoopInv
<1>2. ServerInv /\ [Next]_serverVars
        => [continueProcessing /\ outcome' = "ok" => remainingBuf' < remainingBuf]_loopVars
  BY DrivesLoop, LoopStepShrinks DEF ServerInv
<1> QED BY <1>1, <1>2, ServerInvariant, PTL DEF Spec, InnerLoopShrinks

----------------------------------------------------------------------------

(* Steps the clients cannot tell from none: nothing that the refinement    *)
(* mapping shows moves.                                                    *)
LEMMA SameService ==
  ASSUME ServerInv, Running, Running', openfds' = openfds,
         openfds # {} => clientfd' = clientfd /\ accepted' = accepted /\ parts' = parts,
         UNCHANGED <<peer, backlog>>
  PROVE  UNCHANGED Service!serviceVars
<1>1. InTurn' = InTurn /\ (InTurn => clientfd' = clientfd /\ accepted' = accepted /\ parts' = parts)
  BY DEF InTurn, ServerInv, DescriptorsClosed
<1> QED BY <1>1 DEF Service!serviceVars

(* The process is over: in the middle of a call, killed, or after cleanup. *)
LEMMA StopsService ==
  ASSUME Running, ~Running', UNCHANGED <<peer, backlog>>
  PROVE  Service!Next
<1>1. ~InTurn' /\ ~Over /\ Over'
  BY DEF InTurn
<1> QED BY <1>1 DEF Service!Next, Service!Stop, Service!EndOfTurn

LEMMA InitService == Init => Service!Init
<1> SUFFICES ASSUME Init PROVE Service!Init
  OBVIOUS
<1>1. ~InTurn /\ ~Over
  BY DEF Init, LoopInit, InTurn
<1> QED BY <1>1 DEF Init, Service!Init

(* accept() is the turn of the first who waits, for whom nothing is done   *)
(* yet.                                                                    *)
LEMMA AcceptServes ==
  ASSUME ServerInv, Accept
  PROVE  Service!Next
<1>1. ~InTurn /\ ~Over
  BY DEF Accept, InTurn, ServerInv, ConnectionAtPc, BetweenRequests
<1>2. parts = 0
  BY DEF Accept, ServerInv, ResponseAtPc, BetweenRequests
<1>3. /\ InTurn' /\ ~Over'
      /\ clientfd' = Head(backlog) /\ backlog' = Tail(backlog) /\ backlog # <<>>
      /\ accepted' = 0 /\ parts' = 0 /\ peer' = peer
  BY <1>2 DEF Accept, InTurn
<1> QED BY <1>1, <1>3 DEF Service!Next, Service!Serve

LEMMA SomeBytes ==
  ASSUME NEW k \in Nat, k >= 2
  PROVE  k * PartLen \in Nat \ {0}
  OBVIOUS

(* A response is generated: its length is that of all its parts.           *)
LEMMA GeneratePrepares ==
  ASSUME ServerInv, GenerateResponse
  PROVE  Service!Next
<1>1. InTurn /\ ~Over /\ clientfd # NoFd /\ parts = 0
  BY DEF GenerateResponse, InTurn, ServerInv, TypeOK, DescriptorsClosed, ResponseAtPc, BeforeResponse
<1>2. InTurn' /\ ~Over' /\ UNCHANGED <<clientfd, accepted, peer, backlog>>
  BY DEF GenerateResponse, InTurn, ServerInv, DescriptorsClosed
<1>3. parts' * PartLen \in Nat \ {0}
  <2>1. parts' \in Nat /\ parts' >= 2
    BY DEF GenerateResponse
  <2> QED BY <2>1, SomeBytes
<1>4. parts * PartLen = 0
  BY <1>1
<1> QED BY <1>1, <1>2, <1>3, <1>4 DEF Service!Next, Service!Prepare

(* A byte is copied: there was one more to give.                           *)
LEMMA CopyGives ==
  ASSUME ServerInv, CopyByte
  PROVE  Service!Next
<1>1. InTurn /\ ~Over
  BY DEF CopyByte, InTurn, ServerInv, DescriptorsClosed
<1>2. InTurn' /\ ~Over' /\ UNCHANGED <<clientfd, parts, peer, backlog>> /\ accepted' = accepted + 1
  BY <1>1 DEF CopyByte, InTurn
<1>3. accepted < parts * PartLen
  <2>1. /\ part \in 1 .. parts /\ parts \in Nat /\ total + copied < PartLen
        /\ total \in Nat /\ copied \in Nat
        /\ accepted \in Nat /\ accepted <= Before(part) + total + copied
    BY Counts DEF CopyByte, InResponse
  <2>2. Before(part) + PartLen <= parts * PartLen
    <3>1. part * PartLen <= parts * PartLen
      BY <2>1
    <3> QED BY <2>1, <3>1 DEF Before
  <2>3. Before(part) \in Int
    BY <2>1 DEF Before
  <2>4. parts * PartLen \in Int
    BY <2>1
  <2> HIDE DEF Before
  <2> QED BY <2>1, <2>2, <2>3, <2>4
<1> QED BY <1>1, <1>2, <1>3 DEF Service!Next, Service!Give

(* The connection is closed: its client has all of the response, or left.  *)
LEMMA AnswerFinishes ==
  ASSUME ServerInv, Answer
  PROVE  Service!Next
<1>1. InTurn /\ ~Over /\ clientfd \in Clients
  BY DEF Answer, InTurn, ServerInv, TypeOK, DescriptorsClosed
<1>2. parts * PartLen \in Nat \ {0}
  <2>1. parts \in Nat /\ parts >= 2
    BY DEF Answer, ServerInv, TypeOK, ResponseAtPc, InResponse
  <2> QED BY <2>1, SomeBytes
<1>3. accepted = parts * PartLen \/ peer[clientfd] = "gone"
  BY InvAnswersInFull DEF Answer, AnsweredInFull
<1>4. openfds' = {} /\ ~Over'
  BY DEF Answer, ResetRequest, ServerInv, DescriptorsClosed
<1>5. ~InTurn'
  BY <1>4 DEF InTurn
<1>6. UNCHANGED <<peer, backlog>>
  BY DEF Answer
<1> QED BY <1>1, <1>2, <1>3, <1>4, <1>5, <1>6 DEF Service!Next, Service!Finish, Service!EndOfTurn

(* A client comes, goes, or only talks.                                    *)
LEMMA ClientStepServes ==
  ASSUME ServerInv, NEW c \in Clients, Client(c)
  PROVE  Service!Next \/ UNCHANGED Service!serviceVars
<1>1. /\ UNCHANGED <<clientfd, openfds, accepted, parts, outcome, pc>>
      /\ InTurn' = InTurn /\ Over' = Over /\ ~Over
  BY DEF Client, Connect, ClientSend, ClientShut, ClientGone, InTurn
<1>2. CASE Connect(c)
  <2>1. {d \in Clients : peer'[d] # "idle"} = {d \in Clients : peer[d] # "idle"} \cup {c}
    BY <1>2 DEF Connect, ServerInv, TypeOK
  <2>2. {d \in Clients : peer'[d] = "gone"} = {d \in Clients : peer[d] = "gone"}
    BY <1>2 DEF Connect, ServerInv, TypeOK
  <2>3. c \notin {d \in Clients : peer[d] # "idle"} /\ backlog' = Append(backlog, c)
    BY <1>2 DEF Connect
  <2> QED BY <1>1, <2>1, <2>2, <2>3 DEF Service!Next, Service!Come
<1>3. CASE ClientSend(c)
  BY <1>1, <1>3 DEF ClientSend, Service!serviceVars
<1>4. CASE ClientShut(c)
  <2>1. /\ {d \in Clients : peer'[d] # "idle"} = {d \in Clients : peer[d] # "idle"}
        /\ {d \in Clients : peer'[d] = "gone"} = {d \in Clients : peer[d] = "gone"}
    BY <1>4 DEF ClientShut, ServerInv, TypeOK
  <2> QED BY <1>1, <1>4, <2>1 DEF ClientShut, Service!serviceVars
<1>5. CASE ClientGone(c)
  <2>1. {d \in Clients : peer'[d] # "idle"} = {d \in Clients : peer[d] # "idle"}
    BY <1>5 DEF ClientGone, ServerInv, TypeOK
  <2>2. {d \in Clients : peer'[d] = "gone"} = {d \in Clients : peer[d] = "gone"} \cup {c}
    BY <1>5 DEF ClientGone, ServerInv, TypeOK
  <2>3. /\ c \in {d \in Clients : peer[d] # "idle"} \ {d \in Clients : peer[d] = "gone"}
        /\ backlog' = backlog
    BY <1>5 DEF ClientGone
  <2> QED BY <1>1, <2>1, <2>2, <2>3 DEF Service!Next, Service!Leave
<1> QED BY <1>2, <1>3, <1>4, <1>5 DEF Client

(* Each step of main(), its clients and SIGINT is one of the service, or   *)
(* none.                                                                   *)
LEMMA ServesInTurn ==
  ServerInv /\ [Next]_serverVars => [Service!Next]_(Service!serviceVars)
<1> SUFFICES ASSUME ServerInv, [Next]_serverVars
             PROVE  Service!Next \/ UNCHANGED Service!serviceVars
  OBVIOUS
<1>1. CASE Accept \/ GenerateResponse \/ CopyByte \/ Answer
  BY <1>1, AcceptServes, GeneratePrepares, CopyGives, AnswerFinishes
<1>2. CASE \E c \in Clients : Client(c)
  BY <1>2, ClientStepServes
<1>3. CASE RecvData \/ ProcessRemaining
  <2>1. Running /\ UNCHANGED <<openfds, clientfd, accepted, parts, peer, backlog>>
    BY <1>3 DEF RecvData, ProcessRemaining, Reading
  <2> QED BY <2>1, SameService, StopsService
<1>4. CASE Cleanup \/ GenerateCrashes \/ SendKills \/ (Sigint /\ pc = "boot")
  <2>1. Running /\ ~Running' /\ UNCHANGED <<peer, backlog>>
    BY <1>4 DEF Cleanup, FreeRequest, GenerateCrashes, SendKills, Sigint, Killed, Dies
  <2> QED BY <2>1, StopsService
<1>5. CASE \/ Boot \/ BootFails \/ AcceptNothing \/ AcceptFails \/ StopReading
           \/ RecvNothing \/ RecvClosed \/ RecvFails \/ Received
           \/ EnterSend \/ StopSending \/ ServeAgain
           \/ SendLoop \/ SendReturns \/ SendFails \/ ClientRead \/ (Sigint /\ pc # "boot")
  <2>1. /\ Running /\ Running' /\ openfds' = openfds /\ UNCHANGED <<peer, backlog>>
        /\ openfds # {} => clientfd' = clientfd /\ accepted' = accepted /\ parts' = parts
    BY <1>5 DEF Boot, BootFails, AcceptNothing, AcceptFails, StopReading, RecvNothing, RecvClosed,
        RecvFails, Received, EnterSend, StopSending, ServeAgain, SendLoop, SendReturns, SendFails,
        ClientRead, Sigint, Reading, ServerInv, ConnectionAtPc, BetweenRequests
  <2> QED BY <2>1, SameService
<1>6. CASE UNCHANGED serverVars
  BY <1>6 DEF Service!serviceVars, InTurn
<1> QED BY <1>1, <1>2, <1>3, <1>4, <1>5, <1>6 DEF Next, Work, Fails, Ended

(* Clients are served one at a time, in the order they came, each to the   *)
(* end of its response unless it is gone or the server ends                *)
(* (server.c:120-224).                                                     *)
THEOREM ServerImplementsService == Spec => ImplementsService
  BY InitService, ServesInTurn, ServerInvariant, PTL DEF Spec, ImplementsService, Service!Spec

=============================================================================
