------------------------- MODULE SequentialService -------------------------
(***************************************************************************)
(* What the server promises its clients: they are served one at a time, in *)
(* the order they came, and a client that stays gets the whole of one      *)
(* response before the next one has its turn.  Only the end of the service *)
(* may leave a client without.                                             *)
(***************************************************************************)
EXTENDS Integers, Sequences

CONSTANTS
  Clients,
  None            (* not one of them                                     *)

VARIABLES
  came, left,     (* the clients that have connected, and have gone      *)
  waiting,        (* those whose turn has not come, first come first     *)
  serving,        (* the one whose turn it is, or None                   *)
  given, length,  (* the bytes given of its response, 0 before there is  *)
                  (* one, and how many there are                         *)
  stopped         (* the service has ended                               *)

serviceVars == <<came, left, waiting, serving, given, length, stopped>>

Init ==
  /\ came = {} /\ left = {}
  /\ waiting = <<>>
  /\ serving = None
  /\ given = 0 /\ length = 0
  /\ stopped = FALSE

Come(c) ==
  /\ c \notin came
  /\ came' = came \cup {c}
  /\ waiting' = Append(waiting, c)
  /\ UNCHANGED <<left, serving, given, length, stopped>>

Leave(c) ==
  /\ c \in came \ left
  /\ left' = left \cup {c}
  /\ UNCHANGED <<came, waiting, serving, given, length, stopped>>

Serve ==
  /\ serving = None /\ waiting # <<>>
  /\ serving' = Head(waiting)
  /\ waiting' = Tail(waiting)
  /\ UNCHANGED <<came, left, given, length, stopped>>

Prepare ==
  /\ serving # None /\ length = 0
  /\ length' \in Nat \ {0}
  /\ UNCHANGED <<came, left, waiting, serving, given, stopped>>

Give ==
  /\ given < length
  /\ given' = given + 1
  /\ UNCHANGED <<came, left, waiting, serving, length, stopped>>

EndOfTurn ==
  /\ serving' = None /\ given' = 0 /\ length' = 0
  /\ UNCHANGED <<came, left, waiting>>

(* The next client has its turn when this one has everything, or is gone.  *)
Finish ==
  /\ serving # None /\ length > 0
  /\ given = length \/ serving \in left
  /\ EndOfTurn
  /\ UNCHANGED stopped

Stop == stopped' = TRUE /\ EndOfTurn

Next ==
  /\ ~stopped
  /\ \/ \E c \in Clients : Come(c) \/ Leave(c)
     \/ Serve \/ Prepare \/ Give \/ Finish \/ Stop

Spec == Init /\ [][Next]_serviceVars

=============================================================================
