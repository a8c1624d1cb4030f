--------------------------- MODULE DropOldestFifo ---------------------------
(***************************************************************************)
(* What a queue with replacement promises: the FIFO of BoundedFifo, except *)
(* that a send takes the oldest message out to make room for its own.  It  *)
(* drops at most one message for the one it stores, and stores what it     *)
(* made room for.                                                          *)
(***************************************************************************)
EXTENDS BoundedFifo

VARIABLES
  making,     \* the sends that have dropped and have yet to store
  alone       \* the call that has overlapped no other since it began, if any

dropVars == <<vars, making, alone>>

DropInit == Init /\ making = {} /\ alone = {}

BeginsAlone(t) == \A u \in Threads \ {t} : op[u] = "none"

(* From a full queue only, if the call overlaps no other.  One that does   *)
(* decides on what it saw earlier: the queue need not be full by now.      *)
Drop(t) ==
  /\ Running(t) /\ op[t] \in SendOps /\ t \notin making
  /\ ~Empty /\ (Full \/ t \notin alone)
  /\ queue' = Tail(queue)
  /\ making' = making \cup {t}
  /\ UNCHANGED <<closed, op, msg, outcome, alone>>

DropStep(t) ==
  \/ Drop(t)
  \/ Put(t) /\ making' = making \ {t} /\ UNCHANGED alone
  \/ Refuse(t) /\ t \notin making /\ UNCHANGED <<making, alone>>
  \/ (Take(t) \/ Close(t)) /\ UNCHANGED <<making, alone>>
  \/ /\ Invoke(t) /\ UNCHANGED making
     /\ alone' = IF BeginsAlone(t) THEN {t} ELSE {}
  \/ Return(t) /\ alone' = alone \ {t} /\ UNCHANGED making

DropNext == \E t \in Threads : DropStep(t)

DropSpec == DropInit /\ [][DropNext]_dropVars
=============================================================================
