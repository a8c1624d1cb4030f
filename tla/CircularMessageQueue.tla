------------------------ MODULE CircularMessageQueue ------------------------
(***************************************************************************)
(* lib/circular/circular_message_queue.hpp, the part the circular queues   *)
(* share: a ring of Capacity slots, a head, a tail, and a counter of its   *)
(* own that is updated outside every guard.  A guard is kept in a          *)
(* thread_local map between prework and store or pop; here it is what the  *)
(* thread still has to do and the slot it works on.                        *)
(***************************************************************************)
EXTENDS CircularQueueSync

CONSTANTS
  CountModulus,       \* the width of count_ (2^64 in the code)
  CasMayFail          \* may compare_exchange_weak fail spuriously?

ASSUME CountAssumption ==
  CountModulus \in Nat /\ CountModulus > 2 * (Capacity + Cardinality(Threads))
ASSUME CasAssumption == CasMayFail \in BOOLEAN

VARIABLES
  buffer,     \* buffer_: NoMessage is a default or moved-from value
  head,       \* head_atomic_
  tail,       \* tail_ or tail_atomic_
  count,      \* count_
  cleared     \* Close has emptied buffer_: it has no slots any more

ringVars == <<buffer, head, tail, count, cleared>>

RingInit ==
  /\ buffer = [i \in Slots |-> NoMessage]
  /\ head = 0
  /\ tail = 0
  /\ count = 0
  /\ cleared = FALSE

IsFull  == count >= Capacity
IsEmpty == count = 0

Succ(i) == (i + 1) % Capacity

(***************************************************************************)
(* The deadlock checks: for every category, and without a lock that anyone *)
(* else takes.                                                             *)
(***************************************************************************)
CheckSendDeadlockPossibility(t) ==
  /\ op[t] \in SendOps
  /\ AfterCheck(t, IsBothRole(t) /\ IsFull)
  /\ UNCHANGED <<syncVars, ringVars>>

CheckReadDeadlockPossibility(t) ==
  /\ op[t] \in ReadOps
  /\ AfterCheck(t, IsBothRole(t) /\ IsEmpty)
  /\ UNCHANGED <<syncVars, ringVars>>

(***************************************************************************)
(* Storing.  After Close the slots are gone: whoever gets here writes out  *)
(* of bounds, and the model stops at that.                                 *)
(***************************************************************************)
HasReserved(t) == index[t] # NoSlot

WriteIndex(t) == IF HasReserved(t) THEN index[t] ELSE tail

(* Then the guard runs its commit. *)
WriteTail(t, label, commit) ==
  /\ pc[t] = label /\ Ready(t) /\ ~cleared
  /\ buffer' = [buffer EXCEPT ![WriteIndex(t)] = msg[t]]
  /\ tail' = IF HasReserved(t) THEN tail ELSE Succ(tail)
  /\ msg' = [msg EXCEPT ![t] = NoMessage]
  /\ Decide(t, "returned")
  /\ Perform(t, commit)
  /\ Goto(t, "countUp")
  /\ UNCHANGED <<role, op, free, occupied, mutex, writeSeq, readSeq, index,
                 head, count, cleared>>

(* count_.fetch_add, once the guard has published the message. *)
CountUp(t) ==
  /\ pc[t] = "countUp" /\ Ready(t)
  /\ count' = (count + 1) % CountModulus
  /\ Goto(t, "return")
  /\ UNCHANGED <<role, op, msg, outcome, syncVars, buffer, head, tail, cleared>>

(***************************************************************************)
(* Reading.                                                                *)
(***************************************************************************)
SyncAndUnderflowPrework(t, acquire) ==
  /\ pc[t] = "sync" /\ op[t] \in ReadOps
  /\ Perform(t, acquire)
  /\ Goto(t, IF op[t] = "Read" THEN "take" ELSE "tryEmpty")
  /\ UNCHANGED <<role, op, msg, outcome, free, occupied, mutex, writeSeq,
                 readSeq, index, ringVars>>

(* TrySyncAndUnderflowPrework holds a message by now, but asks count_.     *)
ResolveReadUnderflowTry(t) ==
  /\ pc[t] = "tryEmpty" /\ Ready(t)
  /\ \/ /\ IsEmpty
        /\ Finish(t, "false")
        /\ Perform(t, Sync.cancelRead)
     \/ ~IsEmpty /\ Goto(t, "take") /\ UNCHANGED <<outcome, todo>>
  /\ UNCHANGED <<role, op, msg, free, occupied, mutex, writeSeq, readSeq,
                 index, ringVars>>

(* Move the message out of the slot the thread works on. *)
MoveOut(t) ==
  /\ ~cleared
  /\ msg' = [msg EXCEPT ![t] = buffer[index[t]]]
  /\ buffer' = [buffer EXCEPT ![index[t]] = NoMessage]

ReadReserved(t) ==
  /\ pc[t] = "take" /\ Ready(t) /\ HasReserved(t)
  /\ MoveOut(t)
  /\ Decide(t, "returned")
  /\ Goto(t, "countDown")
  /\ UNCHANGED <<role, op, syncVars, head, tail, count, cleared>>

LoadIndex(t, i) == index' = [index EXCEPT ![t] = i]

\* From the end where the senders write.
LoadHead_Newest(t) ==
  /\ pc[t] = "take" /\ Ready(t) /\ ~HasReserved(t)
  /\ LoadIndex(t, (tail - 1) % Capacity)
  /\ Goto(t, "move")
  /\ UNCHANGED <<role, op, msg, outcome, free, occupied, mutex, writeSeq,
                 readSeq, todo, ringVars>>

(* Without a reserved slot, ReadHead loads the head, moves the message out *)
(* of its slot, and only then tries to advance the head.                   *)
LoadHead(t) ==
  /\ pc[t] = "take" /\ Ready(t) /\ ~HasReserved(t)
  /\ LoadIndex(t, head)
  /\ Goto(t, "move")
  /\ UNCHANGED <<role, op, msg, outcome, free, occupied, mutex, writeSeq,
                 readSeq, todo, ringVars>>

MoveHead(t) ==
  /\ pc[t] = "move"
  /\ MoveOut(t)
  /\ Goto(t, "advance")
  /\ UNCHANGED <<role, op, outcome, syncVars, head, tail, count, cleared>>

(* The compare_exchange_weak: a failure reloads the head and moves again,  *)
(* and what was moved before is lost.                                      *)
AdvanceHead(t) ==
  /\ pc[t] = "advance"
  /\ \/ /\ head = index[t]
        /\ head' = Succ(head)
        /\ Decide(t, "returned")
        /\ Goto(t, "countDown")
        /\ UNCHANGED index
     \/ /\ head # index[t] \/ CasMayFail
        /\ LoadIndex(t, head)
        /\ Goto(t, "move")
        /\ UNCHANGED <<head, outcome>>
  /\ UNCHANGED <<role, op, msg, free, occupied, mutex, writeSeq, readSeq,
                 todo, buffer, tail, count, cleared>>

\* Never below zero: a reader that is faster than the sender's fetch_add
\* does not count.
CountDown_NeverNegative(t) ==
  /\ pc[t] = "countDown"
  /\ count' = IF count = 0 THEN 0 ELSE count - 1
  /\ Perform(t, Sync.read)
  /\ Goto(t, "return")
  /\ UNCHANGED <<role, op, msg, outcome, free, occupied, mutex, writeSeq,
                 readSeq, index, buffer, head, tail, cleared>>

(* count_.fetch_sub, then the guard gives the slot back. *)
CountDown(t) ==
  /\ pc[t] = "countDown"
  /\ count' = (count - 1) % CountModulus
  /\ Perform(t, Sync.read)
  /\ Goto(t, "return")
  /\ UNCHANGED <<role, op, msg, outcome, free, occupied, mutex, writeSeq,
                 readSeq, index, buffer, head, tail, cleared>>

(***************************************************************************)
(* Close: resets the ring, and neither takes a guard nor touches a         *)
(* semaphore.                                                              *)
(***************************************************************************)
Close(t) ==
  /\ pc[t] = "close"
  /\ head' = 0
  /\ tail' = 0
  /\ count' = 0
  /\ cleared' = TRUE
  /\ Finish(t, "returned")
  /\ UNCHANGED <<role, op, msg, syncVars, buffer>>

Call(t) ==
  (CallSend(t) \/ CallRead(t) \/ CallClose(t)) /\ UNCHANGED <<syncVars, ringVars>>

Leave(t) ==
  /\ Ready(t)
  /\ Return(t)
  /\ index' = [index EXCEPT ![t] = NoSlot]
  /\ UNCHANGED <<free, occupied, mutex, writeSeq, readSeq, todo, ringVars>>

(* A message moved out of a slot belongs to the queue until the head has   *)
(* moved on.                                                               *)
Unadvanced(t) == pc[t] \in {"move", "advance"}

InHand == [t \in Threads |-> IF Unadvanced(t) THEN NoMessage ELSE msg[t]]

Content(i, readers) ==
  LET moved == {t \in readers : pc[t] = "advance" /\ index[t] = i /\ head = i}
  IN  IF moved = {} THEN buffer[i] ELSE msg[CHOOSE t \in moved : TRUE]

RingTypeOK ==
  /\ buffer \in [Slots -> Messages \cup {NoMessage}]
  /\ head \in Slots /\ tail \in Slots
  /\ count \in 0..(CountModulus - 1)
  /\ cleared \in BOOLEAN
=============================================================================
