-------------------- MODULE CircularBoundedMessageQueue --------------------
(***************************************************************************)
(* lib/circular/circular_bounded_message_queue.hpp: the circular queue     *)
(* whose senders wait for a free slot.                                     *)
(***************************************************************************)
EXTENDS CircularMessageQueue

CONSTANT Throws     \* the assignments of ValueType that may throw: "store", "pop"

ASSUME ThrowsAssumption == Throws \subseteq {"store", "pop"}

VARIABLE kept       \* the guards an exception has left in a thread's maps, by
                    \* what their destructors will run: "sent", "read"

vars == <<callVars, syncVars, ringVars, kept>>

Init ==
  /\ CallInit /\ SyncInit /\ RingInit
  /\ kept = [t \in Threads |-> {}]

SyncAndOverflowPrework(t) ==
  /\ pc[t] = "sync" /\ op[t] \in SendOps
  /\ Perform(t, Sync[op[t]])
  /\ Goto(t, IF op[t] = "Send" THEN "store" ELSE "tryFull")
  /\ UNCHANGED <<role, op, msg, outcome, free, occupied, mutex, writeSeq,
                 readSeq, index, ringVars>>

(* TrySyncAndOverflowPrework holds a slot by now, but asks count_.         *)
ResolveSendOverflowTry(t) ==
  /\ pc[t] = "tryFull" /\ Ready(t)
  /\ \/ IsFull /\ Finish(t, "false") /\ Perform(t, Sync.cancelSend)
     \/ ~IsFull /\ Goto(t, "store") /\ UNCHANGED <<outcome, todo>>
  /\ UNCHANGED <<role, op, msg, free, occupied, mutex, writeSeq, readSeq,
                 index, ringVars>>

(***************************************************************************)
(* Exceptions.  WriteTail(ValueType&&) and ReadHead catch nothing: the     *)
(* guard stays in the map, neither committed nor cancelled, until the next *)
(* operation of the same thread puts its own guard in its place.  (The     *)
(* store of a const ValueType& is noexcept and ends the program.)          *)
(***************************************************************************)
Keep(t, guard) ==
  /\ Finish(t, "error")
  /\ kept' = [kept EXCEPT ![t] = kept[t] \cup {guard}]
  /\ UNCHANGED <<role, op, msg, syncVars, ringVars>>

StoreMessageThrows(t) ==
  /\ pc[t] = "store" /\ Ready(t) /\ ~cleared /\ "store" \in Throws
  /\ Keep(t, "sent")

PopMessageThrows(t) ==
  /\ pc[t] = "move" \/ (pc[t] = "take" /\ Ready(t) /\ HasReserved(t))
  /\ ~cleared /\ "pop" \in Throws
  /\ Keep(t, "read")

(* The guard whose place the one just acquired takes. *)
Replaced(t) ==
  kept[t] \cap (IF pc[t] \in {"store", "tryFull"} THEN {"sent"}
               ELSE IF pc[t] \in {"take", "tryEmpty"} THEN {"read"} ELSE {})

(* emplace destroys it, and it commits an operation that was not done.     *)
Emplace(t) ==
  /\ Ready(t)
  /\ \E guard \in Replaced(t) :
       /\ kept' = [kept EXCEPT ![t] = kept[t] \ {guard}]
       /\ Perform(t, Sync[guard])
  /\ UNCHANGED <<callVars, free, occupied, mutex, writeSeq, readSeq, index, ringVars>>

Proceed(t) ==
  \/ SyncStep(t) /\ UNCHANGED ringVars
  \/ CheckSendDeadlockPossibility(t) \/ CheckReadDeadlockPossibility(t)
  \/ SyncAndOverflowPrework(t) \/ ResolveSendOverflowTry(t)
  \/ WriteTail(t, "store", Sync.sent) \/ CountUp(t)
  \/ SyncAndUnderflowPrework(t, Sync[op[t]]) \/ ResolveReadUnderflowTry(t)
  \/ ReadReserved(t) \/ LoadHead(t) \/ MoveHead(t) \/ AdvanceHead(t)
  \/ CountDown(t)
  \/ Close(t) \/ Leave(t)

Run(t) ==
  \/ Emplace(t)
  \/ /\ Replaced(t) = {} \/ ~Ready(t)
     /\ \/ Proceed(t) /\ UNCHANGED kept
        \/ StoreMessageThrows(t) \/ PopMessageThrows(t)

Next == \E t \in Threads : (Call(t) /\ UNCHANGED kept) \/ Run(t)

Spec == Init /\ [][Next]_vars

(* The scheduler runs every thread that can run. *)
FairSpec == Spec /\ \A t \in Threads : WF_vars(Run(t))
-----------------------------------------------------------------------------
(***************************************************************************)
(* Properties.                                                             *)
(***************************************************************************)
Labels == {"idle", "check", "sync", "tryFull", "store", "countUp", "tryEmpty",
           "take", "move", "advance", "countDown", "close", "return"}

(* Every variable has its type; the semaphores stay within the capacity.   *)
TypeOK ==
  /\ CallTypeOK(Labels) /\ SyncTypeOK /\ RingTypeOK
  /\ kept \in [Threads -> SUBSET {"sent", "read"}]

(* What a thread holds credits for: the operation it is in, a release that *)
(* is still to come, and the guards it has kept.                           *)
Holds(t) ==
  (IF /\ pc[t] \in {"tryFull", "store", "tryEmpty", "take", "move", "advance",
                    "countDown"}
      /\ Pending(t) \cap Acquires = {}
     THEN {"operation"} ELSE {})
  \cup (Pending(t) \cap Releases) \cup kept[t]

(* Credits are conserved: every slot is free, occupied or in the hands of  *)
(* one thread, through commits, failed tries and cancels in every order    *)
(* the four guards run them, and through exceptions, after which a credit  *)
(* stays with its thread and returns by its next operation.                *)
CreditsConserved ==
  free + occupied + Cardinality(UNION {{t} \X Holds(t) : t \in Threads}) = Capacity

Idle == \A t \in Threads : pc[t] \in {"idle", "check", "sync"}

(* count_, updated outside every guard, agrees with the semaphores         *)
(* whenever no operation is under way: Size() is exact then, and no Try    *)
(* call and no deadlock check is misled by it.                             *)
CountAgreesWhenIdle ==
  Idle /\ ~cleared => count = occupied /\ count + free = Capacity

(* No two threads may be about to access one slot of the ring when one of  *)
(* them writes it (a moved-from slot is written).                          *)
Accessing(t, i) ==
  Ready(t) /\ \/ pc[t] = "store" /\ WriteIndex(t) = i
              \/ pc[t] = "move" /\ index[t] = i
              \/ pc[t] = "take" /\ HasReserved(t) /\ index[t] = i
NoDataRace ==
  \A s, t \in Threads, i \in Slots : Accessing(s, i) /\ Accessing(t, i) => s = t

(* A read that takes effect returns a message some send stored, never a    *)
(* slot that is still empty or already moved from.                         *)
NoBlankRead ==
  \A t \in Threads :
    op[t] \in ReadOps /\ outcome[t] = "returned" => msg[t] # NoMessage

(* What the slots hold.  A read takes effect when it advances the head:    *)
(* until then its message counts as still there.                           *)
Cell(i) == Content(i, Threads)

(* head = tail is an empty ring or a full one. *)
Size ==
  IF head # tail THEN (tail - head) % Capacity
  ELSE IF Cell(head) = NoMessage THEN 0 ELSE Capacity

(* The messages in the ring, from the head on. *)
Queue == [k \in 1..Size |-> Cell((head + k - 1) % Capacity)]

(* The circular queue is a bounded FIFO, except that a Try call, or the    *)
(* deadlock exception, may be misled by another call that is under way: it *)
(* may refuse although the queue is not full or not empty at that instant. *)
Fifo == INSTANCE BoundedFifo
          WITH queue <- Queue, msg <- InHand, closed <- FALSE, Exact <- FALSE
ImplementsFifo == Fifo!Spec

(* A sender that holds send_mutex_ needs nobody else to release it: the    *)
(* mutex is freed again and again although no message is ever read.        *)
SendMutexIsReleased == []<>(mutex = NoThread)
=============================================================================
