------------------- MODULE CircularDropOldestMessageQueue -------------------
(***************************************************************************)
(* lib/circular/circular_overwrite_oldest_message_queue.hpp: the circular  *)
(* queue whose senders never wait for space.  A sender that finds the ring *)
(* full advances the head past the oldest message and stores over it,      *)
(* while readers may be at work on that very slot.                         *)
(***************************************************************************)
EXTENDS CircularMessageQueue

CONSTANTS
  DropAttempts,     \* 64 in AdvanceHeadForOverwriteDrop
  Calls             \* the calls each thread makes, as <<operation, message>>

ASSUME AttemptsAssumption == DropAttempts \in Nat \ {0}

VARIABLES
  overwriteMode,   \* overwrite_mode_ (MPMC)
  expected,        \* the head the one thread that drops has loaded
  attempts,        \* how often it has tried to advance it
  passed,          \* history: readers whose loaded head is no longer the head
  alone,           \* history: the call that has overlapped no other call, if any
  broken           \* history: overlapping calls have broken the ring (Breaks)

dropVars == <<overwriteMode, expected, attempts>>
queueVars == <<callVars, syncVars, ringVars, dropVars>>
vars == <<queueVars, passed, alone, broken>>

Init ==
  /\ CallInit /\ SyncInit /\ RingInit
  /\ overwriteMode = FALSE
  /\ expected = 0
  /\ attempts = 0
  /\ passed = {}
  /\ alone = {}
  /\ broken = FALSE

EnterOverwriteMode ==
  IF Category = "MPMC" THEN <<"overwrite_mode.set">> ELSE <<>>

\* Waits for space, as AcquireSendBoundedBlock does.
OverwriteSync_Bounded ==
  [Send        |-> EnterOverwriteMode \o <<"mutex.lock", "free.acquire">>,
   TrySend     |-> EnterOverwriteMode \o <<"mutex.try_lock", "free.acquire">>,
   sent        |-> <<"occupied.release", "mutex.unlock">>,
   overwritten |-> <<"mutex.unlock">>]

\* SuppressOccupiedNotify forgotten.
OverwriteSync_Notifies ==
  [Send        |-> EnterOverwriteMode \o <<"mutex.lock", "free.take_if_any">>,
   TrySend     |-> EnterOverwriteMode \o <<"mutex.try_lock", "free.take_if_any">>,
   sent        |-> <<"occupied.release", "mutex.unlock">>,
   overwritten |-> <<"occupied.release", "mutex.unlock">>]

(* AcquireSendOverwriteOldest and TryAcquireSendOverwriteOldest of the     *)
(* four categories, and what the guard runs after a store into a free slot *)
(* or, without the notification, over a dropped message.                   *)
OverwriteSync ==
  IF SingleProducer
    THEN [Send        |-> <<"free.take_if_any">>,
          TrySend     |-> <<"free.take_if_any">>,
          sent        |-> <<"occupied.release">>,
          overwritten |-> <<>>]
    ELSE [Send        |-> EnterOverwriteMode \o <<"mutex.lock", "free.take_if_any">>,
          TrySend     |-> EnterOverwriteMode \o <<"mutex.try_lock", "free.take_if_any">>,
          sent        |-> <<"occupied.release", "mutex.unlock">>,
          overwritten |-> <<"mutex.unlock">>]

SetOverwriteMode(t) ==
  /\ Doing(t, "overwrite_mode.set")
  /\ overwriteMode' = TRUE
  /\ UNCHANGED <<callVars, free, occupied, mutex, writeSeq, readSeq, index,
                 ringVars, expected, attempts>>

(* Readers reserve slots until a first send has set the mode. *)
AcquireRead(o) == IF overwriteMode THEN SpscSync[o] ELSE Sync[o]

SyncAndOverflowPrework(t) ==
  /\ pc[t] = "sync" /\ op[t] \in SendOps
  /\ Perform(t, OverwriteSync[op[t]])
  /\ Goto(t, "overflow")
  /\ UNCHANGED <<role, op, msg, outcome, free, occupied, mutex, writeSeq,
                 readSeq, index, ringVars, dropVars>>

ResolveSendOverflow(t) ==
  /\ pc[t] = "overflow" /\ Ready(t)
  /\ Goto(t, IF IsFull THEN "dropLoad" ELSE "store")
  /\ UNCHANGED <<role, op, msg, outcome, syncVars, ringVars, dropVars>>

(***************************************************************************)
(* AdvanceHeadForOverwriteDrop.                                            *)
(***************************************************************************)
LoadHeadToDrop(t) ==
  /\ pc[t] = "dropLoad"
  /\ expected' = head
  /\ attempts' = 0
  /\ Goto(t, "dropTest")
  /\ UNCHANGED <<role, op, msg, outcome, syncVars, ringVars, overwriteMode>>

\* The loop's variables are gone with it.
LeaveLoop == expected' = 0 /\ attempts' = 0

DropStillNeeded(t) ==
  /\ pc[t] = "dropTest"
  /\ \/ /\ attempts < DropAttempts /\ IsFull
        /\ Goto(t, "dropHead")
        /\ UNCHANGED <<expected, attempts>>
     \/ /\ attempts >= DropAttempts \/ ~IsFull
        /\ Goto(t, "store")
        /\ LeaveLoop
  /\ UNCHANGED <<role, op, msg, outcome, syncVars, ringVars, overwriteMode>>

\* A store where the code has a compare-and-exchange.
DropHead_Store(t) ==
  /\ pc[t] = "dropHead"
  /\ head' = Succ(expected)
  /\ Goto(t, "dropCount")
  /\ UNCHANGED <<role, op, msg, outcome, syncVars, buffer, tail, count,
                 cleared, dropVars>>

(* The compare_exchange_weak, which a reader may win. *)
DropHead(t) ==
  /\ pc[t] = "dropHead"
  /\ \/ /\ head = expected
        /\ head' = Succ(head)
        /\ Goto(t, "dropCount")
        /\ LeaveLoop
     \/ /\ head # expected \/ CasMayFail
        /\ expected' = head
        /\ attempts' = attempts + 1
        /\ Goto(t, "dropTest")
        /\ UNCHANGED head
  /\ UNCHANGED <<role, op, msg, outcome, syncVars, buffer, tail, count,
                 cleared, overwriteMode>>

\* In a signed counter.
CountDropped_Signed(t) ==
  /\ pc[t] = "dropCount"
  /\ count' = count - 1
  /\ Goto(t, "storeOver")
  /\ UNCHANGED <<role, op, msg, outcome, syncVars, buffer, head, tail, cleared,
                 dropVars>>

CountDropped(t) ==
  /\ pc[t] = "dropCount"
  /\ count' = (count - 1) % CountModulus
  /\ Goto(t, "storeOver")
  /\ UNCHANGED <<role, op, msg, outcome, syncVars, buffer, head, tail, cleared,
                 dropVars>>

DropSteps(t) ==
  \/ SetOverwriteMode(t) \/ SyncAndOverflowPrework(t) \/ ResolveSendOverflow(t)
  \/ LoadHeadToDrop(t) \/ DropStillNeeded(t) \/ DropHead(t) \/ CountDropped(t)

RingSteps(t) ==
  \/ SyncStep(t) /\ UNCHANGED ringVars
  \/ CheckSendDeadlockPossibility(t) \/ CheckReadDeadlockPossibility(t)
  \/ WriteTail(t, "store", OverwriteSync.sent)
  \/ WriteTail(t, "storeOver", OverwriteSync.overwritten)
  \/ CountUp(t)
  \/ SyncAndUnderflowPrework(t, AcquireRead(op[t])) \/ ResolveReadUnderflowTry(t)
  \/ ReadReserved(t) \/ LoadHead(t) \/ MoveHead(t) \/ AdvanceHead(t)
  \/ CountDown(t)
  \/ Close(t) \/ Leave(t)
-----------------------------------------------------------------------------
(***************************************************************************)
(* The queue as a client sees it: the messages between head and tail.      *)
(***************************************************************************)
SlotContent(i) == Content(i, Threads \ passed)

Making == {t \in Threads : pc[t] \in {"dropCount", "storeOver"}}

(* head = tail is an empty ring, or a full one: a read leaves a blank slot *)
(* behind, and a drop is followed by a store.                              *)
Size ==
  IF head = tail /\ Making = {} /\ \A i \in Slots : SlotContent(i) # NoMessage
    THEN Capacity
    ELSE (tail - head) % Capacity

Queue == [i \in 1..Size |-> SlotContent((head + i - 1) % Capacity)]

(* The steps with which overlapping calls break the ring: all the ways, as *)
(* the code has no protection against any of them.  What the ring holds    *)
(* after one is no queue any more: messages are gone that nobody dropped,  *)
(* and are read twice, or blank.                                           *)
Breaks(t) ==
  \* stores into the slot a reader is about to move from, or has moved from
  \/ /\ pc[t] \in {"store", "storeOver"} /\ Ready(t)
     /\ \E r \in Threads : /\ Unadvanced(r) /\ index[r] = tail
                           /\ pc[r] = "move" \/ head = tail
  \* stores over an unread message: count_ lagged, or the drop gave up
  \/ pc[t] = "store" /\ Ready(t) /\ Size = Capacity
  \* drops from an empty queue: count_ lagged
  \/ pc[t] = "dropHead" /\ head = expected /\ Size = 0
  \* reads from an empty queue: between a drop and the store in its place
  \/ pc[t] = "advance" /\ head = index[t] /\ Size = 0
  \* reads a slot reserved before the first send
  \/ pc[t] = "take" /\ Ready(t) /\ HasReserved(t)
  \* advances a head that has come round since it was loaded
  \/ pc[t] = "advance" /\ head = index[t] /\ t \in passed
  \* moves what another reader has moved
  \/ pc[t] = "move" /\ \E r \in Threads \ {t} : Unadvanced(r) /\ index[r] = index[t]

RecordHistory(t) ==
  /\ passed' = {r \in Threads : pc'[r] \in {"move", "advance"}
                  /\ (r \in passed \/ head' # head) /\ (r # t \/ pc[t] = "move")}
  /\ alone' = IF pc'[t] = "idle" THEN alone \ {t} ELSE alone
  /\ broken' = (broken \/ Breaks(t))

QueueSteps(t) == DropSteps(t) \/ (RingSteps(t) /\ UNCHANGED dropVars)

Run(t) == ~broken /\ QueueSteps(t) /\ RecordHistory(t)

Enters(t) ==
  /\ ~broken
  /\ Call(t)
  /\ <<op'[t], msg'[t]>> \in Calls[t]
  /\ alone' = IF \A u \in Threads \ {t} : op[u] = "none" THEN {t} ELSE {}
  /\ UNCHANGED <<dropVars, passed, broken>>

(* The model follows the ring up to the step that breaks it.               *)
Stopped == broken /\ UNCHANGED vars

Next == (\E t \in Threads : Enters(t) \/ Run(t)) \/ Stopped

Spec == Init /\ [][Next]_vars

(* Only the senders are scheduled for certain, and not even each of them:  *)
(* readers may stop anywhere.                                              *)
SendersFairSpec ==
  Spec /\ WF_queueVars(\E t \in Producers : ~broken /\ QueueSteps(t))
-----------------------------------------------------------------------------
(***************************************************************************)
(* Properties.                                                             *)
(***************************************************************************)
Labels == {"idle", "check", "sync", "overflow", "dropLoad", "dropTest",
           "dropHead", "dropCount", "store", "storeOver", "countUp",
           "tryEmpty", "take", "move", "advance", "countDown", "close",
           "return"}

(* Every variable has its type. *)
TypeOK ==
  /\ CallTypeOK(Labels) /\ RingTypeOK
  /\ free \in Nat /\ occupied \in Nat
  /\ mutex \in Threads \cup {NoThread}
  /\ overwriteMode \in BOOLEAN
  /\ expected \in Slots /\ attempts \in 0..DropAttempts
  /\ passed \subseteq Threads /\ alone \subseteq Threads /\ broken \in BOOLEAN

Idle == \A t \in Threads : pc[t] \in {"idle", "check", "sync"}

(* Whenever no operation is under way, the counter and the semaphore the   *)
(* readers wait on both tell how many messages are in the ring, through    *)
(* drops that give up, lose the head to a reader, or find the counter      *)
(* lagging: no message is stranded, and no reader let in to find none.     *)
SizeExactWhenIdle ==
  Idle /\ ~broken /\ ~cleared => count = Size /\ occupied = Size

(* Every step is one of a FIFO that loses nothing but its oldest message,  *)
(* to the send that replaces it, or it breaks the ring; and neither a drop *)
(* from a queue that is not full nor a break is ever the work of a call    *)
(* that has overlapped no other.  So calls in sequence are exact, whatever *)
(* overlapping calls have left behind in count_, occupied_space_ and head; *)
(* and overlapping calls lose or reorder nothing in a way not listed.      *)
Fifo == INSTANCE DropOldestFifo
          WITH queue <- Queue, msg <- InHand, closed <- FALSE,
               Exact <- FALSE, making <- Making
ImplementsDropOldest ==
  /\ Fifo!DropInit
  /\ [][Fifo!DropNext \/ (broken' /\ alone = {})]_<<Fifo!dropVars, broken>>

(* What src/ADR.md:373 and 421 say of an overflow: a send that finds the   *)
(* queue full takes the oldest message out, and only then is one lost: it  *)
(* drops from a full queue only, and stores into a free slot otherwise.    *)
LosesOnlyWhenFull ==
  [][\A t \in Producers :
       /\ pc[t] = "dropHead" /\ pc'[t] = "dropCount" => Size = Capacity
       /\ pc[t] = "store" /\ pc'[t] = "countUp" => Size < Capacity]_vars

(* Senders never wait for a reader: one of those in a call gets through    *)
(* although no reader ever takes another step.                             *)
SendsGetThrough ==
  (\E t \in Producers : op[t] # "none") ~>
    (\E t \in Producers : outcome[t] # "none") \/ broken
=============================================================================
