-------------------------- MODULE CircularQueueSync --------------------------
(***************************************************************************)
(* lib/circular/impl: how the circular queues wait for a free slot or a    *)
(* message.  Each thread category has its own class, but every one of them *)
(* is a fixed order of a few primitive operations on two counting          *)
(* semaphores, at most one mutex and, for MPMC, two slot sequences.  So a  *)
(* category is a table: the primitives of each acquire, and those the      *)
(* guard's destructor runs when the operation commits or is cancelled.     *)
(* todo[t] holds the primitives a thread still has to run before it goes   *)
(* on at pc[t].                                                            *)
(***************************************************************************)
EXTENDS IMessageQueue, Sequences

CONSTANT Capacity        \* capacity_

ASSUME CapacityAssumption == Capacity \in Nat \ {0}

VARIABLES
  free,        \* free_space_
  occupied,    \* occupied_space_
  mutex,       \* the thread that holds send_mutex_ (MPSC) or read_mutex_ (SPMC)
  writeSeq,    \* write_seq_ % capacity_ (MPMC)
  readSeq,     \* read_seq_ % capacity_ (MPMC)
  index,       \* the slot a thread reserved, or the head it has loaded
  todo         \* the primitives a thread is about to run

syncVars == <<free, occupied, mutex, writeSeq, readSeq, index, todo>>

Slots == 0..(Capacity - 1)
NoSlot == -1

SyncInit ==
  /\ free = Capacity
  /\ occupied = 0
  /\ mutex = NoThread
  /\ writeSeq = 0
  /\ readSeq = 0
  /\ index = [t \in Threads |-> NoSlot]
  /\ todo = [t \in Threads |-> <<>>]

(***************************************************************************)
(* The categories.                                                         *)
(***************************************************************************)
(* No lock: there is one sender and one reader. *)
SpscSync ==
  [Send       |-> <<"free.acquire">>,
   TrySend    |-> <<"free.try_acquire">>,
   sent       |-> <<"occupied.release">>,
   cancelSend |-> <<"free.release">>,
   Read       |-> <<"occupied.acquire">>,
   TryRead    |-> <<"occupied.try_acquire">>,
   read       |-> <<"free.release">>,
   cancelRead |-> <<"occupied.release">>]

\* Writers do not exclude each other.
MpscSync_NoLock == SpscSync

\* A cancelled read falls through to the commit.
MpscSync_CancelAlsoCommits ==
  [Send       |-> <<"free.acquire", "mutex.lock">>,
   TrySend    |-> <<"free.try_acquire", "mutex.lock">>,
   sent       |-> <<"occupied.release", "mutex.unlock">>,
   cancelSend |-> <<"mutex.unlock", "free.release">>,
   Read       |-> <<"occupied.acquire">>,
   TryRead    |-> <<"occupied.try_acquire">>,
   read       |-> <<"free.release">>,
   cancelRead |-> <<"occupied.release", "free.release">>]

\* send_mutex_ before the space, as for the drop-oldest queue.
MpscSync_LockFirst ==
  [SpscSync EXCEPT !.Send = <<"mutex.lock", "free.acquire">>,
                   !.TrySend = <<"free.try_acquire", "mutex.lock">>,
                   !.sent = <<"occupied.release", "mutex.unlock">>,
                   !.cancelSend = <<"mutex.unlock", "free.release">>]

\* Publishes before it takes the lock to write.
MpscSync_PublishFirst ==
  [SpscSync EXCEPT !.Send = <<"free.acquire", "occupied.release", "mutex.lock">>,
                   !.TrySend = <<"free.try_acquire", "mutex.lock">>,
                   !.sent = <<"mutex.unlock">>,
                   !.cancelSend = <<"mutex.unlock", "free.release">>]

(* The space is acquired before send_mutex_; a commit publishes the        *)
(* message before it unlocks.                                              *)
MpscSync ==
  [Send       |-> <<"free.acquire", "mutex.lock">>,
   TrySend    |-> <<"free.try_acquire", "mutex.lock">>,
   sent       |-> <<"occupied.release", "mutex.unlock">>,
   cancelSend |-> <<"mutex.unlock", "free.release">>,
   Read       |-> <<"occupied.acquire">>,
   TryRead    |-> <<"occupied.try_acquire">>,
   read       |-> <<"free.release">>,
   cancelRead |-> <<"occupied.release">>]

\* read_mutex_ is released as soon as the message is reserved.
SpmcSync_ShortLock ==
  [SpscSync EXCEPT
     !.Read = <<"mutex.lock", "occupied.acquire", "mutex.unlock">>,
     !.TryRead = <<"mutex.try_lock", "occupied.try_acquire", "mutex.unlock">>]

(* A reader waits for a message while it holds read_mutex_.                *)
SpmcSync ==
  [Send       |-> <<"free.acquire">>,
   TrySend    |-> <<"free.try_acquire">>,
   sent       |-> <<"occupied.release">>,
   cancelSend |-> <<"free.release">>,
   Read       |-> <<"mutex.lock", "occupied.acquire">>,
   TryRead    |-> <<"mutex.try_lock", "occupied.try_acquire">>,
   read       |-> <<"free.release", "mutex.unlock">>,
   cancelRead |-> <<"occupied.release", "mutex.unlock">>]

\* A cancelled read keeps its credit.
MpmcSync_LeakedCredit ==
  [SpscSync EXCEPT !.Send = <<"free.acquire", "write_seq.add">>,
                   !.TrySend = <<"free.try_acquire", "write_seq.add">>,
                   !.Read = <<"occupied.acquire", "read_seq.add">>,
                   !.TryRead = <<"occupied.try_acquire", "read_seq.add">>,
                   !.cancelRead = <<>>]

(* No lock: each operation reserves a slot by its sequence number.  A      *)
(* cancelled operation returns its credit and keeps its sequence number.   *)
MpmcSync ==
  [Send       |-> <<"free.acquire", "write_seq.add">>,
   TrySend    |-> <<"free.try_acquire", "write_seq.add">>,
   sent       |-> <<"occupied.release">>,
   cancelSend |-> <<"free.release">>,
   Read       |-> <<"occupied.acquire", "read_seq.add">>,
   TryRead    |-> <<"occupied.try_acquire", "read_seq.add">>,
   read       |-> <<"free.release">>,
   cancelRead |-> <<"occupied.release">>]

Sync == CASE Category = "SPSC" -> SpscSync
          [] Category = "MPSC" -> MpscSync
          [] Category = "SPMC" -> SpmcSync
          [] Category = "MPMC" -> MpmcSync

(***************************************************************************)
(* The primitives.                                                         *)
(***************************************************************************)
Ready(t) == todo[t] = <<>>

Perform(t, program) == todo' = [todo EXCEPT ![t] = program]

Doing(t, primitive) ==
  /\ ~Ready(t) /\ Head(todo[t]) = primitive
  /\ Perform(t, Tail(todo[t]))

(* A failed try ends the call; what it locked so far, it unlocks: that is  *)
(* read_mutex_, when there is no message.                                  *)
GiveUp(t) ==
  /\ Finish(t, "false")
  /\ Perform(t, IF Category = "SPMC" /\ Head(todo[t]) = "occupied.try_acquire"
                  THEN <<"mutex.unlock">> ELSE <<>>)

AcquireFree(t) ==
  /\ Doing(t, "free.acquire") \/ Doing(t, "free.try_acquire")
  /\ free > 0
  /\ free' = free - 1
  /\ UNCHANGED <<callVars, occupied, mutex, writeSeq, readSeq, index>>

TryAcquireFreeFails(t) ==
  /\ ~Ready(t) /\ Head(todo[t]) = "free.try_acquire"
  /\ free = 0
  /\ GiveUp(t)
  /\ UNCHANGED <<role, op, msg, free, occupied, mutex, writeSeq, readSeq, index>>

(* A try_acquire whose failure ends nothing: the drop-oldest queue stores  *)
(* its message either way.                                                 *)
TakeFreeIfAny(t) ==
  /\ Doing(t, "free.take_if_any")
  /\ free' = IF free > 0 THEN free - 1 ELSE 0
  /\ UNCHANGED <<callVars, occupied, mutex, writeSeq, readSeq, index>>

ReleaseFree(t) ==
  /\ Doing(t, "free.release")
  /\ free' = free + 1
  /\ UNCHANGED <<callVars, occupied, mutex, writeSeq, readSeq, index>>

AcquireOccupied(t) ==
  /\ Doing(t, "occupied.acquire") \/ Doing(t, "occupied.try_acquire")
  /\ occupied > 0
  /\ occupied' = occupied - 1
  /\ UNCHANGED <<callVars, free, mutex, writeSeq, readSeq, index>>

TryAcquireOccupiedFails(t) ==
  /\ ~Ready(t) /\ Head(todo[t]) = "occupied.try_acquire"
  /\ occupied = 0
  /\ GiveUp(t)
  /\ UNCHANGED <<role, op, msg, free, occupied, mutex, writeSeq, readSeq, index>>

ReleaseOccupied(t) ==
  /\ Doing(t, "occupied.release")
  /\ occupied' = occupied + 1
  /\ UNCHANGED <<callVars, free, mutex, writeSeq, readSeq, index>>

LockMutex(t) ==
  /\ Doing(t, "mutex.lock") \/ Doing(t, "mutex.try_lock")
  /\ mutex = NoThread
  /\ mutex' = t
  /\ UNCHANGED <<callVars, free, occupied, writeSeq, readSeq, index>>

TryLockMutexFails(t) ==
  /\ ~Ready(t) /\ Head(todo[t]) = "mutex.try_lock"
  /\ mutex # NoThread
  /\ GiveUp(t)
  /\ UNCHANGED <<role, op, msg, free, occupied, mutex, writeSeq, readSeq, index>>

UnlockMutex(t) ==
  /\ Doing(t, "mutex.unlock")
  /\ mutex' = NoThread
  /\ UNCHANGED <<callVars, free, occupied, writeSeq, readSeq, index>>

ReserveWriteSlot(t) ==
  /\ Doing(t, "write_seq.add")
  /\ index' = [index EXCEPT ![t] = writeSeq]
  /\ writeSeq' = (writeSeq + 1) % Capacity
  /\ UNCHANGED <<callVars, free, occupied, mutex, readSeq>>

ReserveReadSlot(t) ==
  /\ Doing(t, "read_seq.add")
  /\ index' = [index EXCEPT ![t] = readSeq]
  /\ readSeq' = (readSeq + 1) % Capacity
  /\ UNCHANGED <<callVars, free, occupied, mutex, writeSeq>>

SyncStep(t) ==
  \/ AcquireFree(t) \/ TryAcquireFreeFails(t) \/ TakeFreeIfAny(t)
  \/ ReleaseFree(t)
  \/ AcquireOccupied(t) \/ TryAcquireOccupiedFails(t) \/ ReleaseOccupied(t)
  \/ LockMutex(t) \/ TryLockMutexFails(t) \/ UnlockMutex(t)
  \/ ReserveWriteSlot(t) \/ ReserveReadSlot(t)

(***************************************************************************)
(* Credits.  A thread holds one from the acquire of a semaphore to the     *)
(* release of the one or the other.                                        *)
(***************************************************************************)
Acquires == {"free.acquire", "free.try_acquire",
             "occupied.acquire", "occupied.try_acquire"}
Releases == {"free.release", "occupied.release"}
Primitives == Acquires \cup Releases \cup
  {"free.take_if_any", "overwrite_mode.set", "mutex.lock", "mutex.try_lock",
   "mutex.unlock", "write_seq.add", "read_seq.add"}

Pending(t) == {todo[t][i] : i \in 1..Len(todo[t])}

SyncTypeOK ==
  /\ free \in 0..Capacity
  /\ occupied \in 0..Capacity
  /\ mutex \in Threads \cup {NoThread}
  /\ writeSeq \in Slots /\ readSeq \in Slots
  /\ index \in [Threads -> Slots \cup {NoSlot}]
  /\ todo \in [Threads -> Seq(Primitives)]
=============================================================================
