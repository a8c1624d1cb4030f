---------------------- MODULE DequeBoundedMessageQueue ----------------------
(***************************************************************************)
(* lib/deque_bounded_message_queue.hpp: a deque under one mutex with two   *)
(* condition variables.  SyncAnd...Prework takes the mutex and keeps it    *)
(* over StoreMessage or PopMessage until the postwork (or a catch block)   *)
(* releases it and then, without it, notifies one waiter.                  *)
(***************************************************************************)
EXTENDS MutexAndConditions, Sequences

CONSTANT
  Throws     \* the steps in which a constructor of ValueType or an allocation
             \* may throw: "store", "pop", "copy"

ASSUME ThrowsAssumption == Throws \subseteq {"store", "pop", "copy"}

VARIABLES
  free,      \* free_
  used,      \* used_
  buffer,    \* buffer_
  closed     \* closed_

dataVars == <<mutex, free, used, buffer, closed>>
vars == <<callVars, dataVars>>

Init ==
  /\ CallInit
  /\ mutex = NoThread
  /\ free = Capacity
  /\ used = 0
  /\ buffer = <<>>
  /\ closed = FALSE

(***************************************************************************)
(* The deadlock checks.  Only in the category with one consumer can that   *)
(* consumer block itself by sending, and conversely; the thread_local role *)
(* is tested before the lock.                                              *)
(***************************************************************************)
CheckDeadlock(t, single, blocked) ==
  /\ \/ single /\ IsBothRole(t) /\ LockedBriefly /\ AfterCheck(t, blocked)
     \/ ~(single /\ IsBothRole(t)) /\ AfterCheck(t, FALSE) /\ UNCHANGED mutex
  /\ UNCHANGED <<free, used, buffer, closed>>

CheckSendDeadlockPossibility(t) ==
  op[t] \in SendOps /\ CheckDeadlock(t, SingleConsumer, free = 0)

CheckReadDeadlockPossibility(t) ==
  op[t] \in ReadOps /\ CheckDeadlock(t, SingleProducer, used = 0)

(***************************************************************************)
(* Sending.                                                                *)
(***************************************************************************)

\* Without the test of closed_ that follows the wait.
SlotFree_EvenClosed == free > 0

\* Off by one.
SlotFree_NoneLeft == ~closed /\ free >= 0

SlotFree == ~closed /\ free > 0

(* The prework ends with the mutex held: lock.release(). *)
TakeSlot(t) ==
  /\ SlotFree
  /\ Lock(t)
  /\ free' = free - 1
  /\ Goto(t, "store")
  /\ UNCHANGED outcome

(* Also the re-evaluation of the predicate by a woken waiter: it tests     *)
(* closed_ and free_ again under the mutex.                                *)
SyncAndOverflowPrework(t) ==
  /\ pc[t] = "sync" /\ op[t] = "Send"
  /\ \/ closed /\ LockedBriefly /\ Finish(t, "closed") /\ UNCHANGED free
     \/ ~closed /\ free = 0 /\ LockedBriefly /\ Goto(t, "waitFull")
          /\ UNCHANGED <<outcome, free>>
     \/ TakeSlot(t)
  /\ UNCHANGED <<role, op, msg, used, buffer, closed>>

TrySyncAndOverflowPrework(t) ==
  /\ pc[t] = "sync" /\ op[t] = "TrySend"
  /\ \/ (closed \/ free = 0) /\ LockedBriefly /\ Finish(t, "false")
          /\ UNCHANGED free
     \/ TakeSlot(t)
  /\ UNCHANGED <<role, op, msg, used, buffer, closed>>

StoreMessage(t) ==
  /\ pc[t] = "store"
  /\ buffer' = Append(buffer, msg[t])
  /\ msg' = [msg EXCEPT ![t] = NoMessage]
  /\ Decide(t, "returned")
  /\ Goto(t, "sendPostwork")
  /\ UNCHANGED <<role, op, mutex, free, used, closed>>

\* The catch block forgets unlock().
StoreMessageThrows_KeepsLock(t) ==
  /\ pc[t] = "store" /\ "store" \in Throws
  /\ free' = free + 1
  /\ Decide(t, "error")
  /\ Goto(t, "notifyFull")
  /\ UNCHANGED <<role, op, msg, mutex, used, buffer, closed>>

\* The catch block forgets notify_one().
StoreMessageThrows_Silent(t) ==
  /\ pc[t] = "store" /\ "store" \in Throws
  /\ free' = free + 1
  /\ Unlock(t)
  /\ Finish(t, "error")
  /\ UNCHANGED <<role, op, msg, used, buffer, closed>>

\* The catch block forgets ++free_.
StoreMessageThrows_KeepsSlot(t) ==
  /\ pc[t] = "store" /\ "store" \in Throws
  /\ Unlock(t)
  /\ Decide(t, "error")
  /\ Goto(t, "notifyFull")
  /\ UNCHANGED <<role, op, msg, free, used, buffer, closed>>

(* push_back throws: the catch block gives the slot back. *)
StoreMessageThrows(t) ==
  /\ pc[t] = "store" /\ "store" \in Throws
  /\ free' = free + 1
  /\ Unlock(t)
  /\ Decide(t, "error")
  /\ Goto(t, "notifyFull")
  /\ UNCHANGED <<role, op, msg, used, buffer, closed>>

SendPostwork(t) ==
  /\ pc[t] = "sendPostwork"
  /\ used' = used + 1
  /\ Unlock(t)
  /\ Goto(t, "notifyEmpty")
  /\ UNCHANGED <<role, op, msg, outcome, free, buffer, closed>>

(***************************************************************************)
(* Reading.                                                                *)
(***************************************************************************)
TakeMessage(t) ==
  /\ used > 0
  /\ Lock(t)
  /\ used' = used - 1
  /\ Goto(t, "pop")
  /\ UNCHANGED outcome

SyncAndUnderflowPrework(t) ==
  /\ pc[t] = "sync" /\ op[t] = "Read"
  /\ \/ closed /\ used = 0 /\ LockedBriefly /\ Finish(t, "closed")
          /\ UNCHANGED used
     \/ ~closed /\ used = 0 /\ LockedBriefly /\ Goto(t, "waitEmpty")
          /\ UNCHANGED <<outcome, used>>
     \/ TakeMessage(t)
  /\ UNCHANGED <<role, op, msg, free, buffer, closed>>

TrySyncAndUnderflowPrework(t) ==
  /\ pc[t] = "sync" /\ op[t] = "TryRead"
  /\ \/ used = 0 /\ LockedBriefly /\ Finish(t, "false") /\ UNCHANGED used
     \/ TakeMessage(t)
  /\ UNCHANGED <<role, op, msg, free, buffer, closed>>

\* Takes the newest message.
PopMessage_Back(t) ==
  /\ pc[t] = "pop"
  /\ msg' = [msg EXCEPT ![t] = buffer[Len(buffer)]]
  /\ buffer' = SubSeq(buffer, 1, Len(buffer) - 1)
  /\ Decide(t, "returned")
  /\ Goto(t, "readPostwork")
  /\ UNCHANGED <<role, op, mutex, free, used, closed>>

PopMessage(t) ==
  /\ pc[t] = "pop"
  /\ msg' = [msg EXCEPT ![t] = Head(buffer)]
  /\ buffer' = Tail(buffer)
  /\ Decide(t, "returned")
  /\ Goto(t, "readPostwork")
  /\ UNCHANGED <<role, op, mutex, free, used, closed>>

\* The catch block does not notify: the sleeper this reader was woken
\* instead of sleeps on.
PopMessageThrows_Silent(t) ==
  /\ pc[t] = "pop" /\ "pop" \in Throws
  /\ used' = used + 1
  /\ Unlock(t)
  /\ Finish(t, "error")
  /\ UNCHANGED <<role, op, msg, free, buffer, closed>>

(* The move out of front() throws: the catch block gives the message back. *)
PopMessageThrows(t) ==
  /\ pc[t] = "pop" /\ "pop" \in Throws
  /\ used' = used + 1
  /\ Unlock(t)
  /\ Decide(t, "error")
  /\ Goto(t, "notifyEmpty")
  /\ UNCHANGED <<role, op, msg, free, buffer, closed>>

\* Notifies only when the queue stops being full.
ReadPostwork_OnlyWhenFull(t) ==
  /\ pc[t] = "readPostwork"
  /\ free' = free + 1
  /\ Unlock(t)
  /\ Goto(t, IF free = 0 THEN "notifyFull" ELSE "return")
  /\ UNCHANGED <<role, op, msg, outcome, used, buffer, closed>>

ReadPostwork(t) ==
  /\ pc[t] = "readPostwork"
  /\ free' = free + 1
  /\ Unlock(t)
  /\ Goto(t, "notifyFull")
  /\ UNCHANGED <<role, op, msg, outcome, used, buffer, closed>>

(* TryRead returns {message}, a copy; when it throws the message dies with *)
(* the local variable.                                                     *)
TryReadCopyThrows(t) ==
  /\ pc[t] = "return" /\ op[t] = "TryRead" /\ outcome[t] = "returned"
  /\ "copy" \in Throws
  /\ Decide(t, "error")
  /\ msg' = [msg EXCEPT ![t] = NoMessage]
  /\ UNCHANGED <<role, pc, op, dataVars>>

(***************************************************************************)
(* Condition variables.  A woken thread competes for the mutex again.      *)
(***************************************************************************)
NotifyOneNotFull(t) ==
  /\ pc[t] = "notifyFull"
  /\ NotifyOne(t, SleepingFull)
  /\ UNCHANGED <<role, op, msg, outcome, dataVars>>

NotifyOneNotEmpty(t) ==
  /\ pc[t] = "notifyEmpty"
  /\ NotifyOne(t, SleepingEmpty)
  /\ UNCHANGED <<role, op, msg, outcome, dataVars>>

SpuriousWakeup(t) ==
  /\ SpuriousWakeups
  /\ pc[t] \in {"waitFull", "waitEmpty"}
  /\ Goto(t, "sync")
  /\ UNCHANGED <<role, op, msg, outcome, dataVars>>

(***************************************************************************)
(* Close.                                                                  *)
(***************************************************************************)
Close(t) ==
  /\ pc[t] = "close"
  /\ LockedBriefly
  /\ Decide(t, "returned")
  /\ \/ closed /\ Goto(t, "return") /\ UNCHANGED closed
     \/ ~closed /\ closed' = TRUE /\ Goto(t, "closeNotifyFull")
  /\ UNCHANGED <<role, op, msg, free, used, buffer>>

\* notify_one: one of the sleepers wakes, the others stay asleep.
CloseNotifyNotFull_One(t) ==
  /\ pc[t] = "closeNotifyFull"
  /\ \/ SleepingFull = {} /\ Goto(t, "closeNotifyEmpty")
     \/ \E s \in SleepingFull :
          pc' = [pc EXCEPT ![t] = "closeNotifyEmpty", ![s] = "sync"]
  /\ UNCHANGED <<role, op, msg, outcome, dataVars>>

CloseNotifyNotFull(t) ==
  /\ pc[t] = "closeNotifyFull"
  /\ NotifyAll(t, SleepingFull, "closeNotifyEmpty")
  /\ UNCHANGED <<role, op, msg, outcome, dataVars>>

CloseNotifyNotEmpty(t) ==
  /\ pc[t] = "closeNotifyEmpty"
  /\ NotifyAll(t, SleepingEmpty, "return")
  /\ UNCHANGED <<role, op, msg, outcome, dataVars>>
-----------------------------------------------------------------------------
Call(t) == (CallSend(t) \/ CallRead(t) \/ CallClose(t)) /\ UNCHANGED dataVars

Leave(t) == Return(t) /\ UNCHANGED dataVars

(* The library's own progress: a thread inside a call that is not asleep.  *)
Run(t) ==
  \/ CheckSendDeadlockPossibility(t) \/ CheckReadDeadlockPossibility(t)
  \/ SyncAndOverflowPrework(t) \/ TrySyncAndOverflowPrework(t)
  \/ StoreMessage(t) \/ StoreMessageThrows(t) \/ SendPostwork(t)
  \/ SyncAndUnderflowPrework(t) \/ TrySyncAndUnderflowPrework(t)
  \/ PopMessage(t) \/ PopMessageThrows(t) \/ ReadPostwork(t)
  \/ TryReadCopyThrows(t)
  \/ NotifyOneNotFull(t) \/ NotifyOneNotEmpty(t)
  \/ Close(t) \/ CloseNotifyNotFull(t) \/ CloseNotifyNotEmpty(t)
  \/ Leave(t)

Next == \E t \in Threads : Call(t) \/ Run(t) \/ SpuriousWakeup(t)

Spec == Init /\ [][Next]_vars

(* The scheduler runs every thread that can run.  It promises nothing      *)
(* about who gets a contended mutex, and clients need not call again.      *)
FairSpec == Spec /\ \A t \in Threads : WF_vars(Run(t))
-----------------------------------------------------------------------------
(***************************************************************************)
(* Properties.                                                             *)
(***************************************************************************)
Critical == {"store", "sendPostwork", "pop", "readPostwork"}

Labels == {"idle", "check", "sync", "waitFull", "waitEmpty", "notifyFull",
           "notifyEmpty", "close", "closeNotifyFull", "closeNotifyEmpty",
           "return"} \cup Critical

(* Every variable has its type. *)
TypeOK ==
  /\ CallTypeOK(Labels)
  /\ mutex \in Threads \cup {NoThread}
  /\ free \in 0..Capacity
  /\ used \in 0..Capacity
  /\ buffer \in Seq(Messages)
  /\ closed \in BOOLEAN

(* The mutex is held exactly by the thread between its prework and its     *)
(* postwork or catch block: the manual release() and unlock() calls pair   *)
(* on every path, exceptions included.                                     *)
MutexDiscipline == \A t \in Threads : Locked(t) <=> pc[t] \in Critical

(* free_ and used_ are two separate counters of one buffer.  Outside the   *)
(* critical section they add up to the capacity and used_ is the buffer's  *)
(* size; inside, exactly one slot is in transit, on every path.            *)
SlotAccounting ==
  /\ mutex = NoThread =>
       free + used = Capacity /\ used = Len(buffer)
  /\ \A t \in Threads : pc[t] \in {"store", "readPostwork"} =>
       free + used + 1 = Capacity /\ used = Len(buffer)
  /\ \A t \in Threads : pc[t] \in {"sendPostwork", "pop"} =>
       free + used + 1 = Capacity /\ used + 1 = Len(buffer)

WakingSenders ==
  {t \in Threads : pc[t] = "notifyFull" \/ (pc[t] = "sync" /\ op[t] \in SendOps)}
WakingReaders ==
  {t \in Threads : pc[t] = "notifyEmpty" \/ (pc[t] = "sync" /\ op[t] \in ReadOps)}

(* No wakeup is lost: while a sender sleeps on not_full_, every free slot  *)
(* is matched by a thread that is about to notify it or to compete for the *)
(* slot itself, although notify_one runs after the unlock and a TrySend    *)
(* may take the slot a sleeper was woken for; the same for readers; and a  *)
(* sleeper on a closed queue still has Close's notify_all to come.         *)
NoLostWakeup ==
  /\ ~closed /\ SleepingFull # {} => free <= Cardinality(WakingSenders)
  /\ ~closed /\ SleepingEmpty # {} => used <= Cardinality(WakingReaders)
  /\ closed /\ SleepingFull # {} =>
       \E t \in Threads : pc[t] = "closeNotifyFull"
  /\ closed /\ SleepingEmpty # {} =>
       \E t \in Threads : pc[t] \in {"closeNotifyFull", "closeNotifyEmpty"}

(* Every call of the deque queue is an atomic call of the bounded FIFO:    *)
(* order, no loss, no duplication, the capacity, no send after Close, and  *)
(* false, closed and deadlock answers only when they are true.             *)
Fifo == INSTANCE BoundedFifo WITH queue <- buffer, Exact <- TRUE
ImplementsFifo == Fifo!Spec

(* kOnDeadlock promises an exception instead of a sleep that only the      *)
(* sleeper itself could end: a thread that is both the sending side and    *)
(* the only reader of this queue never sleeps on a full queue, nor one     *)
(* that is its only sender on an empty queue.                              *)
NoUndetectedDeadlock ==
  Policy = "kOnDeadlock" =>
    \A t \in Threads : IsBothRole(t) =>
      /\ SingleConsumer => pc[t] # "waitFull"
      /\ SingleProducer => pc[t] # "waitEmpty"

(* kOnThreadRoleChange: a thread that has got to the queue in one role     *)
(* never gets to it in the other, whatever it calls in between.  And a     *)
(* rejected call leaves nothing behind: the calls of the thread's own role *)
(* are not rejected afterwards.                                            *)
AtWork(t, ops) == op[t] \in ops /\ pc[t] \in Critical
Rejected(t, ops) == op[t] \in ops /\ outcome[t] = "roleChange"

RolesNeverMix ==
  Policy = "kOnThreadRoleChange" =>
    \A t \in Threads :
      /\ [](AtWork(t, SendOps) => [](~AtWork(t, ReadOps) /\ ~Rejected(t, SendOps)))
      /\ [](AtWork(t, ReadOps) => [](~AtWork(t, SendOps) /\ ~Rejected(t, ReadOps)))

(* No sleeper is stranded: it is never the case for good that senders      *)
(* sleep while slots are free, or readers while messages wait.             *)
SendersWake == []<>(free = 0 \/ SleepingFull = {})
ReadersWake == []<>(used = 0 \/ SleepingEmpty = {})

(* Close wakes every sleeper, without any further call of the clients.     *)
CloseWakesAll == closed ~> (SleepingFull = {} /\ SleepingEmpty = {})
=============================================================================
