------------------------ MODULE PriorityMessageQueue ------------------------
(***************************************************************************)
(* lib/min-heap_queue.hpp: a binary heap under one mutex.  The size is an  *)
(* atomic that is stored under the mutex together with each change of the  *)
(* heap, and read without it by the deadlock checks.                       *)
(*                                                                         *)
(* heap lists the nodes in the order of their sequence numbers: a message  *)
(* with a smaller index came earlier.  std::push_heap and std::pop_heap    *)
(* are external; what they need and keep is the heap property.             *)
(***************************************************************************)
EXTENDS MutexAndConditions, SequencesExt

CONSTANTS
  Priority,      \* the order of Compare, as a number
  Throws         \* where ValueType may throw: "store" (the constructor in
                 \* push_back), "pop" (the move out of heap_.back())

ASSUME PriorityAssumption == Priority \in [Messages -> Int]
ASSUME ThrowsAssumption == Throws \subseteq {"store", "pop"}

VARIABLES
  heap,      \* heap_ by arrival; its length is size_
  isHeap,    \* heap_ has the heap property
  closed,    \* closed_
  thrown     \* history: a store or a pop has thrown

dataVars == <<mutex, heap, isHeap, closed, thrown>>
vars == <<callVars, dataVars>>

Init ==
  /\ CallInit
  /\ mutex = NoThread
  /\ heap = <<>>
  /\ isHeap = TRUE
  /\ closed = FALSE
  /\ thrown = FALSE

\* Off by one.
IsFull_OneLate == Len(heap) > Capacity

IsFull  == Len(heap) >= Capacity
IsEmpty == heap = <<>>

(***************************************************************************)
(* The deadlock checks read the size without the mutex.                    *)
(***************************************************************************)
CheckSendDeadlockPossibility(t) ==
  /\ op[t] \in SendOps
  /\ AfterCheck(t, SingleConsumer /\ IsBothRole(t) /\ IsFull)
  /\ UNCHANGED dataVars

CheckReadDeadlockPossibility(t) ==
  /\ op[t] \in ReadOps
  /\ AfterCheck(t, SingleProducer /\ IsBothRole(t) /\ IsEmpty)
  /\ UNCHANGED dataVars

(***************************************************************************)
(* Sending.  The preworks end with the mutex held.                         *)
(***************************************************************************)
SyncAndOverflowPrework(t) ==
  /\ pc[t] = "sync" /\ op[t] = "Send"
  /\ \/ closed /\ LockedBriefly /\ Finish(t, "closed")
     \/ ~closed /\ IsFull /\ LockedBriefly /\ Goto(t, "waitFull") /\ UNCHANGED outcome
     \/ ~closed /\ ~IsFull /\ Lock(t) /\ Goto(t, "store") /\ UNCHANGED outcome
  /\ UNCHANGED <<role, op, msg, heap, isHeap, closed, thrown>>

TrySyncAndOverflowPrework(t) ==
  /\ pc[t] = "sync" /\ op[t] = "TrySend"
  /\ \/ (closed \/ IsFull) /\ LockedBriefly /\ Finish(t, "false")
     \/ ~closed /\ ~IsFull /\ Lock(t) /\ Goto(t, "store") /\ UNCHANGED outcome
  /\ UNCHANGED <<role, op, msg, heap, isHeap, closed, thrown>>

StoreMessage(t) ==
  /\ pc[t] = "store"
  /\ heap' = Append(heap, msg[t])
  /\ msg' = [msg EXCEPT ![t] = NoMessage]
  /\ Decide(t, "returned")
  /\ Goto(t, "sendPostwork")
  /\ UNCHANGED <<role, op, mutex, isHeap, closed, thrown>>

\* The catch block forgets unlock().
StoreMessageThrows_KeepsLock(t) ==
  /\ pc[t] = "store" /\ "store" \in Throws
  /\ Finish(t, "error")
  /\ thrown' = TRUE
  /\ UNCHANGED <<role, op, msg, mutex, heap, isHeap, closed>>

(* push_back throws and changes nothing; the catch block unlocks, and      *)
(* notifies nobody.                                                        *)
StoreMessageThrows(t) ==
  /\ pc[t] = "store" /\ "store" \in Throws
  /\ Unlock(t)
  /\ Finish(t, "error")
  /\ thrown' = TRUE
  /\ UNCHANGED <<role, op, msg, heap, isHeap, closed>>

\* Notifies only when the queue stops being empty.
SendPostwork_OnlyWhenEmpty(t) ==
  /\ pc[t] = "sendPostwork"
  /\ Unlock(t)
  /\ Goto(t, IF Len(heap) = 1 THEN "notifyEmpty" ELSE "return")
  /\ UNCHANGED <<role, op, msg, outcome, heap, isHeap, closed, thrown>>

SendPostwork(t) ==
  /\ pc[t] = "sendPostwork"
  /\ Unlock(t)
  /\ Goto(t, "notifyEmpty")
  /\ UNCHANGED <<role, op, msg, outcome, heap, isHeap, closed, thrown>>

(***************************************************************************)
(* Reading.                                                                *)
(***************************************************************************)
SyncAndUnderflowPrework(t) ==
  /\ pc[t] = "sync" /\ op[t] = "Read"
  /\ \/ closed /\ IsEmpty /\ LockedBriefly /\ Finish(t, "closed")
     \/ ~closed /\ IsEmpty /\ LockedBriefly /\ Goto(t, "waitEmpty") /\ UNCHANGED outcome
     \/ ~IsEmpty /\ Lock(t) /\ Goto(t, "pop") /\ UNCHANGED outcome
  /\ UNCHANGED <<role, op, msg, heap, isHeap, closed, thrown>>

TrySyncAndUnderflowPrework(t) ==
  /\ pc[t] = "sync" /\ op[t] = "TryRead"
  /\ \/ IsEmpty /\ LockedBriefly /\ Finish(t, "false")
     \/ ~IsEmpty /\ Lock(t) /\ Goto(t, "pop") /\ UNCHANGED outcome
  /\ UNCHANGED <<role, op, msg, heap, isHeap, closed, thrown>>

\* Without the sequence numbers: equal priorities come out in any order.
IsMinimum_AnyOfEqual(i) ==
  \A j \in DOMAIN heap : Priority[heap[i]] <= Priority[heap[j]]

(* MinHeapComparator: by priority, then by sequence number. *)
IsMinimum(i) ==
  \A j \in DOMAIN heap :
    \/ Priority[heap[i]] < Priority[heap[j]]
    \/ Priority[heap[i]] = Priority[heap[j]] /\ i <= j

(* pop_heap delivers the minimum of a heap.  On a range that is not a heap *)
(* its behaviour is undefined: any node may come out.                      *)
PopMessage(t) ==
  /\ pc[t] = "pop"
  /\ \E i \in DOMAIN heap :
       /\ isHeap => IsMinimum(i)
       /\ msg' = [msg EXCEPT ![t] = heap[i]]
       /\ heap' = RemoveAt(heap, i)
  /\ isHeap' = (isHeap \/ Len(heap') <= 1)
  /\ Decide(t, "returned")
  /\ Goto(t, "readPostwork")
  /\ UNCHANGED <<role, op, mutex, closed, thrown>>

(* The move out of heap_.back() throws: pop_heap has moved the minimum     *)
(* there, and nobody moves it back or notifies another reader.             *)
PopMessageThrows(t) ==
  /\ pc[t] = "pop" /\ "pop" \in Throws
  /\ isHeap' = (isHeap /\ Len(heap) <= 1)
  /\ Unlock(t)
  /\ Finish(t, "error")
  /\ thrown' = TRUE
  /\ UNCHANGED <<role, op, msg, heap, closed>>

ReadPostwork(t) ==
  /\ pc[t] = "readPostwork"
  /\ Unlock(t)
  /\ Goto(t, "notifyFull")
  /\ UNCHANGED <<role, op, msg, outcome, heap, isHeap, closed, thrown>>

(***************************************************************************)
(* Condition variables and Close.                                          *)
(***************************************************************************)
NotifyOneNotFull(t) ==
  /\ pc[t] = "notifyFull"
  /\ NotifyOne(t, SleepingFull)
  /\ UNCHANGED <<role, op, msg, outcome, dataVars>>

NotifyOneNotEmpty(t) ==
  /\ pc[t] = "notifyEmpty"
  /\ NotifyOne(t, SleepingEmpty)
  /\ UNCHANGED <<role, op, msg, outcome, dataVars>>

SpuriousWakeup(t) ==
  /\ SpuriousWakeups
  /\ pc[t] \in {"waitFull", "waitEmpty"}
  /\ Goto(t, "sync")
  /\ UNCHANGED <<role, op, msg, outcome, dataVars>>

(* Also a queue that is closed already notifies again. *)
Close(t) ==
  /\ pc[t] = "close"
  /\ LockedBriefly
  /\ closed' = TRUE
  /\ Decide(t, "returned")
  /\ Goto(t, "closeNotifyFull")
  /\ UNCHANGED <<role, op, msg, heap, isHeap, thrown>>

CloseNotifyNotFull(t) ==
  /\ pc[t] = "closeNotifyFull"
  /\ NotifyAll(t, SleepingFull, "closeNotifyEmpty")
  /\ UNCHANGED <<role, op, msg, outcome, dataVars>>

CloseNotifyNotEmpty(t) ==
  /\ pc[t] = "closeNotifyEmpty"
  /\ NotifyAll(t, SleepingEmpty, "return")
  /\ UNCHANGED <<role, op, msg, outcome, dataVars>>
-----------------------------------------------------------------------------
Call(t) == (CallSend(t) \/ CallRead(t) \/ CallClose(t)) /\ UNCHANGED dataVars

Leave(t) == Return(t) /\ UNCHANGED dataVars

Run(t) ==
  \/ CheckSendDeadlockPossibility(t) \/ CheckReadDeadlockPossibility(t)
  \/ SyncAndOverflowPrework(t) \/ TrySyncAndOverflowPrework(t)
  \/ StoreMessage(t) \/ StoreMessageThrows(t) \/ SendPostwork(t)
  \/ SyncAndUnderflowPrework(t) \/ TrySyncAndUnderflowPrework(t)
  \/ PopMessage(t) \/ PopMessageThrows(t) \/ ReadPostwork(t)
  \/ NotifyOneNotFull(t) \/ NotifyOneNotEmpty(t)
  \/ Close(t) \/ CloseNotifyNotFull(t) \/ CloseNotifyNotEmpty(t)
  \/ Leave(t)

Next == \E t \in Threads : Call(t) \/ Run(t) \/ SpuriousWakeup(t)

Spec == Init /\ [][Next]_vars
-----------------------------------------------------------------------------
(***************************************************************************)
(* Properties.                                                             *)
(***************************************************************************)
Critical == {"store", "sendPostwork", "pop", "readPostwork"}

Labels == {"idle", "check", "sync", "waitFull", "waitEmpty", "notifyFull",
           "notifyEmpty", "close", "closeNotifyFull", "closeNotifyEmpty",
           "return"} \cup Critical

(* Every variable has its type; the heap never exceeds its capacity. *)
TypeOK ==
  /\ CallTypeOK(Labels)
  /\ mutex \in Threads \cup {NoThread}
  /\ heap \in Seq(Messages) /\ Len(heap) <= Capacity
  /\ isHeap \in BOOLEAN /\ closed \in BOOLEAN /\ thrown \in BOOLEAN

(* The mutex is held exactly between a prework and the postwork or catch   *)
(* block that follows, on every path.                                      *)
MutexDiscipline == \A t \in Threads : Locked(t) <=> pc[t] \in Critical

WakingSenders ==
  {t \in Threads : pc[t] \in {"readPostwork", "notifyFull"}
                     \/ (pc[t] \in {"sync", "store"} /\ op[t] \in SendOps)}
WakingReaders ==
  {t \in Threads : pc[t] \in {"sendPostwork", "notifyEmpty"}
                     \/ (pc[t] \in {"sync", "pop"} /\ op[t] \in ReadOps)}

(* As long as no constructor has thrown, no wakeup is lost: while a sender *)
(* sleeps, every free slot has a thread that is about to use it or to      *)
(* notify for it, and likewise every message while a reader sleeps.  After *)
(* an exception the catch blocks, which notify nobody, break this.         *)
NoLostWakeup ==
  ~thrown =>
    /\ ~closed /\ SleepingFull # {} =>
         Capacity - Len(heap) <= Cardinality(WakingSenders)
    /\ ~closed /\ SleepingEmpty # {} =>
         Len(heap) <= Cardinality(WakingReaders)
    /\ closed /\ SleepingFull # {} =>
         \E t \in Threads : pc[t] = "closeNotifyFull"
    /\ closed /\ SleepingEmpty # {} =>
         \E t \in Threads : pc[t] \in {"closeNotifyFull", "closeNotifyEmpty"}

(* Every call is an atomic call of the abstract priority queue: minimum    *)
(* first, first come first served within a priority, and refusals that are *)
(* true although the deadlock checks take no lock.                         *)
Abstract == INSTANCE BoundedPriorityQueue
              WITH queue <- heap, disordered <- ~isHeap, Exact <- TRUE
ImplementsPriorityQueue == Abstract!PrioritySpec
=============================================================================
