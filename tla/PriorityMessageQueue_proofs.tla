-------------------- MODULE PriorityMessageQueue_proofs --------------------
(***************************************************************************)
(* Proofs about PriorityMessageQueue for every number of threads, every    *)
(* capacity, set of messages, order, category and policy.                  *)
(***************************************************************************)
EXTENDS PriorityMessageQueue, Covering

(* The local state of a call: which operation is where, and what it holds. *)
CallInv ==
  \A t \in Threads :
    /\ pc[t] = "idle" <=> op[t] = "none"
    /\ pc[t] = "idle" => msg[t] = NoMessage /\ outcome[t] = "none"
    /\ pc[t] \in {"check", "sync"} => op[t] \in SendOps \cup ReadOps
    /\ pc[t] = "waitFull" => op[t] = "Send"
    /\ pc[t] = "waitEmpty" => op[t] = "Read"
    /\ pc[t] = "store" => op[t] \in SendOps
    /\ pc[t] = "pop" => op[t] \in ReadOps
    /\ pc[t] = "close" => op[t] = "Close"
    /\ pc[t] \in {"check", "sync", "waitFull", "store"} /\ op[t] \in SendOps
         => msg[t] \in Messages
    /\ pc[t] \in {"check", "sync", "waitFull", "waitEmpty", "store", "pop", "close"}
         => outcome[t] = "none"
    /\ pc[t] \in {"sendPostwork", "readPostwork", "notifyFull", "notifyEmpty",
                  "closeNotifyFull", "closeNotifyEmpty", "return"}
         => outcome[t] # "none"

(* What a prework has found under the mutex still holds at the store or    *)
(* the pop: a free slot in an open queue, a message.                       *)
RoomInv ==
  \A t \in Threads :
    /\ pc[t] = "store" => ~closed /\ Len(heap) < Capacity
    /\ pc[t] = "pop" => heap # <<>>

Inv == TypeOK /\ MutexDiscipline /\ CallInv /\ RoomInv

(* RemoveAt takes one element out of a sequence. *)
LEMMA RemoveAtShorter ==
  ASSUME NEW S, NEW s \in Seq(S), NEW i \in DOMAIN s
  PROVE  RemoveAt(s, i) \in Seq(S) /\ Len(RemoveAt(s, i)) + 1 = Len(s)
<1>1. i \in 1..Len(s) /\ Len(s) \in Nat
  OBVIOUS
<1>2. SubSeq(s, 1, i - 1) \in Seq(S) /\ Len(SubSeq(s, 1, i - 1)) = i - 1
  BY <1>1
<1>3. SubSeq(s, i + 1, Len(s)) \in Seq(S)
      /\ Len(SubSeq(s, i + 1, Len(s))) = Len(s) - i
  BY <1>1
<1>4. ASSUME NEW a \in Seq(S), NEW b \in Seq(S)
      PROVE  a \o b \in Seq(S) /\ Len(a \o b) = Len(a) + Len(b)
  OBVIOUS
<1>5. Len(RemoveAt(s, i)) = (i - 1) + (Len(s) - i) /\ RemoveAt(s, i) \in Seq(S)
  BY <1>2, <1>3, <1>4 DEF RemoveAt
<1>6. QED
  BY <1>1, <1>5

LEMMA InitInv == Init => Inv
<1> SUFFICES ASSUME Init PROVE Inv
  OBVIOUS
<1> USE ThreadsAssumption, CapacityAssumption DEF Init, CallInit
<1>1. TypeOK
  <2>1. CallTypeOK(Labels)
    BY DEF CallTypeOK, Roles, Labels, Ops, Outcomes
  <2>2. heap \in Seq(Messages) /\ Len(heap) <= Capacity
    OBVIOUS
  <2>3. QED
    BY <2>1, <2>2 DEF TypeOK
<1>2. MutexDiscipline
  BY DEF MutexDiscipline, Locked, Critical
<1>3. CallInv
  BY DEF CallInv
<1>4. RoomInv
  BY DEF RoomInv
<1>5. QED
  BY <1>1, <1>2, <1>3, <1>4 DEF Inv

LEMMA StepInv == Inv /\ [Next]_vars => Inv'
<1> SUFFICES ASSUME Inv, [Next]_vars PROVE Inv'
  OBVIOUS
<1> USE ThreadsAssumption, CapacityAssumption, MessagesAssumption
    DEF Inv, TypeOK, CallTypeOK, MutexDiscipline, CallInv, RoomInv,
        Roles, Labels, Critical, Ops, SendOps, ReadOps, TryOps, Outcomes,
        Goto, Decide, Finish, Locked, Lock, Unlock, LockedBriefly, dataVars
<1>1. CASE UNCHANGED vars
  BY <1>1 DEF vars, callVars
<1>2. ASSUME NEW t \in Threads, CallSend(t), UNCHANGED dataVars PROVE Inv'
  BY <1>2 DEF CallSend, Enter, AccountThreads, RoleAccepted
<1>3. ASSUME NEW t \in Threads, CallRead(t), UNCHANGED dataVars PROVE Inv'
  BY <1>3 DEF CallRead, Enter, AccountThreads, RoleAccepted
<1>4. ASSUME NEW t \in Threads, CallClose(t), UNCHANGED dataVars PROVE Inv'
  BY <1>4 DEF CallClose, Enter
<1>5. ASSUME NEW t \in Threads,
             CheckSendDeadlockPossibility(t) \/ CheckReadDeadlockPossibility(t)
      PROVE  Inv'
  <2>1. UNCHANGED <<role, op, msg, dataVars>> /\ pc[t] = "check" /\ op[t] # "Close"
    BY <1>5 DEF CheckSendDeadlockPossibility, CheckReadDeadlockPossibility, AfterCheck
  <2>2. CASE pc' = [pc EXCEPT ![t] = "sync"] /\ UNCHANGED outcome
    BY <2>1, <2>2
  <2>3. CASE \E how \in Outcomes \ {"none"} : Finish(t, how)
    BY <2>1, <2>3
  <2>4. QED
    BY <1>5, <2>2, <2>3 DEF CheckSendDeadlockPossibility,
       CheckReadDeadlockPossibility, AfterCheck, HandleDeadlock
<1>6. ASSUME NEW t \in Threads, SyncAndOverflowPrework(t) PROVE Inv'
  BY <1>6 DEF SyncAndOverflowPrework, IsFull
<1>7. ASSUME NEW t \in Threads, TrySyncAndOverflowPrework(t) PROVE Inv'
  BY <1>7 DEF TrySyncAndOverflowPrework, IsFull
<1>8. ASSUME NEW t \in Threads, StoreMessage(t) PROVE Inv'
  BY <1>8 DEF StoreMessage
<1>9. ASSUME NEW t \in Threads, StoreMessageThrows(t) PROVE Inv'
  BY <1>9 DEF StoreMessageThrows
<1>10. ASSUME NEW t \in Threads, SendPostwork(t) PROVE Inv'
  BY <1>10 DEF SendPostwork
<1>11. ASSUME NEW t \in Threads, SyncAndUnderflowPrework(t) PROVE Inv'
  BY <1>11 DEF SyncAndUnderflowPrework, IsEmpty
<1>12. ASSUME NEW t \in Threads, TrySyncAndUnderflowPrework(t) PROVE Inv'
  BY <1>12 DEF TrySyncAndUnderflowPrework, IsEmpty
<1>13. ASSUME NEW t \in Threads, PopMessage(t) PROVE Inv'
  <2>1. PICK i \in DOMAIN heap : msg' = [msg EXCEPT ![t] = heap[i]] /\ heap' = RemoveAt(heap, i)
    BY <1>13 DEF PopMessage
  <2>2. heap' \in Seq(Messages) /\ Len(heap') + 1 = Len(heap) /\ heap[i] \in Messages
    BY <2>1, RemoveAtShorter
  <2>3. isHeap' \in BOOLEAN
    BY <1>13 DEF PopMessage
  <2>4. QED
    BY <1>13, <2>1, <2>2, <2>3 DEF PopMessage
<1>14. ASSUME NEW t \in Threads, PopMessageThrows(t) PROVE Inv'
  BY <1>14 DEF PopMessageThrows
<1>15. ASSUME NEW t \in Threads, ReadPostwork(t) PROVE Inv'
  BY <1>15 DEF ReadPostwork
<1>16. ASSUME NEW t \in Threads, NotifyOneNotFull(t) PROVE Inv'
  BY <1>16 DEF NotifyOneNotFull, NotifyOne, SleepingFull
<1>17. ASSUME NEW t \in Threads, NotifyOneNotEmpty(t) PROVE Inv'
  BY <1>17 DEF NotifyOneNotEmpty, NotifyOne, SleepingEmpty
<1>18. ASSUME NEW t \in Threads, SpuriousWakeup(t) PROVE Inv'
  BY <1>18 DEF SpuriousWakeup
<1>19. ASSUME NEW t \in Threads, Close(t) PROVE Inv'
  BY <1>19 DEF Close
<1>20. ASSUME NEW t \in Threads, CloseNotifyNotFull(t) PROVE Inv'
  BY <1>20 DEF CloseNotifyNotFull, NotifyAll, SleepingFull
<1>21. ASSUME NEW t \in Threads, CloseNotifyNotEmpty(t) PROVE Inv'
  BY <1>21 DEF CloseNotifyNotEmpty, NotifyAll, SleepingEmpty
<1>22. ASSUME NEW t \in Threads, Return(t), UNCHANGED dataVars PROVE Inv'
  BY <1>22 DEF Return
<1>23. QED
  BY <1>1, <1>2, <1>3, <1>4, <1>5, <1>6, <1>7, <1>8, <1>9, <1>10, <1>11, <1>12,
     <1>13, <1>14, <1>15, <1>16, <1>17, <1>18, <1>19, <1>20, <1>21, <1>22
  DEF Next, Call, Run, Leave

(* The priority queue's state stays well-typed, and its heap never         *)
(* outgrows the capacity, whatever the clients do.                         *)
THEOREM TypeCorrect == Spec => []TypeOK
<1>1. Inv => TypeOK
  BY DEF Inv
<1>2. QED
  BY InitInv, StepInv, <1>1, PTL DEF Spec

(* The mutex is released exactly once on every path of every call,         *)
(* exceptional ones included.                                              *)
THEOREM MutexCorrect == Spec => []MutexDiscipline
<1>1. Inv => MutexDiscipline
  BY DEF Inv
<1>2. QED
  BY InitInv, StepInv, <1>1, PTL DEF Spec

-----------------------------------------------------------------------------
(***************************************************************************)
(* Refinement.                                                             *)
(***************************************************************************)
LEMMA InitRefines == Init => Abstract!Init /\ (~isHeap) = FALSE
  BY DEF Init, CallInit, Abstract!Init

LEMMA StepRefines ==
  ASSUME Inv, [Next]_vars
  PROVE  [\E t \in Threads : Abstract!PriorityStep(t)]_(Abstract!priorityVars)
<1> USE CapacityAssumption, MessagesAssumption
    DEF Inv, TypeOK, CallTypeOK, MutexDiscipline, CallInv, RoomInv,
        Critical, SendOps, ReadOps, TryOps, IsFull, IsEmpty,
        Goto, Decide, Locked, Lock, Unlock, LockedBriefly, dataVars,
        Abstract!vars, Abstract!priorityVars
<1>1. CASE UNCHANGED vars
  BY <1>1 DEF vars, callVars
<1>2. ASSUME NEW t \in Threads, CallSend(t), UNCHANGED dataVars
      PROVE  Abstract!Invoke(t) /\ UNCHANGED isHeap
  BY <1>2 DEF CallSend, Enter, AccountThreads, RoleAccepted, Finish,
     Abstract!Invoke, Abstract!Decide, Abstract!SendOps
<1>3. ASSUME NEW t \in Threads, CallRead(t), UNCHANGED dataVars
      PROVE  Abstract!Invoke(t) /\ UNCHANGED isHeap
  <2>1. UNCHANGED msg
    <3>1. pc[t] = "idle" /\ msg' = [msg EXCEPT ![t] = NoMessage]
      BY <1>3 DEF CallRead, Enter
    <3>2. QED
      BY <3>1
  <2>2. PICK o \in ReadOps : op' = [op EXCEPT ![t] = o] /\ op[t] = "none"
    BY <1>3 DEF CallRead, Enter
  <2>3. QED
    BY <1>3, <2>1, <2>2 DEF CallRead, AccountThreads, RoleAccepted, Finish,
       Abstract!Invoke, Abstract!Decide, Abstract!ReadOps
<1>4. ASSUME NEW t \in Threads, CallClose(t), UNCHANGED dataVars
      PROVE  Abstract!Invoke(t) /\ UNCHANGED isHeap
  BY <1>4 DEF CallClose, Enter, Abstract!Invoke, Abstract!ReadOps
<1>5. ASSUME NEW t \in Threads,
             CheckSendDeadlockPossibility(t) \/ CheckReadDeadlockPossibility(t)
      PROVE  (Abstract!Refuse(t) \/ UNCHANGED Abstract!vars) /\ UNCHANGED isHeap
  BY <1>5 DEF CheckSendDeadlockPossibility, CheckReadDeadlockPossibility, AfterCheck,
     HandleDeadlock, Finish, Abstract!Refuse, Abstract!Running, Abstract!MayRefuse,
     Abstract!Decide, Abstract!Full, Abstract!Empty, Abstract!SendOps, Abstract!ReadOps
<1>6. ASSUME NEW t \in Threads,
             SyncAndOverflowPrework(t) \/ TrySyncAndOverflowPrework(t)
      PROVE  (Abstract!Refuse(t) \/ UNCHANGED Abstract!vars) /\ UNCHANGED isHeap
  BY <1>6 DEF SyncAndOverflowPrework, TrySyncAndOverflowPrework, Finish,
     Abstract!Refuse, Abstract!Running, Abstract!MayRefuse,
     Abstract!Decide, Abstract!Full, Abstract!Empty, Abstract!SendOps, Abstract!ReadOps
<1>7. ASSUME NEW t \in Threads,
             SyncAndUnderflowPrework(t) \/ TrySyncAndUnderflowPrework(t)
      PROVE  (Abstract!Refuse(t) \/ UNCHANGED Abstract!vars) /\ UNCHANGED isHeap
  BY <1>7 DEF SyncAndUnderflowPrework, TrySyncAndUnderflowPrework, Finish,
     Abstract!Refuse, Abstract!Running, Abstract!MayRefuse,
     Abstract!Decide, Abstract!Full, Abstract!Empty, Abstract!SendOps, Abstract!ReadOps
<1>8. ASSUME NEW t \in Threads, StoreMessage(t)
      PROVE  Abstract!Put(t) /\ UNCHANGED isHeap
  BY <1>8 DEF StoreMessage, Abstract!Put, Abstract!Running, Abstract!Full,
     Abstract!Decide, Abstract!SendOps
<1>9. ASSUME NEW t \in Threads, StoreMessageThrows(t)
      PROVE  Abstract!Refuse(t) /\ UNCHANGED isHeap
  BY <1>9 DEF StoreMessageThrows, Finish, Abstract!Refuse, Abstract!Running,
     Abstract!MayRefuse, Abstract!Decide, Abstract!SendOps, Abstract!ReadOps
<1>10. ASSUME NEW t \in Threads, PopMessage(t)
       PROVE  Abstract!TakeSoonest(t)
  <2>1. PICK i \in DOMAIN heap :
          /\ isHeap => IsMinimum(i)
          /\ msg' = [msg EXCEPT ![t] = heap[i]]
          /\ heap' = RemoveAt(heap, i)
    BY <1>10 DEF PopMessage
  <2>2. IsMinimum(i) <=> Abstract!IsSoonest(i, heap)
    BY DEF IsMinimum, Abstract!IsSoonest
  <2>3. Len(heap') \in Nat
    BY <2>1, RemoveAtShorter
  <2>4. (~isHeap)' = (~isHeap /\ Len(heap') > 1)
    <3>1. Len(heap') <= 1 <=> ~(Len(heap') > 1)
      BY <2>3
    <3>2. isHeap' = (isHeap \/ Len(heap') <= 1)
      BY <1>10 DEF PopMessage
    <3>3. QED
      BY <3>1, <3>2, Zenon
  <2>5. Abstract!Running(t) /\ op[t] \in Abstract!ReadOps /\ Abstract!Decide(t, "returned")
        /\ UNCHANGED <<closed, op>>
    BY <1>10 DEF PopMessage, Abstract!Running, Abstract!ReadOps, Abstract!Decide
  <2>6. QED
    <3>1. ~isHeap \/ Abstract!IsSoonest(i, heap)
      BY <2>1, <2>2
    <3>2. \E j \in DOMAIN heap :
            /\ ~isHeap \/ Abstract!IsSoonest(j, heap)
            /\ heap' = Abstract!RemoveAt(heap, j)
            /\ msg' = [msg EXCEPT ![t] = heap[j]]
      BY ONLY <2>1, <3>1, Zenon DEF RemoveAt, Abstract!RemoveAt
    <3>3. QED
      BY ONLY <2>4, <2>5, <3>2, Zenon DEF Abstract!TakeSoonest
<1>11. ASSUME NEW t \in Threads, PopMessageThrows(t)
       PROVE  Abstract!FailHalfway(t)
  <2>1. Len(heap) \in Nat
    OBVIOUS
  <2>2. (~isHeap)' = (~isHeap \/ Len(heap) > 1)
    <3>1. Len(heap) <= 1 <=> ~(Len(heap) > 1)
      BY <2>1
    <3>2. isHeap' = (isHeap /\ Len(heap) <= 1)
      BY <1>11 DEF PopMessageThrows
    <3>3. QED
      BY <3>1, <3>2, Zenon
  <2>3. QED
    BY <1>11, <2>2 DEF PopMessageThrows, Finish, Abstract!FailHalfway,
       Abstract!Running, Abstract!Decide, Abstract!ReadOps
<1>12. ASSUME NEW t \in Threads,
              \/ SendPostwork(t) \/ ReadPostwork(t) \/ SpuriousWakeup(t)
              \/ NotifyOneNotFull(t) \/ NotifyOneNotEmpty(t)
              \/ CloseNotifyNotFull(t) \/ CloseNotifyNotEmpty(t)
       PROVE  UNCHANGED Abstract!priorityVars
  BY <1>12 DEF SendPostwork, ReadPostwork, SpuriousWakeup, NotifyOneNotFull,
     NotifyOneNotEmpty, CloseNotifyNotFull, CloseNotifyNotEmpty
<1>13. ASSUME NEW t \in Threads, Close(t)
       PROVE  Abstract!Close(t) /\ UNCHANGED isHeap
  BY <1>13 DEF Close, Abstract!Close, Abstract!Running, Abstract!Decide
<1>14. ASSUME NEW t \in Threads, Return(t), UNCHANGED dataVars
       PROVE  Abstract!Return(t) /\ UNCHANGED isHeap
  BY <1>14 DEF Return, Abstract!Return, Abstract!Decide
<1>15. QED
  BY <1>1, <1>2, <1>3, <1>4, <1>5, <1>6, <1>7, <1>8, <1>9, <1>10, <1>11, <1>12,
     <1>13, <1>14
  DEF Next, Call, Run, Leave, Abstract!PriorityStep

(* Every execution of the priority queue is one of the bounded priority    *)
(* queue: minimum first, first come first served within a priority, until  *)
(* a throwing move disturbs the order, and refusals that are true.         *)
THEOREM Refinement == Spec => ImplementsPriorityQueue
<1>1. Inv /\ [Next]_vars =>
        [\E t \in Threads : Abstract!PriorityStep(t)]_(Abstract!priorityVars)
  BY StepRefines
<1>2. QED
  BY InitInv, StepInv, InitRefines, <1>1, PTL
  DEF Spec, ImplementsPriorityQueue, Abstract!PrioritySpec

-----------------------------------------------------------------------------
(***************************************************************************)
(* No wakeup is lost while nothing has thrown.  The argument is that of    *)
(* the deque queue, but a slot is taken by the store and freed by the pop  *)
(* itself, not by the preworks: a sender competes until it has stored, and *)
(* a reader is bound to notify from its pop on.                            *)
(***************************************************************************)
FreeSlots == Capacity - Len(heap)

LEMMA FreeSlotsType == Inv => FreeSlots \in Nat /\ Len(heap) \in Nat
  BY CapacityAssumption DEF Inv, TypeOK, FreeSlots

LEMMA WakingFinite ==
  /\ IsFiniteSet(WakingSenders) /\ IsFiniteSet(WakingReaders)
  /\ IsFiniteSet(WakingSenders') /\ IsFiniteSet(WakingReaders')
<1>1. \A S \in SUBSET Threads : IsFiniteSet(S)
  BY ThreadsAssumption, FS_Subset
<1>2. QED
  BY <1>1 DEF WakingSenders, WakingReaders

(* A pop frees a slot, a store fills one. *)
LEMMA StoreAndPop ==
  ASSUME Inv, NEW t \in Threads
  PROVE  /\ StoreMessage(t) =>
              Len(heap') = Len(heap) + 1 /\ FreeSlots' \in Nat /\ FreeSlots' + 1 = FreeSlots
         /\ PopMessage(t) =>
              Len(heap') \in Nat /\ Len(heap') + 1 = Len(heap) /\ FreeSlots' = FreeSlots + 1
<1>1. ASSUME StoreMessage(t)
      PROVE  Len(heap') = Len(heap) + 1 /\ FreeSlots' \in Nat /\ FreeSlots' + 1 = FreeSlots
  <2>1. Len(heap') = Len(heap) + 1 /\ Len(heap) < Capacity /\ Len(heap) \in Nat
    BY <1>1 DEF StoreMessage, Inv, TypeOK, RoomInv, CallInv, CallTypeOK, SendOps
  <2>2. QED
    BY <2>1, CapacityAssumption DEF FreeSlots
<1>2. ASSUME PopMessage(t)
      PROVE  Len(heap') \in Nat /\ Len(heap') + 1 = Len(heap) /\ FreeSlots' = FreeSlots + 1
  <2>1. PICK i \in DOMAIN heap : heap' = RemoveAt(heap, i)
    BY <1>2 DEF PopMessage
  <2>2. heap' \in Seq(Messages) /\ Len(heap') + 1 = Len(heap)
    BY <2>1, RemoveAtShorter DEF Inv, TypeOK
  <2>3. Len(heap') \in Nat
    BY <2>2
  <2>4. QED
    BY <2>2, <2>3, CapacityAssumption DEF FreeSlots
<1>3. QED
  BY <1>1, <1>2

(* The senders' side. *)
LEMMA SendersCovered ==
  ASSUME Inv, NoLostWakeup, [Next]_vars, ~thrown', ~closed', SleepingFull' # {}
  PROVE  Covered(FreeSlots', WakingSenders')
<1> USE DEF Inv, TypeOK, CallTypeOK, MutexDiscipline, CallInv, Labels, Critical,
            SendOps, ReadOps, TryOps, Ops, SleepingFull, WakingSenders,
            Goto, Finish, Decide, Locked, Lock, Unlock, LockedBriefly, dataVars
<1>0. FreeSlots \in Nat
  BY FreeSlotsType
<1>a. ASSUME ~thrown, ~closed, SleepingFull # {} PROVE Covered(FreeSlots, WakingSenders)
  BY <1>a DEF NoLostWakeup, Covered, FreeSlots
<1>1. ASSUME UNCHANGED <<heap, closed, thrown>>, SleepingFull' \subseteq SleepingFull,
             WakingSenders \subseteq WakingSenders'
      PROVE  Covered(FreeSlots', WakingSenders')
  <2>1. FreeSlots' = FreeSlots /\ Covered(FreeSlots, WakingSenders)
    BY <1>1, <1>a DEF FreeSlots
  <2>2. QED
    BY <1>0, <1>1, <2>1, WakingFinite, CoverKept
<1>2. ASSUME IsFull, UNCHANGED heap PROVE Covered(FreeSlots', WakingSenders')
  <2>1. FreeSlots' = 0
    BY <1>0, <1>2, CapacityAssumption DEF FreeSlots, IsFull
  <2>2. QED
    BY <2>1, WakingFinite, CoverNone
<1>3. ASSUME NEW t \in Threads, PopMessage(t)
      PROVE  Covered(FreeSlots', WakingSenders')
  <2>0. UNCHANGED <<closed, thrown>> /\ SleepingFull' \subseteq SleepingFull
    BY <1>3 DEF PopMessage
  <2>1. FreeSlots' = FreeSlots + 1 /\ Covered(FreeSlots, WakingSenders)
    BY <1>3, <1>a, <2>0, StoreAndPop
  <2>2. t \in WakingSenders' /\ t \notin WakingSenders
    BY <1>3 DEF PopMessage
  <2>3. WakingSenders \subseteq WakingSenders'
    BY <1>3 DEF PopMessage
  <2>4. QED
    BY <1>0, <2>1, <2>2, <2>3, WakingFinite, CoverGrows
<1>4. ASSUME NEW t \in Threads, StoreMessage(t)
      PROVE  Covered(FreeSlots', WakingSenders')
  <2>1. FreeSlots' \in Nat /\ FreeSlots' + 1 = FreeSlots
    BY <1>4, StoreAndPop
  <2>2. Covered(FreeSlots, WakingSenders)
    BY <1>4, <1>a DEF StoreMessage
  <2>3. WakingSenders \ {t} \subseteq WakingSenders'
    BY <1>4 DEF StoreMessage
  <2>4. QED
    BY <2>1, <2>2, <2>3, WakingFinite, CoverShrinks
<1>5. ASSUME NEW t \in Threads, NotifyOneNotFull(t)
      PROVE  Covered(FreeSlots', WakingSenders')
  <2>1. PICK s \in SleepingFull : pc' = [pc EXCEPT ![t] = "return", ![s] = "sync"]
    BY <1>5 DEF NotifyOneNotFull, NotifyOne
  <2>2. FreeSlots' = FreeSlots /\ Covered(FreeSlots, WakingSenders)
    BY <1>5, <1>a, <2>1 DEF FreeSlots, NotifyOneNotFull
  <2>3. s \in WakingSenders' /\ s \notin WakingSenders
    BY <1>5, <2>1 DEF NotifyOneNotFull
  <2>4. WakingSenders \ {t} \subseteq WakingSenders'
    BY <1>5, <2>1 DEF NotifyOneNotFull
  <2>5. QED
    BY <1>0, <2>2, <2>3, <2>4, WakingFinite, CoverMoves
<1>6. CASE UNCHANGED vars
  BY <1>1, <1>6 DEF vars, callVars
<1>7. ASSUME NEW t \in Threads, Call(t) PROVE Covered(FreeSlots', WakingSenders')
  BY <1>1, <1>7 DEF Call, CallSend, CallRead, CallClose, Enter, AccountThreads
<1>8. ASSUME NEW t \in Threads,
             CheckSendDeadlockPossibility(t) \/ CheckReadDeadlockPossibility(t)
      PROVE  Covered(FreeSlots', WakingSenders')
  BY <1>1, <1>8 DEF CheckSendDeadlockPossibility, CheckReadDeadlockPossibility,
                    AfterCheck, HandleDeadlock
<1>9. ASSUME NEW t \in Threads,
             SyncAndOverflowPrework(t) \/ TrySyncAndOverflowPrework(t)
      PROVE  Covered(FreeSlots', WakingSenders')
  BY <1>1, <1>2, <1>9 DEF SyncAndOverflowPrework, TrySyncAndOverflowPrework
<1>10. ASSUME NEW t \in Threads,
              SyncAndUnderflowPrework(t) \/ TrySyncAndUnderflowPrework(t)
       PROVE  Covered(FreeSlots', WakingSenders')
  BY <1>1, <1>10 DEF SyncAndUnderflowPrework, TrySyncAndUnderflowPrework
<1>11. ASSUME NEW t \in Threads,
              \/ SendPostwork(t) \/ ReadPostwork(t) \/ SpuriousWakeup(t) \/ Leave(t)
              \/ NotifyOneNotEmpty(t) \/ CloseNotifyNotFull(t)
              \/ CloseNotifyNotEmpty(t)
       PROVE  Covered(FreeSlots', WakingSenders')
  BY <1>1, <1>11 DEF SendPostwork, ReadPostwork, SpuriousWakeup, Leave, Return,
     NotifyOneNotEmpty, NotifyOne, CloseNotifyNotFull, CloseNotifyNotEmpty,
     NotifyAll, SleepingEmpty
<1>12. ASSUME NEW t \in Threads,
              StoreMessageThrows(t) \/ PopMessageThrows(t) \/ Close(t)
       PROVE  FALSE
  BY <1>12 DEF StoreMessageThrows, PopMessageThrows, Close
<1>13. QED
  BY <1>3, <1>4, <1>5, <1>6, <1>7, <1>8, <1>9, <1>10, <1>11, <1>12 DEF Next, Run

(* The readers' side: the same argument for the messages. *)
LEMMA ReadersCovered ==
  ASSUME Inv, NoLostWakeup, [Next]_vars, ~thrown', ~closed', SleepingEmpty' # {}
  PROVE  Covered(Len(heap'), WakingReaders')
<1> USE DEF Inv, TypeOK, CallTypeOK, MutexDiscipline, CallInv, Labels, Critical,
            SendOps, ReadOps, TryOps, Ops, SleepingEmpty, WakingReaders,
            Goto, Finish, Decide, Locked, Lock, Unlock, LockedBriefly, dataVars
<1>0. Len(heap) \in Nat
  BY FreeSlotsType
<1>a. ASSUME ~thrown, ~closed, SleepingEmpty # {} PROVE Covered(Len(heap), WakingReaders)
  BY <1>a DEF NoLostWakeup, Covered
<1>1. ASSUME UNCHANGED <<heap, closed, thrown>>, SleepingEmpty' \subseteq SleepingEmpty,
             WakingReaders \subseteq WakingReaders'
      PROVE  Covered(Len(heap'), WakingReaders')
  <2>1. Len(heap') = Len(heap) /\ Covered(Len(heap), WakingReaders)
    BY <1>1, <1>a
  <2>2. QED
    BY <1>0, <1>1, <2>1, WakingFinite, CoverKept
<1>2. ASSUME IsEmpty, UNCHANGED heap PROVE Covered(Len(heap'), WakingReaders')
  <2>1. Len(heap') = 0
    BY <1>2 DEF IsEmpty
  <2>2. QED
    BY <2>1, WakingFinite, CoverNone
<1>3. ASSUME NEW t \in Threads, StoreMessage(t)
      PROVE  Covered(Len(heap'), WakingReaders')
  <2>1. Len(heap') = Len(heap) + 1 /\ Covered(Len(heap), WakingReaders)
    BY <1>3, <1>a, StoreAndPop DEF StoreMessage
  <2>2. t \in WakingReaders' /\ t \notin WakingReaders
    BY <1>3 DEF StoreMessage
  <2>3. WakingReaders \subseteq WakingReaders'
    BY <1>3 DEF StoreMessage
  <2>4. Covered(Len(heap) + 1, WakingReaders')
    BY <1>0, <2>1, <2>2, <2>3, WakingFinite, CoverGrows
  <2>5. QED
    BY <2>1, <2>4
<1>4. ASSUME NEW t \in Threads, PopMessage(t)
      PROVE  Covered(Len(heap'), WakingReaders')
  <2>1. Len(heap') \in Nat /\ Len(heap') + 1 = Len(heap)
    BY <1>4, StoreAndPop
  <2>2. Covered(Len(heap), WakingReaders)
    BY <1>4, <1>a DEF PopMessage
  <2>3. WakingReaders \ {t} \subseteq WakingReaders'
    BY <1>4 DEF PopMessage
  <2>4. \A n \in Nat : n + 1 = Len(heap) => Covered(n, WakingReaders')
    <3> SUFFICES ASSUME NEW n \in Nat, n + 1 = Len(heap) PROVE Covered(n, WakingReaders')
      OBVIOUS
    <3>1. Covered(n + 1, WakingReaders)
      BY <2>2
    <3>2. QED
      BY <2>3, <3>1, WakingFinite, CoverShrinks
  <2>5. QED
    BY <2>1, <2>4
<1>5. ASSUME NEW t \in Threads, NotifyOneNotEmpty(t)
      PROVE  Covered(Len(heap'), WakingReaders')
  <2>1. PICK s \in SleepingEmpty : pc' = [pc EXCEPT ![t] = "return", ![s] = "sync"]
    BY <1>5 DEF NotifyOneNotEmpty, NotifyOne
  <2>2. Len(heap') = Len(heap) /\ Covered(Len(heap), WakingReaders)
    BY <1>5, <1>a, <2>1 DEF NotifyOneNotEmpty
  <2>3. s \in WakingReaders' /\ s \notin WakingReaders
    BY <1>5, <2>1 DEF NotifyOneNotEmpty
  <2>4. WakingReaders \ {t} \subseteq WakingReaders'
    BY <1>5, <2>1 DEF NotifyOneNotEmpty
  <2>5. QED
    BY <1>0, <2>2, <2>3, <2>4, WakingFinite, CoverMoves
<1>6. CASE UNCHANGED vars
  BY <1>1, <1>6 DEF vars, callVars
<1>7. ASSUME NEW t \in Threads, Call(t) PROVE Covered(Len(heap'), WakingReaders')
  BY <1>1, <1>7 DEF Call, CallSend, CallRead, CallClose, Enter, AccountThreads
<1>8. ASSUME NEW t \in Threads,
             CheckSendDeadlockPossibility(t) \/ CheckReadDeadlockPossibility(t)
      PROVE  Covered(Len(heap'), WakingReaders')
  BY <1>1, <1>8 DEF CheckSendDeadlockPossibility, CheckReadDeadlockPossibility,
                    AfterCheck, HandleDeadlock
<1>9. ASSUME NEW t \in Threads,
             SyncAndUnderflowPrework(t) \/ TrySyncAndUnderflowPrework(t)
      PROVE  Covered(Len(heap'), WakingReaders')
  BY <1>1, <1>2, <1>9 DEF SyncAndUnderflowPrework, TrySyncAndUnderflowPrework
<1>10. ASSUME NEW t \in Threads,
              SyncAndOverflowPrework(t) \/ TrySyncAndOverflowPrework(t)
       PROVE  Covered(Len(heap'), WakingReaders')
  BY <1>1, <1>10 DEF SyncAndOverflowPrework, TrySyncAndOverflowPrework
<1>11. ASSUME NEW t \in Threads,
              \/ SendPostwork(t) \/ ReadPostwork(t) \/ SpuriousWakeup(t) \/ Leave(t)
              \/ NotifyOneNotFull(t) \/ CloseNotifyNotFull(t)
              \/ CloseNotifyNotEmpty(t)
       PROVE  Covered(Len(heap'), WakingReaders')
  BY <1>1, <1>11 DEF SendPostwork, ReadPostwork, SpuriousWakeup, Leave, Return,
     NotifyOneNotFull, NotifyOne, CloseNotifyNotFull, CloseNotifyNotEmpty,
     NotifyAll, SleepingFull
<1>12. ASSUME NEW t \in Threads,
              StoreMessageThrows(t) \/ PopMessageThrows(t) \/ Close(t)
       PROVE  FALSE
  BY <1>12 DEF StoreMessageThrows, PopMessageThrows, Close
<1>13. QED
  BY <1>3, <1>4, <1>5, <1>6, <1>7, <1>8, <1>9, <1>10, <1>11, <1>12 DEF Next, Run

(* A sleeper on a closed queue still has a notify_all of Close to come.    *)
LEMMA ClosedSleepers ==
  ASSUME Inv, NoLostWakeup, [Next]_vars, ~thrown', closed'
  PROVE  /\ SleepingFull' # {} => \E t \in Threads : pc'[t] = "closeNotifyFull"
         /\ SleepingEmpty' # {} =>
              \E t \in Threads : pc'[t] \in {"closeNotifyFull", "closeNotifyEmpty"}
<1> DEFINE NotClosing(t) == pc[t] \notin {"closeNotifyFull", "closeNotifyEmpty"}
           Goal == /\ SleepingFull' # {} => \E t \in Threads : pc'[t] = "closeNotifyFull"
                   /\ SleepingEmpty' # {} => \E t \in Threads :
                        pc'[t] \in {"closeNotifyFull", "closeNotifyEmpty"}
<1> USE DEF Inv, TypeOK, CallTypeOK, Labels, Critical, SleepingFull, SleepingEmpty,
            Goto, Finish, dataVars
<1>1. ASSUME NEW t \in Threads, NEW l \in Labels \ {"waitFull", "waitEmpty"},
             UNCHANGED <<closed, thrown>>, NotClosing(t), pc' = [pc EXCEPT ![t] = l]
      PROVE  Goal
  BY <1>1 DEF NoLostWakeup
<1>2. CASE UNCHANGED <<pc, closed, thrown>>
  BY <1>2 DEF NoLostWakeup
<1>3. ASSUME NEW t \in Threads, Call(t) PROVE Goal
  BY <1>1, <1>3 DEF Call, CallSend, CallRead, CallClose, Enter, AccountThreads
<1>4. ASSUME NEW t \in Threads,
             CheckSendDeadlockPossibility(t) \/ CheckReadDeadlockPossibility(t)
      PROVE  Goal
  BY <1>1, <1>4 DEF CheckSendDeadlockPossibility, CheckReadDeadlockPossibility,
                    AfterCheck, HandleDeadlock
<1>5. ASSUME NEW t \in Threads,
             SyncAndOverflowPrework(t) \/ TrySyncAndOverflowPrework(t)
      PROVE  Goal
  BY <1>1, <1>5 DEF SyncAndOverflowPrework, TrySyncAndOverflowPrework
<1>6. ASSUME NEW t \in Threads,
             SyncAndUnderflowPrework(t) \/ TrySyncAndUnderflowPrework(t)
      PROVE  Goal
  BY <1>1, <1>6 DEF SyncAndUnderflowPrework, TrySyncAndUnderflowPrework
<1>7. ASSUME NEW t \in Threads,
             \/ StoreMessage(t) \/ StoreMessageThrows(t) \/ SendPostwork(t)
             \/ PopMessage(t) \/ PopMessageThrows(t) \/ ReadPostwork(t)
      PROVE  Goal
  BY <1>1, <1>7 DEF StoreMessage, StoreMessageThrows, SendPostwork,
                    PopMessage, PopMessageThrows, ReadPostwork
<1>8. ASSUME NEW t \in Threads, SpuriousWakeup(t) \/ Leave(t) PROVE Goal
  BY <1>1, <1>8 DEF SpuriousWakeup, Leave, Return
<1>9. ASSUME NEW t \in Threads, NotifyOneNotFull(t) \/ NotifyOneNotEmpty(t)
      PROVE  Goal
  BY <1>1, <1>9 DEF NotifyOneNotFull, NotifyOneNotEmpty, NotifyOne, NoLostWakeup
<1>10. ASSUME NEW t \in Threads, Close(t) PROVE Goal
  <2>1. pc'[t] = "closeNotifyFull"
    BY <1>10 DEF Close
  <2>2. QED
    BY <2>1
<1>11. ASSUME NEW t \in Threads, CloseNotifyNotFull(t) PROVE Goal
  BY <1>11 DEF CloseNotifyNotFull, NotifyAll
<1>12. ASSUME NEW t \in Threads, CloseNotifyNotEmpty(t) PROVE Goal
  BY <1>12 DEF CloseNotifyNotEmpty, NotifyAll, NoLostWakeup
<1>13. QED
  BY <1>2, <1>3, <1>4, <1>5, <1>6, <1>7, <1>8, <1>9, <1>10, <1>11, <1>12
  DEF Next, Run, vars, callVars

(* As long as no constructor has thrown, no interleaving of sends, reads,  *)
(* closes and spurious wakeups leaves a thread asleep with nobody bound to *)
(* wake it.                                                                *)
THEOREM WakeupCorrect == Spec => []NoLostWakeup
<1>1. Init => NoLostWakeup
  BY DEF Init, CallInit, NoLostWakeup, SleepingFull, SleepingEmpty
<1>2. Inv /\ NoLostWakeup /\ [Next]_vars => NoLostWakeup'
  <2> SUFFICES ASSUME Inv, NoLostWakeup, [Next]_vars PROVE NoLostWakeup'
    OBVIOUS
  <2>1. ~thrown' /\ ~closed' /\ SleepingFull' # {} =>
          Capacity - Len(heap') <= Cardinality(WakingSenders')
    BY SendersCovered DEF Covered, FreeSlots
  <2>2. ~thrown' /\ ~closed' /\ SleepingEmpty' # {} =>
          Len(heap') <= Cardinality(WakingReaders')
    BY ReadersCovered DEF Covered
  <2>3. QED
    BY <2>1, <2>2, ClosedSleepers DEF NoLostWakeup
<1>3. QED
  BY InitInv, StepInv, <1>1, <1>2, PTL DEF Spec
=============================================================================
