------------------ MODULE DequeBoundedMessageQueue_proofs ------------------
(***************************************************************************)
(* Proofs about DequeBoundedMessageQueue for every number of threads,      *)
(* every capacity, set of messages, category and policy.                   *)
(***************************************************************************)
EXTENDS DequeBoundedMessageQueue, Covering

(* The local state of a call: which operation is where, and what it holds. *)
CallInv ==
  \A t \in Threads :
    /\ pc[t] = "idle" <=> op[t] = "none"
    /\ pc[t] = "idle" => msg[t] = NoMessage /\ outcome[t] = "none"
    /\ pc[t] \in {"check", "sync"} => op[t] \in SendOps \cup ReadOps
    /\ pc[t] = "waitFull" => op[t] = "Send"
    /\ pc[t] = "waitEmpty" => op[t] = "Read"
    /\ pc[t] = "store" => op[t] \in SendOps
    /\ pc[t] = "pop" => op[t] \in ReadOps
    /\ pc[t] = "close" => op[t] = "Close"
    /\ pc[t] \in {"check", "sync", "waitFull", "store"} /\ op[t] \in SendOps
         => msg[t] \in Messages
    /\ pc[t] \in {"check", "sync", "waitFull", "waitEmpty", "store", "pop", "close"}
         => outcome[t] = "none"
    /\ pc[t] \in {"sendPostwork", "readPostwork", "notifyFull", "notifyEmpty",
                  "closeNotifyFull", "closeNotifyEmpty", "return"}
         => outcome[t] # "none"

Inv == TypeOK /\ MutexDiscipline /\ SlotAccounting /\ CallInv

LEMMA InitInv == Init => Inv
<1> SUFFICES ASSUME Init PROVE Inv
  OBVIOUS
<1> USE ThreadsAssumption, CapacityAssumption DEF Init, CallInit
<1>1. TypeOK
  <2>1. CallTypeOK(Labels)
    BY DEF CallTypeOK, Roles, Labels, Ops, Outcomes
  <2>2. buffer \in Seq(Messages)
    OBVIOUS
  <2>3. closed \in BOOLEAN
    OBVIOUS
  <2>4. free \in 0..Capacity /\ used \in 0..Capacity /\ mutex \in Threads \cup {NoThread}
    OBVIOUS
  <2>5. QED
    BY <2>1, <2>2, <2>3, <2>4 DEF TypeOK
<1>2. MutexDiscipline
  BY DEF MutexDiscipline, Locked, Critical
<1>3. SlotAccounting
  BY DEF SlotAccounting
<1>4. CallInv
  BY DEF CallInv
<1>5. QED
  BY <1>1, <1>2, <1>3, <1>4 DEF Inv

LEMMA StepInv == Inv /\ [Next]_vars => Inv'
<1> SUFFICES ASSUME Inv, [Next]_vars PROVE Inv'
  OBVIOUS
<1> USE ThreadsAssumption, CapacityAssumption, MessagesAssumption
    DEF Inv, TypeOK, CallTypeOK, MutexDiscipline, SlotAccounting, CallInv,
        Roles, Labels, Critical, Ops, SendOps, ReadOps, TryOps, Outcomes,
        Goto, Decide, Finish, Locked, Lock, Unlock, LockedBriefly, dataVars
<1>1. CASE UNCHANGED vars
  BY <1>1 DEF vars, callVars
<1>2. ASSUME NEW t \in Threads, CallSend(t), UNCHANGED dataVars PROVE Inv'
  BY <1>2 DEF CallSend, Enter, AccountThreads, RoleAccepted
<1>3. ASSUME NEW t \in Threads, CallRead(t), UNCHANGED dataVars PROVE Inv'
  BY <1>3 DEF CallRead, Enter, AccountThreads, RoleAccepted
<1>4. ASSUME NEW t \in Threads, CallClose(t), UNCHANGED dataVars PROVE Inv'
  BY <1>4 DEF CallClose, Enter
<1>5. ASSUME NEW t \in Threads, CheckSendDeadlockPossibility(t) PROVE Inv'
  <2>1. CASE pc' = [pc EXCEPT ![t] = "sync"] /\ UNCHANGED outcome
    BY <1>5, <2>1 DEF CheckSendDeadlockPossibility, CheckDeadlock, AfterCheck
  <2>2. CASE pc' = [pc EXCEPT ![t] = "return"]
    BY <1>5, <2>2 DEF CheckSendDeadlockPossibility, CheckDeadlock, AfterCheck,
       HandleDeadlock
  <2>3. QED
    BY <1>5, <2>1, <2>2 DEF CheckSendDeadlockPossibility, CheckDeadlock,
       AfterCheck, HandleDeadlock
<1>6. ASSUME NEW t \in Threads, CheckReadDeadlockPossibility(t) PROVE Inv'
  BY <1>6 DEF CheckReadDeadlockPossibility, CheckDeadlock, AfterCheck,
     HandleDeadlock
<1>7. ASSUME NEW t \in Threads, SyncAndOverflowPrework(t) PROVE Inv'
  <2>1. CASE TakeSlot(t)
    BY <1>7, <2>1 DEF SyncAndOverflowPrework, TakeSlot, SlotFree
  <2>2. CASE LockedBriefly /\ Finish(t, "closed") /\ UNCHANGED free
    BY <1>7, <2>2 DEF SyncAndOverflowPrework
  <2>3. CASE LockedBriefly /\ Goto(t, "waitFull") /\ UNCHANGED <<outcome, free>>
    BY <1>7, <2>3 DEF SyncAndOverflowPrework
  <2>4. QED
    BY ONLY <1>7, <2>1, <2>2, <2>3 DEF SyncAndOverflowPrework
<1>8. ASSUME NEW t \in Threads, TrySyncAndOverflowPrework(t) PROVE Inv'
  <2>1. CASE TakeSlot(t)
    BY <1>8, <2>1 DEF TrySyncAndOverflowPrework, TakeSlot, SlotFree
  <2>2. CASE LockedBriefly /\ Finish(t, "false") /\ UNCHANGED free
    BY <1>8, <2>2 DEF TrySyncAndOverflowPrework
  <2>3. QED
    BY ONLY <1>8, <2>1, <2>2 DEF TrySyncAndOverflowPrework
<1>9. ASSUME NEW t \in Threads, StoreMessage(t) PROVE Inv'
  BY <1>9 DEF StoreMessage
<1>10. ASSUME NEW t \in Threads, StoreMessageThrows(t) PROVE Inv'
  BY <1>10 DEF StoreMessageThrows
<1>11. ASSUME NEW t \in Threads, SendPostwork(t) PROVE Inv'
  BY <1>11 DEF SendPostwork
<1>12. ASSUME NEW t \in Threads, SyncAndUnderflowPrework(t) PROVE Inv'
  <2>1. CASE TakeMessage(t)
    BY <1>12, <2>1 DEF SyncAndUnderflowPrework, TakeMessage
  <2>2. CASE LockedBriefly /\ Finish(t, "closed") /\ UNCHANGED used
    BY <1>12, <2>2 DEF SyncAndUnderflowPrework
  <2>3. CASE LockedBriefly /\ Goto(t, "waitEmpty") /\ UNCHANGED <<outcome, used>>
    BY <1>12, <2>3 DEF SyncAndUnderflowPrework
  <2>4. QED
    BY ONLY <1>12, <2>1, <2>2, <2>3 DEF SyncAndUnderflowPrework
<1>13. ASSUME NEW t \in Threads, TrySyncAndUnderflowPrework(t) PROVE Inv'
  <2>1. CASE TakeMessage(t)
    BY <1>13, <2>1 DEF TrySyncAndUnderflowPrework, TakeMessage
  <2>2. CASE LockedBriefly /\ Finish(t, "false") /\ UNCHANGED used
    BY <1>13, <2>2 DEF TrySyncAndUnderflowPrework
  <2>3. QED
    BY ONLY <1>13, <2>1, <2>2 DEF TrySyncAndUnderflowPrework
<1>14. ASSUME NEW t \in Threads, PopMessage(t) PROVE Inv'
  BY <1>14 DEF PopMessage
<1>15. ASSUME NEW t \in Threads, PopMessageThrows(t) PROVE Inv'
  BY <1>15 DEF PopMessageThrows
<1>16. ASSUME NEW t \in Threads, ReadPostwork(t) PROVE Inv'
  BY <1>16 DEF ReadPostwork
<1>17. ASSUME NEW t \in Threads, TryReadCopyThrows(t) PROVE Inv'
  BY <1>17 DEF TryReadCopyThrows
<1>18. ASSUME NEW t \in Threads, NotifyOneNotFull(t) PROVE Inv'
  BY <1>18 DEF NotifyOneNotFull, NotifyOne, SleepingFull
<1>19. ASSUME NEW t \in Threads, NotifyOneNotEmpty(t) PROVE Inv'
  BY <1>19 DEF NotifyOneNotEmpty, NotifyOne, SleepingEmpty
<1>20. ASSUME NEW t \in Threads, SpuriousWakeup(t) PROVE Inv'
  BY <1>20 DEF SpuriousWakeup
<1>21. ASSUME NEW t \in Threads, Close(t) PROVE Inv'
  <2>1. closed' \in BOOLEAN /\ UNCHANGED <<role, op, msg, mutex, free, used, buffer>>
    BY <1>21 DEF Close
  <2>2. CASE pc' = [pc EXCEPT ![t] = "return"]
    BY <1>21, <2>1, <2>2 DEF Close
  <2>3. CASE pc' = [pc EXCEPT ![t] = "closeNotifyFull"]
    BY <1>21, <2>1, <2>3 DEF Close
  <2>4. QED
    BY <1>21, <2>2, <2>3 DEF Close
<1>22. ASSUME NEW t \in Threads, CloseNotifyNotFull(t) PROVE Inv'
  BY <1>22 DEF CloseNotifyNotFull, NotifyAll, SleepingFull
<1>23. ASSUME NEW t \in Threads, CloseNotifyNotEmpty(t) PROVE Inv'
  BY <1>23 DEF CloseNotifyNotEmpty, NotifyAll, SleepingEmpty
<1>24. ASSUME NEW t \in Threads, Return(t), UNCHANGED dataVars PROVE Inv'
  BY <1>24 DEF Return
<1>25. QED
  BY <1>1, <1>2, <1>3, <1>4, <1>5, <1>6, <1>7, <1>8, <1>9, <1>10, <1>11, <1>12,
     <1>13, <1>14, <1>15, <1>16, <1>17, <1>18, <1>19, <1>20, <1>21, <1>22,
     <1>23, <1>24 DEF Next, Call, Run, Leave

(* A thread between its prework and StoreMessage holds the mutex, so Close *)
(* cannot come in between: nothing is stored in a closed queue.            *)
OpenWhileStoring == \A t \in Threads : pc[t] = "store" => ~closed

LEMMA StepOpen ==
  ASSUME Inv, OpenWhileStoring, [Next]_vars
  PROVE  OpenWhileStoring'
<1> USE ThreadsAssumption
    DEF OpenWhileStoring, Inv, TypeOK, CallTypeOK, Labels, MutexDiscipline,
        Critical, Goto, Finish, Locked, Lock, LockedBriefly
<1>1. CASE UNCHANGED closed /\ \A t \in Threads : pc'[t] = "store" => pc[t] = "store"
  BY <1>1
<1>2. ASSUME NEW t \in Threads, pc[t] = "sync", TakeSlot(t), UNCHANGED closed
      PROVE  OpenWhileStoring'
  BY <1>2 DEF TakeSlot, SlotFree
<1>3. ASSUME NEW t \in Threads, Close(t) PROVE OpenWhileStoring'
  BY <1>3 DEF Close
<1>4. CASE UNCHANGED vars
  BY <1>1, <1>4 DEF vars, callVars, dataVars
<1>5. ASSUME NEW t \in Threads, Call(t) PROVE OpenWhileStoring'
  BY <1>1, <1>5 DEF Call, CallSend, CallRead, CallClose, Enter, AccountThreads,
     dataVars
<1>6. ASSUME NEW t \in Threads,
             CheckSendDeadlockPossibility(t) \/ CheckReadDeadlockPossibility(t)
      PROVE  OpenWhileStoring'
  BY <1>1, <1>6 DEF CheckSendDeadlockPossibility, CheckReadDeadlockPossibility,
                    CheckDeadlock, AfterCheck, HandleDeadlock
<1>7. ASSUME NEW t \in Threads,
             SyncAndOverflowPrework(t) \/ TrySyncAndOverflowPrework(t)
      PROVE  OpenWhileStoring'
  BY <1>1, <1>2, <1>7 DEF SyncAndOverflowPrework, TrySyncAndOverflowPrework
<1>8. ASSUME NEW t \in Threads,
             SyncAndUnderflowPrework(t) \/ TrySyncAndUnderflowPrework(t)
      PROVE  OpenWhileStoring'
  BY <1>1, <1>8 DEF SyncAndUnderflowPrework, TrySyncAndUnderflowPrework,
     TakeMessage
<1>9. ASSUME NEW t \in Threads,
             \/ StoreMessage(t) \/ StoreMessageThrows(t) \/ SendPostwork(t)
             \/ PopMessage(t) \/ PopMessageThrows(t) \/ ReadPostwork(t)
      PROVE  OpenWhileStoring'
  BY <1>1, <1>9 DEF StoreMessage, StoreMessageThrows, SendPostwork,
                    PopMessage, PopMessageThrows, ReadPostwork
<1>10. ASSUME NEW t \in Threads,
              \/ TryReadCopyThrows(t) \/ SpuriousWakeup(t) \/ Leave(t)
              \/ NotifyOneNotFull(t) \/ NotifyOneNotEmpty(t)
              \/ CloseNotifyNotFull(t) \/ CloseNotifyNotEmpty(t)
       PROVE  OpenWhileStoring'
  BY <1>1, <1>10 DEF TryReadCopyThrows, SpuriousWakeup, Leave, Return,
       NotifyOneNotFull, NotifyOneNotEmpty, NotifyOne, CloseNotifyNotFull,
       CloseNotifyNotEmpty, NotifyAll, dataVars
<1>11. QED
  BY <1>3, <1>4, <1>5, <1>6, <1>7, <1>8, <1>9, <1>10 DEF Next, Run

(* The queue's state stays well-typed whatever the clients do. *)
THEOREM TypeCorrect == Spec => []TypeOK
<1>1. Inv => TypeOK
  BY DEF Inv
<1>2. QED
  BY InitInv, StepInv, <1>1, PTL DEF Spec

(* The mutex that the hooks lock and unlock by hand is held by a thread    *)
(* exactly from its prework to its postwork, also when a constructor       *)
(* throws in between, and by nobody who sleeps, gives up or has left.      *)
THEOREM MutexCorrect == Spec => []MutexDiscipline
<1>1. Inv => MutexDiscipline
  BY DEF Inv
<1>2. QED
  BY InitInv, StepInv, <1>1, PTL DEF Spec

(* No slot of the buffer is leaked or counted twice, on exceptional paths  *)
(* either.                                                                 *)
THEOREM AccountingCorrect == Spec => []SlotAccounting
<1>1. Inv => SlotAccounting
  BY DEF Inv
<1>2. QED
  BY InitInv, StepInv, <1>1, PTL DEF Spec

-----------------------------------------------------------------------------
(***************************************************************************)
(* Refinement.  A copy that throws in TryRead loses a message, so the      *)
(* theorem holds for value types whose copies do not throw there.          *)
(***************************************************************************)
LEMMA InitRefines == Init => Fifo!Init
  BY DEF Init, CallInit, Fifo!Init

LEMMA StepRefines ==
  ASSUME Inv, OpenWhileStoring, [Next]_vars, "copy" \notin Throws
  PROVE  [Fifo!Next]_Fifo!vars
<1> USE CapacityAssumption, MessagesAssumption
    DEF Inv, TypeOK, CallTypeOK, MutexDiscipline, SlotAccounting, CallInv,
        Critical, SendOps, ReadOps, TryOps,
        Goto, Decide, Locked, Lock, Unlock, LockedBriefly, dataVars, Fifo!vars
<1>1. CASE UNCHANGED vars
  BY <1>1 DEF vars, callVars
<1>2. ASSUME NEW t \in Threads, CallSend(t), UNCHANGED dataVars
       PROVE  Fifo!Invoke(t)
  BY <1>2 DEF CallSend, Enter, AccountThreads, RoleAccepted, Finish,
         Fifo!Invoke, Fifo!Decide, Fifo!SendOps
<1>3. ASSUME NEW t \in Threads, CallRead(t), UNCHANGED dataVars
       PROVE  Fifo!Invoke(t)
  <2>1. UNCHANGED msg
    <3>1. pc[t] = "idle" /\ msg' = [msg EXCEPT ![t] = NoMessage]
      BY <1>3 DEF CallRead, Enter
    <3>2. QED
      BY <3>1
  <2>2. PICK o \in ReadOps : op' = [op EXCEPT ![t] = o] /\ op[t] = "none"
    BY <1>3 DEF CallRead, Enter
  <2>3. QED
    BY <1>3, <2>1, <2>2 DEF CallRead, AccountThreads, RoleAccepted, Finish,
         Fifo!Invoke, Fifo!Decide, Fifo!ReadOps
<1>4. ASSUME NEW t \in Threads, CallClose(t), UNCHANGED dataVars
       PROVE  Fifo!Invoke(t)
  BY <1>4 DEF CallClose, Enter,
         Fifo!Invoke, Fifo!ReadOps
<1>5. ASSUME NEW t \in Threads, CheckSendDeadlockPossibility(t)
       PROVE  Fifo!Refuse(t) \/ UNCHANGED Fifo!vars
  BY <1>5 DEF CheckSendDeadlockPossibility, CheckDeadlock, AfterCheck,
     HandleDeadlock, Finish,
         Fifo!Refuse, Fifo!Running, Fifo!MayRefuse, Fifo!Decide, Fifo!Full,
         Fifo!Empty, Fifo!SendOps, Fifo!ReadOps
<1>6. ASSUME NEW t \in Threads, CheckReadDeadlockPossibility(t)
       PROVE  Fifo!Refuse(t) \/ UNCHANGED Fifo!vars
  BY <1>6 DEF CheckReadDeadlockPossibility, CheckDeadlock, AfterCheck,
     HandleDeadlock, Finish,
         Fifo!Refuse, Fifo!Running, Fifo!MayRefuse, Fifo!Decide, Fifo!Full,
         Fifo!Empty, Fifo!SendOps, Fifo!ReadOps
<1>7. ASSUME NEW t \in Threads, SyncAndOverflowPrework(t)
       PROVE  Fifo!Refuse(t) \/ UNCHANGED Fifo!vars
  BY <1>7 DEF SyncAndOverflowPrework, TakeSlot, SlotFree, Finish,
         Fifo!Refuse, Fifo!Running, Fifo!MayRefuse, Fifo!Decide, Fifo!Full,
         Fifo!Empty, Fifo!SendOps, Fifo!ReadOps
<1>8. ASSUME NEW t \in Threads, TrySyncAndOverflowPrework(t)
       PROVE  Fifo!Refuse(t) \/ UNCHANGED Fifo!vars
  BY <1>8 DEF TrySyncAndOverflowPrework, TakeSlot, SlotFree, Finish,
         Fifo!Refuse, Fifo!Running, Fifo!MayRefuse, Fifo!Decide, Fifo!Full,
         Fifo!Empty, Fifo!SendOps, Fifo!ReadOps
<1>9. ASSUME NEW t \in Threads, StoreMessage(t)
       PROVE  Fifo!Put(t)
  BY <1>9 DEF OpenWhileStoring, StoreMessage,
         Fifo!Put, Fifo!Running, Fifo!Full, Fifo!Decide, Fifo!SendOps
<1>10. ASSUME NEW t \in Threads, StoreMessageThrows(t)
       PROVE  Fifo!Refuse(t)
  BY <1>10 DEF StoreMessageThrows,
         Fifo!Refuse, Fifo!Running, Fifo!MayRefuse, Fifo!Decide, Fifo!Full,
         Fifo!Empty, Fifo!SendOps, Fifo!ReadOps
<1>11. ASSUME NEW t \in Threads, SendPostwork(t)
       PROVE  UNCHANGED Fifo!vars
  BY <1>11 DEF SendPostwork
<1>12. ASSUME NEW t \in Threads, SyncAndUnderflowPrework(t)
       PROVE  Fifo!Refuse(t) \/ UNCHANGED Fifo!vars
  BY <1>12 DEF SyncAndUnderflowPrework, TakeMessage, Finish,
         Fifo!Refuse, Fifo!Running, Fifo!MayRefuse, Fifo!Decide, Fifo!Full,
         Fifo!Empty, Fifo!SendOps, Fifo!ReadOps
<1>13. ASSUME NEW t \in Threads, TrySyncAndUnderflowPrework(t)
       PROVE  Fifo!Refuse(t) \/ UNCHANGED Fifo!vars
  BY <1>13 DEF TrySyncAndUnderflowPrework, TakeMessage, Finish,
         Fifo!Refuse, Fifo!Running, Fifo!MayRefuse, Fifo!Decide, Fifo!Full,
         Fifo!Empty, Fifo!SendOps, Fifo!ReadOps
<1>14. ASSUME NEW t \in Threads, PopMessage(t)
       PROVE  Fifo!Take(t)
  BY <1>14 DEF PopMessage,
         Fifo!Take, Fifo!Running, Fifo!Empty, Fifo!Decide, Fifo!ReadOps
<1>15. ASSUME NEW t \in Threads, PopMessageThrows(t)
       PROVE  Fifo!Refuse(t)
  BY <1>15 DEF PopMessageThrows,
         Fifo!Refuse, Fifo!Running, Fifo!MayRefuse, Fifo!Decide, Fifo!Full,
         Fifo!Empty, Fifo!SendOps, Fifo!ReadOps
<1>16. ASSUME NEW t \in Threads, ReadPostwork(t)
       PROVE  UNCHANGED Fifo!vars
  BY <1>16 DEF ReadPostwork
<1>17. ASSUME NEW t \in Threads, TryReadCopyThrows(t)
       PROVE  FALSE
  BY <1>17 DEF TryReadCopyThrows
<1>18. ASSUME NEW t \in Threads, NotifyOneNotFull(t)
       PROVE  UNCHANGED Fifo!vars
  BY <1>18 DEF NotifyOneNotFull
<1>19. ASSUME NEW t \in Threads, NotifyOneNotEmpty(t)
       PROVE  UNCHANGED Fifo!vars
  BY <1>19 DEF NotifyOneNotEmpty
<1>20. ASSUME NEW t \in Threads, SpuriousWakeup(t)
       PROVE  UNCHANGED Fifo!vars
  BY <1>20 DEF SpuriousWakeup
<1>21. ASSUME NEW t \in Threads, Close(t)
       PROVE  Fifo!Close(t)
  BY <1>21 DEF Close,
         Fifo!Close, Fifo!Running, Fifo!Decide
<1>22. ASSUME NEW t \in Threads, CloseNotifyNotFull(t)
       PROVE  UNCHANGED Fifo!vars
  BY <1>22 DEF CloseNotifyNotFull
<1>23. ASSUME NEW t \in Threads, CloseNotifyNotEmpty(t)
       PROVE  UNCHANGED Fifo!vars
  BY <1>23 DEF CloseNotifyNotEmpty
<1>24. ASSUME NEW t \in Threads, Return(t), UNCHANGED dataVars
       PROVE  Fifo!Return(t)
  BY <1>24 DEF Return,
         Fifo!Return, Fifo!Decide
<1>25. QED
  BY <1>1, <1>2, <1>3, <1>4, <1>5, <1>6, <1>7, <1>8, <1>9, <1>10, <1>11, <1>12,
     <1>13, <1>14, <1>15, <1>16, <1>17, <1>18, <1>19, <1>20, <1>21, <1>22,
     <1>23, <1>24
  DEF Next, Call, Run, Leave, Fifo!Next, Fifo!Step

(* Every execution of the deque queue is one of the bounded FIFO.          *)
THEOREM Refinement == "copy" \notin Throws => (Spec => ImplementsFifo)
<1> SUFFICES ASSUME "copy" \notin Throws PROVE Spec => ImplementsFifo
  OBVIOUS
<1>1. Init => OpenWhileStoring
  BY DEF Init, CallInit, OpenWhileStoring
<1>2. Inv /\ OpenWhileStoring /\ [Next]_vars => OpenWhileStoring'
  BY StepOpen
<1>3. Inv /\ OpenWhileStoring /\ [Next]_vars => [Fifo!Next]_Fifo!vars
  BY StepRefines
<1>4. QED
  BY InitInv, StepInv, InitRefines, <1>1, <1>2, <1>3, PTL
  DEF Spec, ImplementsFifo, Fifo!Spec

-----------------------------------------------------------------------------
(***************************************************************************)
(* Thread roles.                                                           *)
(***************************************************************************)
InCall == {"check", "sync", "waitFull", "waitEmpty"} \cup Critical

(* Also while it sleeps, since it comes back to "sync". *)
RoleKept ==
  Policy = "kOnThreadRoleChange" =>
    \A t \in Threads : pc[t] \in InCall =>
      role[t] = IF op[t] \in SendOps THEN "kProducer" ELSE "kConsumer"

(* A thread that sends is a producer, and one of both roles is both; under *)
(* kOnDeadlock it gets past the check only when it will not block.         *)
BothRoles ==
  \A t \in Threads :
    /\ op[t] \in SendOps => t \in Producers
    /\ op[t] \in ReadOps => t \in Consumers
    /\ role[t] \in {"kProducer", "kBoth"} => t \in Producers
    /\ role[t] \in {"kConsumer", "kBoth"} => t \in Consumers
    /\ IsBothRole(t) /\ Policy = "kOnDeadlock" =>
         /\ pc[t] \notin {"waitFull", "waitEmpty"}
         /\ pc[t] = "sync" /\ op[t] = "Send" => free > 0
         /\ pc[t] = "sync" /\ op[t] = "Read" => used > 0

LEMMA StepRole ==
  ASSUME Inv, RoleKept, [Next]_vars
  PROVE  RoleKept'
<1> USE DEF Inv, TypeOK, CallTypeOK, Roles, CallInv, Critical, InCall, SendOps, ReadOps, TryOps,
        Goto, Decide, Finish, dataVars
<1>1. ASSUME UNCHANGED <<role, op>>,
             \A s \in Threads : pc'[s] \in InCall => pc[s] \in InCall
      PROVE  RoleKept'
  BY <1>1 DEF RoleKept
<1>2. CASE UNCHANGED vars
  BY <1>1, <1>2 DEF vars, callVars
<1>3. ASSUME NEW t \in Threads, Call(t) PROVE RoleKept'
  BY <1>3 DEF RoleKept, Call, CallSend, CallRead, CallClose, Enter, AccountThreads, RoleAccepted
<1>4. ASSUME NEW t \in Threads,
             CheckSendDeadlockPossibility(t) \/ CheckReadDeadlockPossibility(t)
      PROVE  RoleKept'
  BY <1>1, <1>4 DEF CheckSendDeadlockPossibility, CheckReadDeadlockPossibility,
                    CheckDeadlock, AfterCheck, HandleDeadlock
<1>5. ASSUME NEW t \in Threads,
             \/ SyncAndOverflowPrework(t) \/ TrySyncAndOverflowPrework(t)
             \/ SyncAndUnderflowPrework(t) \/ TrySyncAndUnderflowPrework(t)
      PROVE  RoleKept'
  BY <1>1, <1>5 DEF SyncAndOverflowPrework, TrySyncAndOverflowPrework, TakeSlot,
     SyncAndUnderflowPrework, TrySyncAndUnderflowPrework, TakeMessage
<1>6. ASSUME NEW t \in Threads,
             \/ StoreMessage(t) \/ StoreMessageThrows(t) \/ SendPostwork(t)
             \/ PopMessage(t) \/ PopMessageThrows(t) \/ ReadPostwork(t)
             \/ TryReadCopyThrows(t)
      PROVE  RoleKept'
  BY <1>1, <1>6 DEF StoreMessage, StoreMessageThrows, SendPostwork,
                    PopMessage, PopMessageThrows, ReadPostwork, TryReadCopyThrows
<1>7. ASSUME NEW t \in Threads,
             \/ SpuriousWakeup(t) \/ NotifyOneNotFull(t) \/ NotifyOneNotEmpty(t)
             \/ Close(t) \/ CloseNotifyNotFull(t) \/ CloseNotifyNotEmpty(t)
      PROVE  RoleKept'
  BY <1>1, <1>7 DEF SpuriousWakeup, NotifyOneNotFull, NotifyOneNotEmpty, NotifyOne, Close,
     CloseNotifyNotFull, CloseNotifyNotEmpty, NotifyAll, SleepingFull, SleepingEmpty
<1>8. ASSUME NEW t \in Threads, Leave(t) PROVE RoleKept'
  BY <1>8 DEF RoleKept, Leave, Return
<1>9. QED
  BY <1>2, <1>3, <1>4, <1>5, <1>6, <1>7, <1>8 DEF Next, Run

LEMMA StepBoth ==
  ASSUME Inv, BothRoles, SingleProducer /\ SingleConsumer, [Next]_vars
  PROVE  BothRoles'
<1>0. free' \in Int /\ used' \in Int
  BY StepInv, CapacityAssumption DEF Inv, TypeOK
<1> USE CategoryContract, CapacityAssumption
    DEF Inv, TypeOK, CallTypeOK, Roles, CallInv, SendOps, ReadOps, TryOps, Threads,
        Goto, Decide, Finish, dataVars, IsBothRole
<1>1. ASSUME UNCHANGED <<role, op>>, free' >= free, used' >= used,
             \A s \in Threads : pc'[s] \in {"waitFull", "waitEmpty"} => pc[s] = pc'[s],
             \A s \in Threads : pc'[s] = "sync" => pc[s] \in {"sync", "waitFull", "waitEmpty"}
      PROVE  BothRoles'
  BY <1>0, <1>1 DEF BothRoles
<1>2. CASE UNCHANGED vars
  BY <1>1, <1>2 DEF vars, callVars
<1>3. ASSUME NEW t \in Threads, Call(t) PROVE BothRoles'
  BY <1>3 DEF BothRoles, Call, CallSend, CallRead, CallClose, Enter, AccountThreads
<1>4. ASSUME NEW t \in Threads, CheckSendDeadlockPossibility(t) PROVE BothRoles'
  BY <1>4 DEF BothRoles, CheckSendDeadlockPossibility,
                    CheckDeadlock, AfterCheck, HandleDeadlock
<1>5. ASSUME NEW t \in Threads, CheckReadDeadlockPossibility(t) PROVE BothRoles'
  BY <1>5 DEF BothRoles, CheckReadDeadlockPossibility,
                    CheckDeadlock, AfterCheck, HandleDeadlock
<1>6. ASSUME NEW t \in Threads,
             SyncAndOverflowPrework(t) \/ TrySyncAndOverflowPrework(t)
      PROVE  BothRoles'
  BY <1>6 DEF BothRoles, SyncAndOverflowPrework, TrySyncAndOverflowPrework, TakeSlot
<1>7. ASSUME NEW t \in Threads,
             SyncAndUnderflowPrework(t) \/ TrySyncAndUnderflowPrework(t)
      PROVE  BothRoles'
  BY <1>7 DEF BothRoles, SyncAndUnderflowPrework, TrySyncAndUnderflowPrework, TakeMessage
<1>8. ASSUME NEW t \in Threads,
             \/ StoreMessage(t) \/ StoreMessageThrows(t) \/ SendPostwork(t)
             \/ PopMessage(t) \/ PopMessageThrows(t) \/ ReadPostwork(t)
             \/ TryReadCopyThrows(t)
      PROVE  BothRoles'
  BY <1>1, <1>8 DEF StoreMessage, StoreMessageThrows, SendPostwork,
                    PopMessage, PopMessageThrows, ReadPostwork, TryReadCopyThrows
<1>9. ASSUME NEW t \in Threads,
             \/ SpuriousWakeup(t) \/ NotifyOneNotFull(t) \/ NotifyOneNotEmpty(t)
             \/ Close(t) \/ CloseNotifyNotFull(t) \/ CloseNotifyNotEmpty(t)
      PROVE  BothRoles'
  BY <1>1, <1>9 DEF SpuriousWakeup, NotifyOneNotFull, NotifyOneNotEmpty, NotifyOne, Close,
     CloseNotifyNotFull, CloseNotifyNotEmpty, NotifyAll, SleepingFull, SleepingEmpty
<1>10. ASSUME NEW t \in Threads, Leave(t) PROVE BothRoles'
  BY <1>10 DEF BothRoles, Leave, Return
<1>11. QED
  BY <1>2, <1>3, <1>4, <1>5, <1>6, <1>7, <1>8, <1>9, <1>10 DEF Next, Run

(* Under kOnThreadRoleChange a thread keeps the role of its first call:    *)
(* once it has a role, nothing it does changes it.                         *)
LEMMA RoleStays ==
  ASSUME TypeOK, Policy = "kOnThreadRoleChange", [Next]_vars,
         NEW t \in Threads, role[t] # "kNoInfo"
  PROVE  role'[t] = role[t]
<1>1. CASE UNCHANGED role
  BY <1>1
<1>2. ASSUME NEW s \in Threads, Call(s) PROVE role'[t] = role[t]
  BY <1>2 DEF TypeOK, CallTypeOK, Call, CallSend, CallRead, CallClose, AccountThreads,
              RoleAccepted
<1>3. ASSUME NEW s \in Threads, Run(s) \/ SpuriousWakeup(s) PROVE UNCHANGED role
  BY <1>3 DEF Run, CheckSendDeadlockPossibility, CheckReadDeadlockPossibility, CheckDeadlock,
     AfterCheck, SyncAndOverflowPrework, TrySyncAndOverflowPrework, StoreMessage,
     StoreMessageThrows, SendPostwork, SyncAndUnderflowPrework, TrySyncAndUnderflowPrework,
     PopMessage, PopMessageThrows, ReadPostwork, TryReadCopyThrows, NotifyOneNotFull,
     NotifyOneNotEmpty, NotifyOne, Close, CloseNotifyNotFull, CloseNotifyNotEmpty, NotifyAll,
     Leave, Return, SpuriousWakeup
<1>4. CASE UNCHANGED vars
  BY <1>1, <1>4 DEF vars, callVars
<1>5. QED
  BY <1>1, <1>2, <1>3, <1>4 DEF Next

(* A thread has one role, and a call is rejected for it only when it is    *)
(* the other one.                                                          *)
RejectedRightly ==
  Policy = "kOnThreadRoleChange" =>
    \A t \in Threads :
      /\ ~IsBothRole(t)
      /\ outcome[t] = "roleChange" =>
           role[t] = IF op[t] \in SendOps THEN "kConsumer" ELSE "kProducer"

LEMMA StepRejected ==
  ASSUME Inv, RejectedRightly, [Next]_vars
  PROVE  RejectedRightly'
<1> USE DEF Inv, TypeOK, CallTypeOK, Roles, CallInv, SendOps, ReadOps, Goto, Decide, Finish,
        dataVars, IsBothRole
<1>1. ASSUME UNCHANGED <<role, op>>,
             \A s \in Threads : outcome'[s] = "roleChange" => outcome[s] = "roleChange"
      PROVE  RejectedRightly'
  BY <1>1 DEF RejectedRightly
<1>2. CASE UNCHANGED vars
  BY <1>1, <1>2 DEF vars, callVars
<1>3. ASSUME NEW t \in Threads, Call(t) PROVE RejectedRightly'
  BY <1>3 DEF RejectedRightly, Call, CallSend, CallRead, CallClose, Enter, AccountThreads,
              RoleAccepted
<1>4. ASSUME NEW t \in Threads,
             CheckSendDeadlockPossibility(t) \/ CheckReadDeadlockPossibility(t)
      PROVE  RejectedRightly'
  BY <1>1, <1>4 DEF CheckSendDeadlockPossibility, CheckReadDeadlockPossibility,
                    CheckDeadlock, AfterCheck, HandleDeadlock
<1>5. ASSUME NEW t \in Threads,
             \/ SyncAndOverflowPrework(t) \/ TrySyncAndOverflowPrework(t)
             \/ SyncAndUnderflowPrework(t) \/ TrySyncAndUnderflowPrework(t)
      PROVE  RejectedRightly'
  BY <1>1, <1>5 DEF SyncAndOverflowPrework, TrySyncAndOverflowPrework, TakeSlot,
     SyncAndUnderflowPrework, TrySyncAndUnderflowPrework, TakeMessage
<1>6. ASSUME NEW t \in Threads,
             \/ StoreMessage(t) \/ StoreMessageThrows(t) \/ SendPostwork(t)
             \/ PopMessage(t) \/ PopMessageThrows(t) \/ ReadPostwork(t)
             \/ TryReadCopyThrows(t)
      PROVE  RejectedRightly'
  BY <1>1, <1>6 DEF StoreMessage, StoreMessageThrows, SendPostwork,
                    PopMessage, PopMessageThrows, ReadPostwork, TryReadCopyThrows
<1>7. ASSUME NEW t \in Threads,
             \/ SpuriousWakeup(t) \/ NotifyOneNotFull(t) \/ NotifyOneNotEmpty(t)
             \/ Close(t) \/ CloseNotifyNotFull(t) \/ CloseNotifyNotEmpty(t)
      PROVE  RejectedRightly'
  BY <1>1, <1>7 DEF SpuriousWakeup, NotifyOneNotFull, NotifyOneNotEmpty, NotifyOne, Close,
     CloseNotifyNotFull, CloseNotifyNotEmpty, NotifyAll, SleepingFull, SleepingEmpty
<1>8. ASSUME NEW t \in Threads, Leave(t) PROVE RejectedRightly'
  BY <1>8 DEF RejectedRightly, Leave, Return
<1>9. QED
  BY <1>2, <1>3, <1>4, <1>5, <1>6, <1>7, <1>8 DEF Next, Run

(* Under kOnThreadRoleChange a thread that has got to the queue in one     *)
(* role never gets to it in the other, and its own calls are not rejected  *)
(* for having tried.                                                       *)
THEOREM RolesKeptApart == Spec => RolesNeverMix
<1> SUFFICES ASSUME Policy = "kOnThreadRoleChange", NEW t \in Threads
    PROVE  Spec => /\ [](AtWork(t, SendOps) => [](~AtWork(t, ReadOps) /\ ~Rejected(t, SendOps)))
                   /\ [](AtWork(t, ReadOps) => [](~AtWork(t, SendOps) /\ ~Rejected(t, ReadOps)))
  BY DEF RolesNeverMix
<1> DEFINE IsProducer == role[t] = "kProducer"
           IsConsumer == role[t] = "kConsumer"
<1>1. Init => RoleKept /\ RejectedRightly
  BY DEF Init, CallInit, RoleKept, RejectedRightly, InCall, Critical, IsBothRole
<1>2. Inv /\ RoleKept /\ [Next]_vars => RoleKept'
  BY StepRole
<1>3. Inv /\ RejectedRightly /\ [Next]_vars => RejectedRightly'
  BY StepRejected
<1>4. /\ RoleKept /\ AtWork(t, SendOps) => IsProducer
      /\ RoleKept /\ AtWork(t, ReadOps) => IsConsumer
  BY DEF RoleKept, AtWork, InCall, SendOps, ReadOps
<1>5. /\ Inv /\ [Next]_vars /\ IsProducer => IsProducer'
      /\ Inv /\ [Next]_vars /\ IsConsumer => IsConsumer'
  BY RoleStays DEF Inv
<1>6. /\ RoleKept /\ RejectedRightly /\ IsProducer =>
           ~AtWork(t, ReadOps) /\ ~Rejected(t, SendOps)
      /\ RoleKept /\ RejectedRightly /\ IsConsumer =>
           ~AtWork(t, SendOps) /\ ~Rejected(t, ReadOps)
  BY DEF RoleKept, RejectedRightly, AtWork, Rejected, InCall, SendOps, ReadOps
<1> HIDE DEF IsProducer, IsConsumer
<1>7. QED
  BY InitInv, StepInv, <1>1, <1>2, <1>3, <1>4, <1>5, <1>6, PTL DEF Spec

(* With one producer and one consumer, the check under kOnDeadlock sees    *)
(* every sleep that only the sleeper itself could end.  With a second      *)
(* thread on either side it does not: between the check and the prework    *)
(* that thread takes the last slot or the last message.                    *)
THEOREM DeadlockDetected ==
  SingleProducer /\ SingleConsumer => (Spec => []NoUndetectedDeadlock)
<1> SUFFICES ASSUME SingleProducer /\ SingleConsumer PROVE Spec => []NoUndetectedDeadlock
  OBVIOUS
<1>1. Init => BothRoles
  BY DEF Init, CallInit, BothRoles, IsBothRole, SendOps, ReadOps
<1>2. BothRoles => NoUndetectedDeadlock
  BY DEF BothRoles, NoUndetectedDeadlock
<1>3. Inv /\ BothRoles /\ [Next]_vars => BothRoles'
  BY StepBoth
<1>4. QED
  BY InitInv, StepInv, <1>1, <1>2, <1>3, PTL DEF Spec

-----------------------------------------------------------------------------
(***************************************************************************)
(* No wakeup is lost, for any number of threads.  The argument counts: a   *)
(* step that frees a slot leaves a thread that will notify, a notify       *)
(* replaces that thread by the one it wakes, and a thread that stops       *)
(* competing for a slot took one or found none.                            *)
(***************************************************************************)
LEMMA WakingFinite ==
  /\ IsFiniteSet(WakingSenders) /\ IsFiniteSet(WakingReaders)
  /\ IsFiniteSet(WakingSenders') /\ IsFiniteSet(WakingReaders')
<1>1. \A S \in SUBSET Threads : IsFiniteSet(S)
  BY ThreadsAssumption, FS_Subset
<1>2. QED
  BY <1>1 DEF WakingSenders, WakingReaders

(* The senders' side: the only steps that matter are those that change     *)
(* free_, move a thread from or to the competition, or put one to sleep.   *)
LEMMA SendersCovered ==
  ASSUME Inv, NoLostWakeup, [Next]_vars, ~closed', SleepingFull' # {}
  PROVE  Covered(free', WakingSenders')
<1> USE DEF Inv, TypeOK, CallTypeOK, MutexDiscipline, CallInv, Labels, Critical,
            SendOps, ReadOps, TryOps, Ops, SleepingFull, WakingSenders,
            Goto, Finish, Decide, Locked, Lock, Unlock, LockedBriefly, dataVars
<1>1. ASSUME UNCHANGED <<free, closed>>, SleepingFull' \subseteq SleepingFull,
             WakingSenders \subseteq WakingSenders'
      PROVE  Covered(free', WakingSenders')
  <2>1. free \in Nat /\ Covered(free, WakingSenders)
    BY <1>1, CapacityAssumption DEF NoLostWakeup, Covered
  <2>2. QED
    BY <1>1, <2>1, WakingFinite, CoverKept
<1>2. ASSUME free' = 0 PROVE Covered(free', WakingSenders')
  BY <1>2, WakingFinite, CoverNone
<1>3. ASSUME NEW t \in Threads, free' = free + 1, UNCHANGED closed,
             pc[t] \in Critical, pc' = [pc EXCEPT ![t] = "notifyFull"], UNCHANGED op
      PROVE  Covered(free', WakingSenders')
  <2>1. free \in Nat /\ Covered(free, WakingSenders)
    BY <1>3, CapacityAssumption DEF NoLostWakeup, Covered
  <2>2. t \in WakingSenders' /\ t \notin WakingSenders
    BY <1>3
  <2>3. WakingSenders \subseteq WakingSenders'
    BY <1>3
  <2>4. QED
    BY <1>3, <2>1, <2>2, <2>3, WakingFinite, CoverGrows
<1>4. ASSUME NEW t \in Threads, TakeSlot(t), UNCHANGED <<closed, op>>
      PROVE  Covered(free', WakingSenders')
  <2>1. free' \in Nat /\ free' + 1 = free
    BY <1>4, CapacityAssumption DEF TakeSlot, SlotFree
  <2>2. Covered(free, WakingSenders)
    BY <1>4 DEF NoLostWakeup, Covered, TakeSlot
  <2>3. WakingSenders \ {t} \subseteq WakingSenders'
    BY <1>4 DEF TakeSlot
  <2>4. QED
    BY <2>1, <2>2, <2>3, WakingFinite, CoverShrinks
<1>5. ASSUME NEW t \in Threads, NotifyOneNotFull(t)
      PROVE  Covered(free', WakingSenders')
  <2>1. PICK s \in SleepingFull : pc' = [pc EXCEPT ![t] = "return", ![s] = "sync"]
    BY <1>5 DEF NotifyOneNotFull, NotifyOne
  <2>2. free' = free /\ free \in Nat /\ Covered(free, WakingSenders)
    BY <1>5, <2>1, CapacityAssumption DEF NoLostWakeup, Covered, NotifyOneNotFull
  <2>3. s \in WakingSenders' /\ s \notin WakingSenders
    BY <1>5, <2>1 DEF NotifyOneNotFull
  <2>4. WakingSenders \ {t} \subseteq WakingSenders'
    BY <1>5, <2>1 DEF NotifyOneNotFull
  <2>5. QED
    BY <2>2, <2>3, <2>4, WakingFinite, CoverMoves
<1>6. CASE UNCHANGED vars
  BY <1>1, <1>6 DEF vars, callVars
<1>7. ASSUME NEW t \in Threads, Call(t) PROVE Covered(free', WakingSenders')
  BY <1>1, <1>7 DEF Call, CallSend, CallRead, CallClose, Enter, AccountThreads
<1>8. ASSUME NEW t \in Threads,
             CheckSendDeadlockPossibility(t) \/ CheckReadDeadlockPossibility(t)
      PROVE  Covered(free', WakingSenders')
  BY <1>1, <1>8 DEF CheckSendDeadlockPossibility, CheckReadDeadlockPossibility,
                    CheckDeadlock, AfterCheck, HandleDeadlock
<1>9. ASSUME NEW t \in Threads,
             SyncAndOverflowPrework(t) \/ TrySyncAndOverflowPrework(t)
      PROVE  Covered(free', WakingSenders')
  <2>1. UNCHANGED <<closed, op>> /\ ((free = 0 /\ free' = free) \/ TakeSlot(t))
    BY <1>9 DEF SyncAndOverflowPrework, TrySyncAndOverflowPrework
  <2>2. QED
    BY <1>2, <1>4, <2>1
<1>10. ASSUME NEW t \in Threads,
             SyncAndUnderflowPrework(t) \/ TrySyncAndUnderflowPrework(t)
      PROVE  Covered(free', WakingSenders')
  BY <1>1, <1>10 DEF SyncAndUnderflowPrework, TrySyncAndUnderflowPrework,
     TakeMessage
<1>11. ASSUME NEW t \in Threads,
             StoreMessage(t) \/ SendPostwork(t) \/ PopMessage(t) \/ PopMessageThrows(t)
      PROVE  Covered(free', WakingSenders')
  BY <1>1, <1>11 DEF StoreMessage, SendPostwork, PopMessage, PopMessageThrows
<1>12. ASSUME NEW t \in Threads, StoreMessageThrows(t) \/ ReadPostwork(t)
      PROVE  Covered(free', WakingSenders')
  BY <1>3, <1>12 DEF StoreMessageThrows, ReadPostwork
<1>13. ASSUME NEW t \in Threads,
              \/ TryReadCopyThrows(t) \/ SpuriousWakeup(t) \/ Leave(t)
              \/ NotifyOneNotEmpty(t) \/ CloseNotifyNotFull(t)
              \/ CloseNotifyNotEmpty(t)
       PROVE  Covered(free', WakingSenders')
  BY <1>1, <1>13 DEF TryReadCopyThrows, SpuriousWakeup, Leave, Return,
       NotifyOneNotEmpty, NotifyOne, CloseNotifyNotFull, CloseNotifyNotEmpty,
       NotifyAll, SleepingEmpty
<1>14. ASSUME NEW t \in Threads, Close(t) PROVE Covered(free', WakingSenders')
  <2>1. UNCHANGED closed /\ pc' = [pc EXCEPT ![t] = "return"] /\ UNCHANGED <<free, op>>
    BY <1>14 DEF Close
  <2>2. QED
    BY <1>1, <1>14, <2>1 DEF Close
<1>15. QED
  BY <1>5, <1>6, <1>7, <1>8, <1>9, <1>10, <1>11, <1>12, <1>13, <1>14 DEF Next, Run

(* The readers' side: the same argument for used_.                         *)
LEMMA ReadersCovered ==
  ASSUME Inv, NoLostWakeup, [Next]_vars, ~closed', SleepingEmpty' # {}
  PROVE  Covered(used', WakingReaders')
<1> USE DEF Inv, TypeOK, CallTypeOK, MutexDiscipline, CallInv, Labels, Critical,
            SendOps, ReadOps, TryOps, Ops, SleepingEmpty, WakingReaders,
            Goto, Finish, Decide, Locked, Lock, Unlock, LockedBriefly, dataVars
<1>1. ASSUME UNCHANGED <<used, closed>>, SleepingEmpty' \subseteq SleepingEmpty,
             WakingReaders \subseteq WakingReaders'
      PROVE  Covered(used', WakingReaders')
  <2>1. used \in Nat /\ Covered(used, WakingReaders)
    BY <1>1, CapacityAssumption DEF NoLostWakeup, Covered
  <2>2. QED
    BY <1>1, <2>1, WakingFinite, CoverKept
<1>2. ASSUME used' = 0 PROVE Covered(used', WakingReaders')
  BY <1>2, WakingFinite, CoverNone
<1>3. ASSUME NEW t \in Threads, used' = used + 1, UNCHANGED closed,
             pc[t] \in Critical, pc' = [pc EXCEPT ![t] = "notifyEmpty"], UNCHANGED op
      PROVE  Covered(used', WakingReaders')
  <2>1. used \in Nat /\ Covered(used, WakingReaders)
    BY <1>3, CapacityAssumption DEF NoLostWakeup, Covered
  <2>2. t \in WakingReaders' /\ t \notin WakingReaders
    BY <1>3
  <2>3. WakingReaders \subseteq WakingReaders'
    BY <1>3
  <2>4. QED
    BY <1>3, <2>1, <2>2, <2>3, WakingFinite, CoverGrows
<1>4. ASSUME NEW t \in Threads, TakeMessage(t), UNCHANGED <<closed, op>>
      PROVE  Covered(used', WakingReaders')
  <2>1. used' \in Nat /\ used' + 1 = used
    BY <1>4, CapacityAssumption DEF TakeMessage
  <2>2. Covered(used, WakingReaders)
    BY <1>4 DEF NoLostWakeup, Covered, TakeMessage
  <2>3. WakingReaders \ {t} \subseteq WakingReaders'
    BY <1>4 DEF TakeMessage
  <2>4. QED
    BY <2>1, <2>2, <2>3, WakingFinite, CoverShrinks
<1>5. ASSUME NEW t \in Threads, NotifyOneNotEmpty(t)
      PROVE  Covered(used', WakingReaders')
  <2>1. PICK s \in SleepingEmpty : pc' = [pc EXCEPT ![t] = "return", ![s] = "sync"]
    BY <1>5 DEF NotifyOneNotEmpty, NotifyOne
  <2>2. used' = used /\ used \in Nat /\ Covered(used, WakingReaders)
    BY <1>5, <2>1, CapacityAssumption DEF NoLostWakeup, Covered, NotifyOneNotEmpty
  <2>3. s \in WakingReaders' /\ s \notin WakingReaders
    BY <1>5, <2>1 DEF NotifyOneNotEmpty
  <2>4. WakingReaders \ {t} \subseteq WakingReaders'
    BY <1>5, <2>1 DEF NotifyOneNotEmpty
  <2>5. QED
    BY <2>2, <2>3, <2>4, WakingFinite, CoverMoves
<1>6. CASE UNCHANGED vars
  BY <1>1, <1>6 DEF vars, callVars
<1>7. ASSUME NEW t \in Threads, Call(t) PROVE Covered(used', WakingReaders')
  BY <1>1, <1>7 DEF Call, CallSend, CallRead, CallClose, Enter, AccountThreads
<1>8. ASSUME NEW t \in Threads,
             CheckSendDeadlockPossibility(t) \/ CheckReadDeadlockPossibility(t)
      PROVE  Covered(used', WakingReaders')
  BY <1>1, <1>8 DEF CheckSendDeadlockPossibility, CheckReadDeadlockPossibility,
                    CheckDeadlock, AfterCheck, HandleDeadlock
<1>9. ASSUME NEW t \in Threads,
             SyncAndUnderflowPrework(t) \/ TrySyncAndUnderflowPrework(t)
      PROVE  Covered(used', WakingReaders')
  <2>1. UNCHANGED <<closed, op>> /\ ((used = 0 /\ used' = used) \/ TakeMessage(t))
    BY <1>9 DEF SyncAndUnderflowPrework, TrySyncAndUnderflowPrework
  <2>2. QED
    BY <1>2, <1>4, <2>1
<1>10. ASSUME NEW t \in Threads,
             SyncAndOverflowPrework(t) \/ TrySyncAndOverflowPrework(t)
      PROVE  Covered(used', WakingReaders')
  BY <1>1, <1>10 DEF SyncAndOverflowPrework, TrySyncAndOverflowPrework, TakeSlot
<1>11. ASSUME NEW t \in Threads,
             StoreMessage(t) \/ StoreMessageThrows(t) \/ PopMessage(t) \/ ReadPostwork(t)
      PROVE  Covered(used', WakingReaders')
  BY <1>1, <1>11 DEF StoreMessage, StoreMessageThrows, PopMessage, ReadPostwork
<1>12. ASSUME NEW t \in Threads, SendPostwork(t) \/ PopMessageThrows(t)
      PROVE  Covered(used', WakingReaders')
  BY <1>3, <1>12 DEF SendPostwork, PopMessageThrows
<1>13. ASSUME NEW t \in Threads,
              \/ TryReadCopyThrows(t) \/ SpuriousWakeup(t) \/ Leave(t)
              \/ NotifyOneNotFull(t) \/ CloseNotifyNotFull(t)
              \/ CloseNotifyNotEmpty(t)
       PROVE  Covered(used', WakingReaders')
  BY <1>1, <1>13 DEF TryReadCopyThrows, SpuriousWakeup, Leave, Return,
       NotifyOneNotFull, NotifyOne, CloseNotifyNotFull, CloseNotifyNotEmpty,
       NotifyAll, SleepingFull
<1>14. ASSUME NEW t \in Threads, Close(t) PROVE Covered(used', WakingReaders')
  <2>1. UNCHANGED closed /\ pc' = [pc EXCEPT ![t] = "return"] /\ UNCHANGED <<used, op>>
    BY <1>14 DEF Close
  <2>2. QED
    BY <1>1, <1>14, <2>1 DEF Close
<1>15. QED
  BY <1>5, <1>6, <1>7, <1>8, <1>9, <1>10, <1>11, <1>12, <1>13, <1>14 DEF Next, Run

LEMMA ClosedSleepers ==
  ASSUME Inv, NoLostWakeup, [Next]_vars, closed'
  PROVE  /\ SleepingFull' # {} => \E t \in Threads : pc'[t] = "closeNotifyFull"
         /\ SleepingEmpty' # {} =>
              \E t \in Threads : pc'[t] \in {"closeNotifyFull", "closeNotifyEmpty"}
<1> DEFINE NotClosing(t) == pc[t] \notin {"closeNotifyFull", "closeNotifyEmpty"}
           Goal == /\ SleepingFull' # {} => \E t \in Threads : pc'[t] = "closeNotifyFull"
                   /\ SleepingEmpty' # {} => \E t \in Threads :
                        pc'[t] \in {"closeNotifyFull", "closeNotifyEmpty"}
<1> USE DEF Inv, TypeOK, CallTypeOK, Labels, Critical, SleepingFull, SleepingEmpty,
            Goto, Finish, dataVars
<1>1. ASSUME NEW t \in Threads, NEW l \in Labels \ {"waitFull", "waitEmpty"},
             UNCHANGED closed, NotClosing(t), pc' = [pc EXCEPT ![t] = l]
      PROVE  Goal
  BY <1>1 DEF NoLostWakeup
<1>2. CASE UNCHANGED <<pc, closed>>
  BY <1>2 DEF NoLostWakeup
<1>3. ASSUME NEW t \in Threads, Call(t) PROVE Goal
  BY <1>1, <1>3 DEF Call, CallSend, CallRead, CallClose, Enter, AccountThreads
<1>4. ASSUME NEW t \in Threads,
             CheckSendDeadlockPossibility(t) \/ CheckReadDeadlockPossibility(t)
      PROVE  Goal
  BY <1>1, <1>4 DEF CheckSendDeadlockPossibility, CheckReadDeadlockPossibility,
                    CheckDeadlock, AfterCheck, HandleDeadlock
<1>5. ASSUME NEW t \in Threads,
             SyncAndOverflowPrework(t) \/ TrySyncAndOverflowPrework(t)
      PROVE  Goal
  BY <1>1, <1>5 DEF SyncAndOverflowPrework, TrySyncAndOverflowPrework, TakeSlot
<1>6. ASSUME NEW t \in Threads,
             SyncAndUnderflowPrework(t) \/ TrySyncAndUnderflowPrework(t)
      PROVE  Goal
  BY <1>1, <1>6 DEF SyncAndUnderflowPrework, TrySyncAndUnderflowPrework,
     TakeMessage
<1>7. ASSUME NEW t \in Threads,
             \/ StoreMessage(t) \/ StoreMessageThrows(t) \/ SendPostwork(t)
             \/ PopMessage(t) \/ PopMessageThrows(t) \/ ReadPostwork(t)
      PROVE  Goal
  BY <1>1, <1>7 DEF StoreMessage, StoreMessageThrows, SendPostwork,
                    PopMessage, PopMessageThrows, ReadPostwork
<1>8. ASSUME NEW t \in Threads,
             TryReadCopyThrows(t) \/ SpuriousWakeup(t) \/ Leave(t)
      PROVE  Goal
  BY <1>1, <1>2, <1>8 DEF TryReadCopyThrows, SpuriousWakeup, Leave, Return
<1>9. ASSUME NEW t \in Threads, NotifyOneNotFull(t) \/ NotifyOneNotEmpty(t)
      PROVE  Goal
  BY <1>1, <1>9 DEF NotifyOneNotFull, NotifyOneNotEmpty, NotifyOne, NoLostWakeup
<1>10. ASSUME NEW t \in Threads, Close(t) PROVE Goal
  <2>1. CASE pc' = [pc EXCEPT ![t] = "closeNotifyFull"]
    BY <2>1
  <2>2. CASE UNCHANGED closed /\ pc' = [pc EXCEPT ![t] = "return"]
    BY <1>1, <1>10, <2>2 DEF Close
  <2>3. QED
    BY <1>10, <2>1, <2>2 DEF Close
<1>11. ASSUME NEW t \in Threads, CloseNotifyNotFull(t) PROVE Goal
  BY <1>11 DEF CloseNotifyNotFull, NotifyAll
<1>12. ASSUME NEW t \in Threads, CloseNotifyNotEmpty(t) PROVE Goal
  BY <1>12 DEF CloseNotifyNotEmpty, NotifyAll, NoLostWakeup
<1>13. QED
  BY <1>2, <1>3, <1>4, <1>5, <1>6, <1>7, <1>8, <1>9, <1>10, <1>11, <1>12
  DEF Next, Run, vars, callVars

(* No interleaving of sends, reads, closes, exceptions and spurious        *)
(* wakeups leaves a thread asleep with nobody bound to wake it.            *)
THEOREM WakeupCorrect == Spec => []NoLostWakeup
<1>1. Init => NoLostWakeup
  BY DEF Init, CallInit, NoLostWakeup, SleepingFull, SleepingEmpty
<1>2. Inv /\ NoLostWakeup /\ [Next]_vars => NoLostWakeup'
  <2> SUFFICES ASSUME Inv, NoLostWakeup, [Next]_vars PROVE NoLostWakeup'
    OBVIOUS
  <2>1. ~closed' /\ SleepingFull' # {} => free' <= Cardinality(WakingSenders')
    BY SendersCovered DEF Covered
  <2>2. ~closed' /\ SleepingEmpty' # {} => used' <= Cardinality(WakingReaders')
    BY ReadersCovered DEF Covered
  <2>3. QED
    BY <2>1, <2>2, ClosedSleepers DEF NoLostWakeup
<1>3. QED
  BY InitInv, StepInv, <1>1, <1>2, PTL DEF Spec
=============================================================================
