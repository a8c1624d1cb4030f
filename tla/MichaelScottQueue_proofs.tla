---------------------- MODULE MichaelScottQueue_proofs ----------------------
(***************************************************************************)
(* Proofs about MichaelScottQueue: for every set of threads and of calls,  *)
(* every capacity, and every bound on sends and attempts, whether or not   *)
(* compare_exchange_weak fails spuriously.  The list comes first.          *)
(***************************************************************************)
EXTENDS MichaelScottQueue, Covering

BeforeStore == {"tryFull", "blockFull", "waitFull"} \cup StoreLoop
BeforePop   == {"blockEmpty", "waitEmpty"} \cup PopLoop

(* The local state of a call: which operation is where, and what it holds. *)
CallInv(t) ==
  /\ pc[t] = "idle" <=> op[t] = "none"
  /\ pc[t] = "idle" => msg[t] = NoMessage /\ outcome[t] = "none"
  /\ pc[t] \in {"close"} => op[t] = "Close" /\ outcome[t] = "none"
  /\ pc[t] = "check" => op[t] \in SendOps \cup ReadOps /\ outcome[t] = "none"
  /\ pc[t] \in {"blockFull", "waitFull"} => op[t] = "Send"
  /\ pc[t] \in {"blockEmpty", "waitEmpty"} => op[t] = "Read"
  /\ pc[t] = "tryFull" => op[t] # "Send"
  /\ pc[t] = "sync" => op[t] \in StoreOps \cup PopOps
  /\ pc[t] \in BeforeStore \cup {"swing", "countUp"} => op[t] \in StoreOps
  /\ pc[t] \in BeforePop \cup {"move", "countDown"} => op[t] \in PopOps
  /\ pc[t] \in BeforeStore \cup BeforePop \cup {"sync"} => outcome[t] = "none"
  /\ pc[t] \in BeforeStore \cup {"check", "sync"} /\ op[t] \in StoreOps => msg[t] \in Messages
  /\ pc[t] \in {"swing", "countUp", "move", "countDown", "notifyNotEmpty", "notifyNotFull",
                "closeNotifyEmpty", "closeNotifyFull", "return"}
       => outcome[t] # "none"
  /\ op[t] \in StoreOps => t \in Producers

(* What the local pointers of a thread are known to point to.  Since head  *)
(* and tail only ever move forward, so are what was read of them.          *)
PointerInv(t) ==
  /\ pc[t] \in {"loadNext", "recheckTail", "link", "helpEnqueue", "swing",
                "loadFirstNext", "recheckHead", "helpDequeue", "advance"}
       => last[t] \in 0..tail
  /\ pc[t] \in {"recheckTail", "recheckHead"} => succ[t] <= newest
  /\ pc[t] = "recheckTail" => succ[t] \in {Null, last[t] + 1}
  /\ pc[t] \in {"helpEnqueue", "swing"} => succ[t] = last[t] + 1 /\ succ[t] <= newest
  /\ pc[t] \in {"loadLast", "loadFirstNext", "recheckHead", "helpDequeue", "advance"}
       => first[t] \in 0..head
  /\ pc[t] \in {"loadFirstNext", "recheckHead", "helpDequeue", "advance"}
       => first[t] <= last[t]
  /\ pc[t] = "recheckHead" => succ[t] \in {Null, first[t] + 1}
  /\ pc[t] \in {"helpDequeue", "advance"} => succ[t] = first[t] + 1 /\ succ[t] <= newest
  /\ pc[t] = "helpDequeue" => first[t] = last[t]
  /\ pc[t] = "advance" => first[t] < last[t]
  /\ pc[t] = "move" => succ[t] \in 1..head

(* A message stays in its node until the one reader that moved the head    *)
(* past it takes it.                                                       *)
ValueInv ==
  /\ \A n \in Nodes : n > head /\ n <= newest => value[n] \in Messages
  /\ \A t \in Threads : pc[t] = "move" => value[succ[t]] \in Messages
  /\ \A s, t \in Threads : pc[s] = "move" /\ pc[t] = "move" /\ succ[s] = succ[t] => s = t

(* The nodes suffice for the senders let in. *)
NodesLeft == newest + Cardinality(Storing) <= MaxSends

Inv ==
  /\ TypeOK
  /\ \A t \in Threads : CallInv(t)
  /\ \A t \in Threads : PointerInv(t)
  /\ ListWellFormed
  /\ ValueInv
  /\ NodesLeft

-----------------------------------------------------------------------------
(* The parts of TypeOK that the proofs use on their own. *)
CallType ==
  /\ role \in [Threads -> Roles]
  /\ pc \in [Threads -> Labels]
  /\ op \in [Threads -> Ops \cup {"TryEnqueue", "TryDequeue"}]
  /\ msg \in [Threads -> Messages \cup {NoMessage}]
  /\ outcome \in [Threads -> Outcomes]

ListType ==
  /\ head \in Nodes /\ tail \in Nodes /\ newest \in Nodes
  /\ next \in [Nodes -> Nodes \cup {Null}]
  /\ value \in [Nodes -> Messages \cup {NoMessage}]

LocalType ==
  /\ first \in [Threads -> Nodes \cup {Null}]
  /\ last \in [Threads -> Nodes \cup {Null}]
  /\ succ \in [Threads -> Nodes \cup {Null}]
  /\ attempt \in [Threads -> 0..(MaxAttempts - 1)]

RestType ==
  /\ mutex \in Threads \cup {NoThread}
  /\ size \in 0..(SizeModulus - 1)
  /\ closed \in BOOLEAN /\ missed \in BOOLEAN

LEMMA TypeParts == TypeOK <=> CallType /\ ListType /\ LocalType /\ RestType
  BY DEF TypeOK, CallType, ListType, LocalType, RestType

LEMMA TypePartsNext ==
  TypeOK' <=> CallType' /\ ListType' /\ LocalType' /\ RestType'
  BY DEF TypeOK, CallType, ListType, LocalType, RestType

LEMMA ModulusBig ==
  /\ Cardinality(Threads) \in Nat
  /\ Capacity \in Nat /\ Capacity > 0
  /\ SizeModulus \in Nat /\ SizeModulus > 2 * (Capacity + Cardinality(Threads))
  /\ SizeModulus > 0
<1>1. Cardinality(Threads) \in Nat
  BY ThreadsAssumption, FS_CardinalityType
<1>2. QED
  BY <1>1, SizeAssumption, CapacityAssumption

LEMMA InitInv == Init => Inv
<1> SUFFICES ASSUME Init PROVE Inv
  OBVIOUS
<1> USE ThreadsAssumption DEF Init, CallInit, Nodes, Null
<1>1. TypeOK
  <2>1. CallType
    BY DEF CallType, Roles, Labels, Ops, Outcomes
  <2>2. ListType
    BY MichaelScottAssumption DEF ListType
  <2>3. LocalType
    BY MichaelScottAssumption DEF LocalType
  <2>4. RestType
    <3>1. 0 \in 0..(SizeModulus - 1)
      BY ModulusBig
    <3>2. QED
      BY <3>1 DEF RestType
  <2>5. QED
    BY <2>1, <2>2, <2>3, <2>4, TypeParts
<1>2. \A t \in Threads : CallInv(t)
  BY DEF CallInv, BeforeStore, BeforePop, StoreLoop, PopLoop, StoreOps, SendOps
<1>3. \A t \in Threads : PointerInv(t)
  BY DEF PointerInv
<1>4. ListWellFormed
  BY DEF ListWellFormed
<1>5. ValueInv
  BY DEF ValueInv
<1>6. NodesLeft
  <2>1. Storing = {}
    BY DEF Storing, StoreOps, SendOps
  <2>2. QED
    BY <2>1, FS_EmptySet, MichaelScottAssumption DEF NodesLeft
<1>7. QED
  BY <1>1, <1>2, <1>3, <1>4, <1>5, <1>6 DEF Inv

(* A sender that has yet to link its node is counted.                      *)
LEMMA RoomForNode ==
  ASSUME Inv, NEW t \in Threads, pc[t] \in StoreLoop
  PROVE  newest < MaxSends /\ newest + 1 + Cardinality(Storing \ {t}) <= MaxSends
<1>1. t \in Storing
  BY DEF Inv, CallInv, Storing, BeforeStore
<1>2. IsFiniteSet(Storing)
  BY ThreadsAssumption, FS_Subset DEF Storing
<1>3. Cardinality(Storing \ {t}) = Cardinality(Storing) - 1 /\ IsFiniteSet(Storing \ {t})
  BY <1>1, <1>2, FS_RemoveElement
<1>4. Cardinality(Storing) \in Nat /\ Cardinality(Storing \ {t}) \in Nat
  BY <1>2, <1>3, FS_CardinalityType
<1>5. newest \in Nat /\ MaxSends \in Nat
  BY MichaelScottAssumption DEF Inv, TypeOK, Nodes
<1>6. QED
  BY <1>3, <1>4, <1>5 DEF Inv, NodesLeft

-----------------------------------------------------------------------------
(* The steps of the calls themselves: they touch neither the list nor a    *)
(* pointer.                                                                *)
Quiet(t) ==
  \/ Call(t) \/ SpuriousWakeup(t)
  \/ CheckSendDeadlockPossibility(t) \/ CheckReadDeadlockPossibility(t)
  \/ SyncAndOverflowPrework(t) \/ TrySyncAndOverflowPrework(t) \/ TryRoom(t)
  \/ SyncAndUnderflowPrework(t) \/ TrySyncAndUnderflowPrework(t) \/ Block(t)
  \/ CountUp(t) \/ CountDown(t) \/ NotifyNotEmpty(t) \/ NotifyNotFull(t)
  \/ Close(t) \/ CloseNotifyNotEmpty(t) \/ CloseNotifyNotFull(t)
  \/ Leave(t)

OnList(t) ==
  \/ LoadTail(t) \/ LoadNext(t) \/ RecheckTail(t)
  \/ Link(t) \/ HelpEnqueue(t) \/ Swing(t)
  \/ LoadHead(t) \/ LoadLast(t) \/ LoadFirstNext(t) \/ RecheckHead(t)
  \/ HelpDequeue(t) \/ Advance(t) \/ Move(t)

LEMMA StepKinds ==
  [Next]_vars <=> UNCHANGED vars \/ \E t \in Threads : Quiet(t) \/ OnList(t)
  BY DEF Next, Run, Quiet, OnList

(* The labels at which a thread's pointers mean anything. *)
PointerLabels ==
  {"loadNext", "recheckTail", "link", "helpEnqueue", "swing", "loadLast",
   "loadFirstNext", "recheckHead", "helpDequeue", "advance", "move"}

LEMMA QuietPointers ==
  ASSUME CallType, NEW t \in Threads, Quiet(t)
  PROVE  /\ UNCHANGED <<listVars, localVars>>
         /\ \A s \in Threads : pc'[s] \in PointerLabels => pc'[s] = pc[s]
         /\ \A s \in Threads : pc[s] \in PointerLabels => pc'[s] = pc[s]
<1> USE DEF CallType, PointerLabels, Goto, Finish, restVars, listVars, localVars
<1>1. CASE Call(t)
  BY <1>1 DEF Call, CallSend, CallRead, CallClose, CallTryEnqueue, CallTryDequeue,
     Enter, AccountThreads
<1>2. CASE CheckSendDeadlockPossibility(t) \/ CheckReadDeadlockPossibility(t)
  BY <1>2 DEF CheckSendDeadlockPossibility, CheckReadDeadlockPossibility,
     AfterCheck, HandleDeadlock
<1>3. CASE \/ SyncAndOverflowPrework(t) \/ SyncAndUnderflowPrework(t)
           \/ TrySyncAndOverflowPrework(t) \/ TrySyncAndUnderflowPrework(t)
           \/ TryRoom(t) \/ Block(t)
  BY <1>3 DEF SyncAndOverflowPrework, SyncAndUnderflowPrework,
     TrySyncAndOverflowPrework, TrySyncAndUnderflowPrework, TryRoom, Block
<1>4. CASE CountUp(t) \/ CountDown(t) \/ SpuriousWakeup(t) \/ Leave(t) \/ Close(t)
  BY <1>4 DEF CountUp, CountDown, SpuriousWakeup, Leave, Return, Close
<1>5. CASE \/ NotifyNotEmpty(t) \/ NotifyNotFull(t)
           \/ CloseNotifyNotEmpty(t) \/ CloseNotifyNotFull(t)
  BY <1>5 DEF NotifyNotEmpty, NotifyNotFull, NotifyOne, CloseNotifyNotEmpty,
     CloseNotifyNotFull, NotifyAll, SleepingEmpty, SleepingFull
<1>6. QED
  BY <1>1, <1>2, <1>3, <1>4, <1>5 DEF Quiet

LEMMA QuietTypes ==
  ASSUME CallType, RestType, NEW t \in Threads, Quiet(t)
  PROVE  CallType' /\ RestType'
<1> USE DEF CallType, RestType, Roles, Labels, StoreLoop, PopLoop, Ops,
        SendOps, ReadOps, Outcomes, Goto, Decide, Finish, restVars
<1>1. CASE Call(t)
  <2>1. CASE CallSend(t)
    BY <1>1, <2>1 DEF Call, CallSend, Enter, AccountThreads
  <2>2. CASE CallRead(t)
    BY <1>1, <2>2 DEF Call, CallRead, Enter, AccountThreads
  <2>3. CASE CallClose(t) \/ CallTryEnqueue(t) \/ CallTryDequeue(t)
    BY <1>1, <2>3 DEF Call, CallClose, CallTryEnqueue, CallTryDequeue, Enter
  <2>4. QED
    BY <1>1, <2>1, <2>2, <2>3 DEF Call
<1>2. CASE CheckSendDeadlockPossibility(t) \/ CheckReadDeadlockPossibility(t)
  BY <1>2 DEF CheckSendDeadlockPossibility, CheckReadDeadlockPossibility,
     AfterCheck, HandleDeadlock
<1>3. CASE \/ SyncAndOverflowPrework(t) \/ SyncAndUnderflowPrework(t)
           \/ TrySyncAndOverflowPrework(t) \/ TrySyncAndUnderflowPrework(t)
           \/ TryRoom(t) \/ Block(t)
  BY <1>3 DEF SyncAndOverflowPrework, SyncAndUnderflowPrework, Lock, Unlock,
     LockedBriefly,
     TrySyncAndOverflowPrework, TrySyncAndUnderflowPrework, TryRoom, Block
<1>4. CASE CountUp(t) \/ CountDown(t)
  <2>1. (size + 1) % SizeModulus \in 0..(SizeModulus - 1)
    BY ModulusBig
  <2>2. (size - 1) % SizeModulus \in 0..(SizeModulus - 1)
    BY ModulusBig
  <2>3. missed' \in BOOLEAN
    BY <1>4 DEF CountUp, CountDown
  <2>4. QED
    BY <1>4, <2>1, <2>2, <2>3 DEF CountUp, CountDown
<1>5. CASE SpuriousWakeup(t) \/ Leave(t) \/ Close(t)
  <2>1. CASE SpuriousWakeup(t)
    BY <2>1 DEF SpuriousWakeup
  <2>2. CASE Leave(t)
    BY <2>2 DEF Leave, Return
  <2>3. CASE Close(t)
    BY <2>3 DEF Close
  <2>4. QED
    BY <1>5, <2>1, <2>2, <2>3
<1>6. CASE \/ NotifyNotEmpty(t) \/ NotifyNotFull(t)
           \/ CloseNotifyNotEmpty(t) \/ CloseNotifyNotFull(t)
  <2>1. missed' \in BOOLEAN
    BY <1>6 DEF NotifyNotEmpty, NotifyNotFull, CloseNotifyNotEmpty, CloseNotifyNotFull
  <2>2. QED
    BY <1>6, <2>1 DEF NotifyNotEmpty, NotifyNotFull, NotifyOne, SleepingEmpty,
       SleepingFull, CloseNotifyNotEmpty, CloseNotifyNotFull, NotifyAll
<1>7. QED
  BY <1>1, <1>2, <1>3, <1>4, <1>5, <1>6 DEF Quiet

LEMMA PointersUnused ==
  ASSUME NEW s \in Threads, pc'[s] \notin PointerLabels
  PROVE  PointerInv(s)'
  BY DEF PointerInv, PointerLabels

LEMMA StoreRetries ==
  ASSUME CallType, LocalType, NEW t \in Threads, OneMoreStore(t)
  PROVE  /\ pc' \in [Threads -> Labels] /\ LocalType'
         /\ msg' \in [Threads -> Messages \cup {NoMessage}]
         /\ outcome' \in [Threads -> Outcomes]
         /\ \A s \in Threads \ {t} :
              /\ pc'[s] = pc[s] /\ msg'[s] = msg[s] /\ outcome'[s] = outcome[s]
              /\ first'[s] = first[s] /\ last'[s] = last[s] /\ succ'[s] = succ[s]
         /\ \/ pc'[t] = "loadTail" /\ msg'[t] = msg[t] /\ outcome'[t] = outcome[t]
            \/ pc'[t] = "return" /\ outcome'[t] = "false" /\ op[t] = "TryEnqueue"
                 /\ msg'[t] = NoMessage
         /\ PointerInv(t)'
<1>1. pc'[t] \notin PointerLabels
  BY DEF CallType, OneMoreStore, Goto, Finish, PointerLabels
<1>2. PointerInv(t)'
  BY <1>1, PointersUnused
<1>3. QED
  BY <1>2, MichaelScottAssumption DEF CallType, LocalType, OneMoreStore, DropPointers, DropLocals,
     Set, Goto, Decide, Finish, Labels, StoreLoop, Outcomes, Null, Nodes

LEMMA PopRetries ==
  ASSUME CallType, LocalType, NEW t \in Threads, OneMorePop(t)
  PROVE  /\ pc' \in [Threads -> Labels] /\ LocalType'
         /\ outcome' \in [Threads -> Outcomes]
         /\ \A s \in Threads \ {t} :
              /\ pc'[s] = pc[s] /\ outcome'[s] = outcome[s]
              /\ first'[s] = first[s] /\ last'[s] = last[s] /\ succ'[s] = succ[s]
         /\ \/ pc'[t] = "loadHead" /\ outcome'[t] = outcome[t]
            \/ pc'[t] = "return" /\ outcome'[t] = "false" /\ op[t] = "TryDequeue"
         /\ PointerInv(t)'
<1>1. pc'[t] \notin PointerLabels
  BY DEF CallType, OneMorePop, Goto, Finish, PointerLabels
<1>2. PointerInv(t)'
  BY <1>1, PointersUnused
<1>3. QED
  BY <1>2, MichaelScottAssumption DEF CallType, LocalType, OneMorePop, DropPointers,
     Set, Goto, Decide, Finish, Labels, PopLoop, Outcomes, Null, Nodes

(* A thread swings the tail from the node it read there to the next one.   *)
LEMMA TailSwings ==
  ASSUME ListType, LocalType, ListWellFormed, NEW t \in Threads, SwingTail(t),
         last[t] \in 0..tail, succ[t] = last[t] + 1, succ[t] <= newest
  PROVE  tail' \in Nodes /\ tail <= tail' /\ tail' <= newest
  BY MichaelScottAssumption DEF ListType, LocalType, ListWellFormed, SwingTail, Nodes

LEMMA OnListTypes ==
  ASSUME Inv, NEW t \in Threads, OnList(t)
  PROVE  CallType' /\ ListType' /\ LocalType' /\ UNCHANGED <<mutex, size, closed, missed>>
<1>1. CallType /\ ListType /\ LocalType /\ ListWellFormed /\ PointerInv(t)
  BY TypeParts DEF Inv
<1> DEFINE Goal == CallType' /\ ListType' /\ LocalType'
                     /\ UNCHANGED <<mutex, size, closed, missed>>
<1> USE <1>1, MichaelScottAssumption
        DEF CallType, ListType, LocalType, Labels, StoreLoop, PopLoop, Outcomes,
            Set, Goto, Decide, Finish, listVars, localVars
<1>2. CASE LoadTail(t)
  BY <1>2 DEF LoadTail
<1>3. CASE LoadNext(t)
  <2>1. last[t] \in Nodes
    BY <1>3 DEF LoadNext, PointerInv, Nodes
  <2>2. QED
    BY <1>3, <2>1 DEF LoadNext
<1>4. CASE RecheckTail(t)
  <2>1. CASE OneMoreStore(t)
    BY <1>4, <2>1, StoreRetries DEF RecheckTail
  <2>2. CASE ~OneMoreStore(t)
    BY <1>4, <2>2 DEF RecheckTail
  <2>3. QED
    BY <1>4, <2>1, <2>2 DEF RecheckTail
<1>5. CASE Link(t)
  <2>1. newest + 1 \in Nodes
    <3>1. newest < MaxSends
      BY <1>5, RoomForNode DEF Link
    <3>2. QED
      BY <3>1 DEF Nodes
  <2>2. CASE OneMoreStore(t) /\ UNCHANGED <<next, value, newest>>
    BY <1>5, <2>2, StoreRetries DEF Link
  <2>3. CASE newest' = newest + 1
    BY <1>5, <2>1, <2>3 DEF Link
  <2>4. QED
    BY <1>5, <2>2, <2>3 DEF Link
<1>6. CASE HelpEnqueue(t)
  BY <1>6, StoreRetries, TailSwings DEF HelpEnqueue, PointerInv
<1>7. CASE Swing(t)
  <2>1. tail' \in Nodes
    BY <1>7, TailSwings DEF Swing, PointerInv
  <2>2. QED
    BY <1>7, <2>1 DEF Swing, DropLocals, DropPointers
<1>8. CASE LoadHead(t) \/ LoadLast(t)
  BY <1>8 DEF LoadHead, LoadLast
<1>9. CASE LoadFirstNext(t)
  <2>1. first[t] \in Nodes
    BY <1>9 DEF LoadFirstNext, PointerInv, Nodes
  <2>2. QED
    BY <1>9, <2>1 DEF LoadFirstNext
<1>10. CASE RecheckHead(t)
  <2>1. CASE OneMorePop(t)
    BY <1>10, <2>1, PopRetries DEF RecheckHead
  <2>2. CASE ~OneMorePop(t)
    BY <1>10, <2>2 DEF RecheckHead
  <2>3. QED
    BY <1>10, <2>1, <2>2 DEF RecheckHead
<1>11. CASE HelpDequeue(t)
  BY <1>11, PopRetries, TailSwings DEF HelpDequeue, PointerInv
<1>12. CASE Advance(t)
  <2>1. succ[t] \in Nodes
    BY <1>12 DEF Advance, PointerInv, Nodes
  <2>2. CASE OneMorePop(t) /\ UNCHANGED head
    BY <1>12, <2>2, PopRetries DEF Advance
  <2>3. CASE ~(OneMorePop(t) /\ UNCHANGED head)
    <3>1. /\ head' = succ[t] /\ pc' = [pc EXCEPT ![t] = "move"]
          /\ outcome' = [outcome EXCEPT ![t] = "returned"]
          /\ UNCHANGED <<role, op, msg, mutex, tail, next, value, newest, size,
                         closed, missed, first, last, succ, attempt>>
      BY <1>12, <2>3 DEF Advance
    <3>2. QED
      BY <2>1, <3>1
  <2>4. QED
    BY <1>12, <2>2, <2>3 DEF Advance
<1>13. CASE Move(t)
  <2>1. succ[t] \in Nodes
    BY <1>13 DEF Move, PointerInv, Nodes
  <2>2. QED
    BY <1>13, <2>1 DEF Move, DropLocals, DropPointers
<1>14. QED
  BY <1>2, <1>3, <1>4, <1>5, <1>6, <1>7, <1>8, <1>9, <1>10, <1>11, <1>12, <1>13
  DEF OnList

LEMMA StepType ==
  ASSUME Inv, [Next]_vars
  PROVE  TypeOK'
<1>1. CallType /\ ListType /\ LocalType /\ RestType
  BY TypeParts DEF Inv
<1>2. CASE UNCHANGED vars
  BY <1>2 DEF Inv, TypeOK, vars, callVars, listVars, localVars
<1>3. ASSUME NEW t \in Threads, Quiet(t) PROVE TypeOK'
  <2>1. ListType' /\ LocalType'
    BY <1>1, <1>3, QuietPointers DEF ListType, LocalType, listVars, localVars
  <2>2. QED
    BY <1>1, <1>3, <2>1, QuietTypes, TypePartsNext
<1>4. ASSUME NEW t \in Threads, OnList(t) PROVE TypeOK'
  <2>1. RestType'
    BY <1>1, <1>4, OnListTypes DEF RestType
  <2>2. QED
    BY <1>4, <2>1, OnListTypes, TypePartsNext
<1>5. QED
  BY <1>2, <1>3, <1>4, StepKinds

-----------------------------------------------------------------------------
(* What a thread knows of the list survives the steps of the others: head, *)
(* tail and the newest node only move forward.                             *)
LEMMA PointersKept ==
  ASSUME ListType, ListType', LocalType, NEW s \in Threads, PointerInv(s),
         head <= head', tail <= tail', newest <= newest',
         pc'[s] = pc[s], first'[s] = first[s], last'[s] = last[s], succ'[s] = succ[s]
  PROVE  PointerInv(s)'
  BY DEF ListType, LocalType, Nodes, Null, PointerInv

(* One step on the list: what it does to the four pointers of the queue,   *)
(* and what it leaves to the thread that made it.                          *)
LEMMA OnListStep ==
  ASSUME Inv, NEW t \in Threads, OnList(t)
  PROVE  /\ head <= head' /\ tail <= tail' /\ newest <= newest'
         /\ \A s \in Threads \ {t} :
              /\ pc'[s] = pc[s] /\ op'[s] = op[s] /\ msg'[s] = msg[s] /\ outcome'[s] = outcome[s]
              /\ first'[s] = first[s] /\ last'[s] = last[s] /\ succ'[s] = succ[s]
         /\ PointerInv(t)'
<1>1. CallType /\ ListType /\ LocalType /\ ListWellFormed /\ PointerInv(t)
  BY TypeParts DEF Inv
<1> USE <1>1, MichaelScottAssumption
        DEF CallType, ListType, LocalType, Set, Goto, Decide, Finish, listVars, localVars,
            Nodes, Null, PointerLabels
<1>2. CASE LoadTail(t)
  BY <1>2 DEF LoadTail, PointerInv
<1>3. CASE LoadNext(t)
  <2>1. next[last[t]] = IF last[t] < newest THEN last[t] + 1 ELSE Null
    BY <1>3 DEF LoadNext, ListWellFormed, PointerInv
  <2>2. QED
    BY <1>3, <2>1 DEF LoadNext, PointerInv
<1>4. CASE RecheckTail(t)
  <2>1. CASE OneMoreStore(t)
    BY <1>4, <2>1, StoreRetries DEF RecheckTail
  <2>2. CASE ~OneMoreStore(t)
    BY <1>4, <2>2 DEF RecheckTail, PointerInv
  <2>3. QED
    BY <2>1, <2>2
<1>5. CASE Link(t)
  <2>1. CASE OneMoreStore(t) /\ UNCHANGED newest
    BY <1>5, <2>1, StoreRetries DEF Link
  <2>2. CASE ~(OneMoreStore(t) /\ UNCHANGED newest)
    <3>1. last[t] = newest
      BY <1>5, <2>2 DEF Link, ListWellFormed, PointerInv
    <3>2. QED
      BY <1>5, <2>2, <3>1 DEF Link, PointerInv
  <2>3. QED
    BY <2>1, <2>2
<1>6. CASE HelpEnqueue(t)
  <2>1. tail <= tail' /\ head <= head' /\ newest <= newest'
    BY <1>6, TailSwings DEF HelpEnqueue, PointerInv
  <2>2. OneMoreStore(t) /\ op' = op
    BY <1>6 DEF HelpEnqueue
  <2>3. QED
    BY <2>1, <2>2, StoreRetries
<1>7. CASE Swing(t)
  <2>1. tail <= tail'
    BY <1>7, TailSwings DEF Swing, PointerInv
  <2>2. QED
    BY <1>7, <2>1, PointersUnused DEF Swing, DropLocals, DropPointers
<1>8. CASE LoadHead(t)
  BY <1>8 DEF LoadHead, PointerInv
<1>9. CASE LoadLast(t)
  BY <1>9 DEF LoadLast, PointerInv, ListWellFormed
<1>10. CASE LoadFirstNext(t)
  <2>1. next[first[t]] = IF first[t] < newest THEN first[t] + 1 ELSE Null
    BY <1>10 DEF LoadFirstNext, ListWellFormed, PointerInv
  <2>2. QED
    BY <1>10, <2>1 DEF LoadFirstNext, PointerInv
<1>11. CASE RecheckHead(t)
  <2>1. CASE OneMorePop(t)
    BY <1>11, <2>1, PopRetries DEF RecheckHead
  <2>2. CASE ~OneMorePop(t)
    BY <1>11, <2>2 DEF RecheckHead, PointerInv
  <2>3. QED
    BY <2>1, <2>2
<1>12. CASE HelpDequeue(t)
  <2>1. tail <= tail'
    BY <1>12, TailSwings DEF HelpDequeue, PointerInv
  <2>2. QED
    BY <1>12, <2>1, PopRetries DEF HelpDequeue
<1>13. CASE Advance(t)
  <2>1. CASE OneMorePop(t) /\ UNCHANGED head
    BY <1>13, <2>1, PopRetries DEF Advance
  <2>2. CASE ~(OneMorePop(t) /\ UNCHANGED head)
    BY <1>13, <2>2 DEF Advance, PointerInv
  <2>3. QED
    BY <2>1, <2>2
<1>14. CASE Move(t)
  BY <1>14, PointersUnused DEF Move, DropLocals, DropPointers
<1>15. QED
  BY <1>2, <1>3, <1>4, <1>5, <1>6, <1>7, <1>8, <1>9, <1>10, <1>11, <1>12, <1>13, <1>14
  DEF OnList

LEMMA StepPointer ==
  ASSUME Inv, [Next]_vars
  PROVE  \A s \in Threads : PointerInv(s)'
<1> SUFFICES ASSUME NEW s \in Threads PROVE PointerInv(s)'
  OBVIOUS
<1>1. PointerInv(s) /\ CallType /\ LocalType /\ ListType /\ ListType'
  BY StepType, TypeParts, TypePartsNext DEF Inv
<1>2. CASE UNCHANGED vars
  BY <1>1, <1>2 DEF PointerInv, vars, callVars, listVars, localVars
<1>3. ASSUME NEW t \in Threads, Quiet(t) PROVE PointerInv(s)'
  BY <1>1, <1>3, QuietPointers, PointersKept, PointersUnused
  DEF ListType, Nodes, listVars, localVars
<1>4. ASSUME NEW t \in Threads, OnList(t) PROVE PointerInv(s)'
  BY <1>1, <1>4, OnListStep, PointersKept
<1>5. QED
  BY <1>2, <1>3, <1>4, StepKinds

-----------------------------------------------------------------------------
(* Swinging the tail makes it catch up, or somebody else still has to.     *)
LEMMA TailCatchesUp ==
  ASSUME ListType, LocalType, ListWellFormed, NEW t \in Threads, SwingTail(t),
         last[t] \in 0..tail, succ[t] = last[t] + 1, succ[t] <= newest,
         UNCHANGED <<head, next, newest>>,
         \A s \in Threads \ {t} : pc'[s] = pc[s] /\ succ'[s] = succ[s]
  PROVE  ListWellFormed'
<1> USE DEF ListType, LocalType, ListWellFormed, Nodes, Null, At
<1>1. tail <= tail' /\ tail' <= newest /\ tail \in Nat /\ tail' \in Nat /\ newest \in Nat
  BY TailSwings, MichaelScottAssumption
<1>2. CASE tail' = newest
  BY <1>1, <1>2
<1>3. CASE tail' # newest
  <2>1. tail' = tail /\ tail = newest - 1 /\ tail # last[t]
    BY <1>1, <1>3 DEF SwingTail
  <2>2. PICK s \in At({"swing"}) : succ[s] = newest
    BY <2>1
  <2>3. s # t
    <3>1. last[t] \in Nat
      BY <1>1
    <3>2. succ[t] # newest
      BY ONLY <1>1, <2>1, <3>1, succ[t] = last[t] + 1
    <3>3. QED
      BY ONLY <2>2, <3>2
  <2>4. s \in At({"swing"})' /\ succ'[s] = newest'
    BY <2>2, <2>3
  <2>5. QED
    BY <1>1, <2>1, <2>4
<1>4. QED
  BY <1>2, <1>3

(* A step that leaves the list alone and does not leave "swing". *)
LEMMA ListKept ==
  ASSUME ListType, ListWellFormed, UNCHANGED <<tail, next, newest>>,
         head <= head', head' <= tail, head' \in Nodes,
         \A s \in Threads : pc[s] = "swing" => pc'[s] = "swing" /\ succ'[s] = succ[s]
  PROVE  ListWellFormed'
  BY DEF ListType, ListWellFormed, At

LEMMA StepList ==
  ASSUME Inv, [Next]_vars
  PROVE  ListWellFormed'
<1>1. CallType /\ ListType /\ LocalType /\ ListWellFormed /\ ListType' /\ CallType'
  BY StepType, TypeParts, TypePartsNext DEF Inv
<1>2. \A t \in Threads : PointerInv(t) /\ CallInv(t)
  BY DEF Inv
<1>3. CASE UNCHANGED vars
  BY <1>1, <1>3 DEF ListWellFormed, At, vars, callVars, listVars, localVars
<1>4. ASSUME NEW t \in Threads, Quiet(t) PROVE ListWellFormed'
  <2>1. UNCHANGED <<listVars, localVars>>
    BY <1>1, <1>4, QuietPointers
  <2>2. \A s \in Threads : pc[s] = "swing" => pc'[s] = "swing"
    BY <1>1, <1>4, QuietPointers DEF PointerLabels
  <2>3. QED
    BY <1>1, <2>1, <2>2, ListKept DEF ListWellFormed, ListType, Nodes, listVars, localVars
<1>5. ASSUME NEW t \in Threads, OnList(t) PROVE ListWellFormed'
  <2>1. \A s \in Threads \ {t} : pc'[s] = pc[s] /\ succ'[s] = succ[s]
    BY <1>5, OnListStep
  <2>2. CASE pc[t] # "swing" /\ UNCHANGED <<head, tail, next, newest>>
    BY <1>1, <2>1, <2>2, ListKept DEF ListWellFormed, ListType, Nodes
  <2>3. CASE LoadTail(t) \/ LoadNext(t) \/ RecheckTail(t)
    BY <2>2, <2>3 DEF LoadTail, LoadNext, RecheckTail, listVars
  <2>4. CASE Link(t)
    <3>1. CASE UNCHANGED <<next, newest>>
      BY <2>2, <2>4, <3>1 DEF Link
    <3>2. CASE ~UNCHANGED <<next, newest>>
      <4>1. last[t] = newest /\ tail = newest
        <5>1. pc[t] = "link" /\ next[last[t]] = Null
          BY <2>4, <3>2 DEF Link
        <5>2. last[t] \in 0..tail
          BY <1>2, <5>1 DEF PointerInv
        <5>3. tail \in Nodes /\ newest \in Nodes /\ tail <= newest /\ last[t] \in Nodes
          BY <1>1, <5>2, MichaelScottAssumption DEF ListWellFormed, ListType, Nodes
        <5>4. ~(last[t] < newest)
          BY <1>1, <5>1, <5>3 DEF ListWellFormed, Nodes, Null
        <5>5. QED
          BY <5>2, <5>3, <5>4 DEF Nodes
      <4>2. newest' = newest + 1 /\ next' = [next EXCEPT ![newest] = newest + 1]
        BY <2>4, <3>2, <4>1 DEF Link
      <4>3. pc'[t] = "swing" /\ succ'[t] = newest'
        BY <1>1, <2>4, <3>2 DEF Link, Goto, Set, CallType, LocalType
      <4>4. UNCHANGED <<head, tail>>
        BY <2>4 DEF Link
      <4>5. \A n \in Nodes : next'[n] = IF n < newest' THEN n + 1 ELSE Null
        BY <1>1, <4>2 DEF ListWellFormed, ListType, Nodes, Null
      <4>6. t \in At({"swing"})'
        BY <4>3 DEF At
      <4>7. head' <= tail' /\ tail' = newest' - 1
        BY <1>1, <4>1, <4>2, <4>4 DEF ListWellFormed, ListType, Nodes
      <4>8. QED
        BY <4>3, <4>5, <4>6, <4>7 DEF ListWellFormed
    <3>3. QED
      BY <3>1, <3>2
  <2>5. CASE HelpEnqueue(t)
    BY <1>1, <1>2, <2>1, <2>5, TailCatchesUp DEF HelpEnqueue, PointerInv
  <2>6. CASE Swing(t)
    BY <1>1, <1>2, <2>1, <2>6, TailCatchesUp DEF Swing, PointerInv
  <2>7. CASE LoadHead(t) \/ LoadLast(t) \/ LoadFirstNext(t) \/ RecheckHead(t) \/ Move(t)
    BY <2>2, <2>7 DEF LoadHead, LoadLast, LoadFirstNext, RecheckHead, Move, listVars
  <2>8. CASE HelpDequeue(t)
    BY <1>1, <1>2, <2>1, <2>8, TailCatchesUp DEF HelpDequeue, PointerInv
  <2>9. CASE Advance(t)
    <3>1. CASE UNCHANGED head
      BY <2>2, <2>9, <3>1 DEF Advance
    <3>2. CASE ~UNCHANGED head
      <4>1. head' = succ[t] /\ head <= head' /\ head' <= tail /\ pc[t] = "advance"
            /\ UNCHANGED <<tail, next, newest>>
        BY <1>1, <1>2, <2>9, <3>2 DEF Advance, PointerInv, ListType, LocalType, Nodes, Null
      <4>2. QED
        BY <1>1, <2>1, <4>1, ListKept DEF ListType
    <3>3. QED
      BY <3>1, <3>2
  <2>10. QED
    BY <1>5, <2>3, <2>4, <2>5, <2>6, <2>7, <2>8, <2>9 DEF OnList
<1>6. QED
  BY <1>3, <1>4, <1>5, StepKinds

-----------------------------------------------------------------------------
LEMMA StepValue ==
  ASSUME Inv, [Next]_vars
  PROVE  ValueInv'
<1>1. CallType /\ ListType /\ LocalType /\ ListWellFormed /\ ListType' /\ CallType' /\ ValueInv
  BY StepType, TypeParts, TypePartsNext DEF Inv
<1>2. \A t \in Threads : PointerInv(t) /\ CallInv(t)
  BY DEF Inv
<1> DEFINE Kept == /\ UNCHANGED <<head, value, newest>>
                   /\ \A s \in Threads : pc'[s] = "move" =>
                        pc[s] = "move" /\ succ'[s] = succ[s]
<1>3. ASSUME Kept PROVE ValueInv'
  BY <1>1, <1>3 DEF ValueInv
<1>4. CASE UNCHANGED vars
  BY <1>3, <1>4 DEF vars, callVars, listVars, localVars
<1>5. ASSUME NEW t \in Threads, Quiet(t) PROVE ValueInv'
  BY <1>1, <1>3, <1>5, QuietPointers DEF PointerLabels, listVars, localVars
<1>6. ASSUME NEW t \in Threads, OnList(t) PROVE ValueInv'
  <2>1. \A s \in Threads \ {t} : pc'[s] = pc[s] /\ succ'[s] = succ[s]
    BY <1>6, OnListStep
  <2>2. CASE pc'[t] # "move" /\ UNCHANGED <<head, value, newest>>
    BY <1>3, <2>1, <2>2
  <2>3. CASE Link(t) /\ newest' # newest
    <3>1. newest' = newest + 1 /\ value' = [value EXCEPT ![newest'] = msg[t]] /\ pc[t] = "link"
          /\ pc' = [pc EXCEPT ![t] = "swing"] /\ head' = head
      BY <2>3 DEF Link, Goto
    <3>2. msg[t] \in Messages
      BY <1>2, <3>1 DEF CallInv, BeforeStore, StoreLoop
    <3>3. newest' \in Nodes /\ newest \in Nodes
      BY <1>1
      DEF ListType
    <3>4. \A n \in Nodes : n > head' /\ n <= newest' => value'[n] \in Messages
      BY <1>1, <3>1, <3>2, <3>3 DEF ValueInv, ListType, Nodes
    <3>5. \A s \in Threads : pc'[s] = "move" =>
             s # t /\ pc[s] = "move" /\ succ'[s] = succ[s] /\ succ[s] \in 1..head
      BY <1>1, <1>2, <2>1, <3>1 DEF CallType, PointerInv
    <3>6. head < newest'
      BY <1>1, <3>1 DEF ListWellFormed, ListType, Nodes
    <3>7. \A s \in Threads : pc'[s] = "move" => value'[succ'[s]] = value[succ[s]]
      BY <1>1, <3>1, <3>5, <3>6 DEF ListType, Nodes
    <3>8. QED
      BY <1>1, <3>4, <3>5, <3>7 DEF ValueInv
  <2>4. CASE Advance(t) /\ head' # head
    <3>1. head' = succ[t] /\ pc[t] = "advance" /\ pc' = [pc EXCEPT ![t] = "move"] /\ first[t] = head
          /\ UNCHANGED <<value, newest, succ>>
      BY <2>4 DEF Advance, Goto, localVars
    <3>2. succ[t] = head + 1 /\ succ[t] <= newest
      BY <1>2, <3>1 DEF PointerInv
    <3>3. value[succ[t]] \in Messages
      BY <1>1, <3>1, <3>2 DEF ValueInv, ListType, Nodes
    <3>4. \A s \in Threads \ {t} : pc[s] = "move" => succ[s] \in 1..head
      BY <1>2 DEF PointerInv
    <3>5. \A n \in Nodes : n > head' /\ n <= newest' => value'[n] \in Messages
      BY <1>1, <3>1, <3>2 DEF ValueInv, ListType, Nodes
    <3>6. \A s \in Threads : pc'[s] = "move" => value'[succ'[s]] \in Messages
      BY <1>1, <2>1, <3>1, <3>3 DEF ValueInv, CallType
    <3>7. \A s \in Threads \ {t} : pc[s] = "move" => succ[s] # succ[t]
      BY <1>1, <3>2, <3>4 DEF ListType, Nodes
    <3>8. QED
      BY <1>1, <2>1, <3>1, <3>5, <3>6, <3>7 DEF ValueInv
  <2>5. CASE Move(t)
    <3>1. pc[t] = "move" /\ value' = [value EXCEPT ![succ[t]] = NoMessage]
          /\ pc' = [pc EXCEPT ![t] = "countDown"] /\ UNCHANGED <<head, newest>>
      BY <2>5 DEF Move, Goto
    <3>2. succ[t] \in 1..head
      BY <1>2, <3>1 DEF PointerInv
    <3>3. \A s \in Threads : pc'[s] = "move" =>
             pc[s] = "move" /\ succ'[s] = succ[s] /\ succ[s] # succ[t]
      BY <1>1, <2>1, <3>1 DEF CallType, ValueInv
    <3>4. \A n \in Nodes : n > head => n # succ[t]
      BY <1>1, <3>2 DEF ListType, Nodes
    <3>5. \A n \in Nodes : n # succ[t] => value'[n] = value[n]
      BY <1>1, <3>1 DEF ListType
    <3>6. \A s \in Threads : pc[s] = "move" => succ[s] \in Nodes
      BY <1>1, <1>2, MichaelScottAssumption DEF PointerInv, ListType, Nodes
    <3>7. QED
      BY <1>1, <3>1, <3>3, <3>4, <3>5, <3>6 DEF ValueInv
  <2>6. CASE LoadTail(t) \/ LoadNext(t) \/ RecheckTail(t)
    BY <1>1, <2>2, <2>6, StoreRetries
    DEF LoadTail, LoadNext, RecheckTail, listVars, CallType, Goto
  <2>7. CASE Link(t) /\ newest' = newest
    <3>1. pc'[t] # "move" /\ UNCHANGED <<head, value>>
      BY <1>1, <2>7, StoreRetries DEF Link, ListType, Nodes
    <3>2. QED
      BY <2>2, <2>7, <3>1
  <2>8. CASE HelpEnqueue(t) \/ Swing(t)
    BY <1>1, <2>2, <2>8, StoreRetries DEF HelpEnqueue, Swing, Goto, CallType
  <2>9. CASE LoadHead(t) \/ LoadLast(t) \/ LoadFirstNext(t)
    BY <1>1, <2>2, <2>9 DEF LoadHead, LoadLast, LoadFirstNext, listVars, Goto, CallType
  <2>10. CASE RecheckHead(t) \/ HelpDequeue(t) \/ (Advance(t) /\ head' = head)
    <3>1. UNCHANGED <<head, value, newest>>
      BY <2>10 DEF RecheckHead, HelpDequeue, Advance, listVars
    <3>2. pc'[t] # "move"
      <4>1. CASE Advance(t) /\ head' = head
        <5>1. ~(head = first[t] /\ head' = succ[t])
          BY <1>1, <1>2, <4>1 DEF Advance, PointerInv, ListType, Nodes
        <5>2. QED
          BY <1>1, <4>1, <5>1, PopRetries DEF Advance
      <4>2. CASE RecheckHead(t) \/ HelpDequeue(t)
        BY <1>1, <4>2, PopRetries DEF RecheckHead, HelpDequeue, Goto, CallType
      <4>3. QED
        BY <2>10, <4>1, <4>2
    <3>3. QED
      BY <2>2, <3>1, <3>2
  <2>11. QED
    BY <1>6, <2>3, <2>4, <2>5, <2>6, <2>7, <2>8, <2>9, <2>10 DEF OnList
<1>7. QED
  BY <1>4, <1>5, <1>6, StepKinds

-----------------------------------------------------------------------------
LEMMA QuietCalls ==
  ASSUME CallType, \A s \in Threads : CallInv(s), NEW t \in Threads, Quiet(t)
  PROVE  \A s \in Threads : CallInv(s)'
<1> USE DEF CallType, CallInv, BeforeStore, BeforePop, StoreLoop, PopLoop, StoreOps,
        PopOps, SendOps, ReadOps, TryOps, Goto, Decide, Finish, restVars
<1>1. CASE Call(t)
  <2>1. CASE CallSend(t)
    BY <1>1, <2>1 DEF Call, CallSend, Enter, AccountThreads
  <2>2. CASE CallRead(t)
    BY <1>1, <2>2 DEF Call, CallRead, Enter, AccountThreads
  <2>3. CASE CallClose(t) \/ CallTryEnqueue(t) \/ CallTryDequeue(t)
    BY <1>1, <2>3 DEF Call, CallClose, CallTryEnqueue, CallTryDequeue, Enter
  <2>4. QED
    BY <1>1, <2>1, <2>2, <2>3 DEF Call
<1>2. CASE CheckSendDeadlockPossibility(t) \/ CheckReadDeadlockPossibility(t)
  BY <1>2 DEF CheckSendDeadlockPossibility, CheckReadDeadlockPossibility,
     AfterCheck, HandleDeadlock
<1>3. CASE SyncAndOverflowPrework(t) \/ SyncAndUnderflowPrework(t)
  BY <1>3 DEF SyncAndOverflowPrework, SyncAndUnderflowPrework
<1>4. CASE \/ TrySyncAndOverflowPrework(t) \/ TrySyncAndUnderflowPrework(t)
           \/ TryRoom(t) \/ Block(t)
  BY <1>4 DEF TrySyncAndOverflowPrework, TrySyncAndUnderflowPrework, TryRoom, Block
<1>5. CASE CountUp(t) \/ CountDown(t) \/ SpuriousWakeup(t)
  BY <1>5 DEF CountUp, CountDown, SpuriousWakeup
<1>6. CASE Leave(t) \/ Close(t)
  BY <1>6 DEF Leave, Return, Close
<1>7. CASE NotifyNotEmpty(t) \/ NotifyNotFull(t)
  BY <1>7 DEF NotifyNotEmpty, NotifyNotFull, NotifyOne, SleepingEmpty, SleepingFull
<1>8. CASE CloseNotifyNotEmpty(t) \/ CloseNotifyNotFull(t)
  BY <1>8 DEF CloseNotifyNotEmpty, CloseNotifyNotFull, NotifyAll, SleepingEmpty, SleepingFull
<1>9. QED
  BY <1>1, <1>2, <1>3, <1>4, <1>5, <1>6, <1>7, <1>8 DEF Quiet

LEMMA OnListCalls ==
  ASSUME Inv, NEW t \in Threads, OnList(t)
  PROVE  \A s \in Threads : CallInv(s)'
<1>1. CallType /\ LocalType /\ \A s \in Threads : CallInv(s)
  BY TypeParts DEF Inv
<1>2. \A s \in Threads \ {t} : CallInv(s)'
  BY <1>1, OnListStep DEF CallInv
<1>3. CallInv(t)'
  <2> USE <1>1 DEF CallType, CallInv, BeforeStore, BeforePop, StoreLoop, PopLoop, StoreOps,
          PopOps, SendOps, ReadOps, Goto, Decide, listVars, localVars
  <2>1. CASE LoadTail(t) \/ LoadNext(t)
    BY <2>1 DEF LoadTail, LoadNext
  <2>2. CASE RecheckTail(t)
    BY <2>2, StoreRetries DEF RecheckTail
  <2>3. CASE Link(t)
    BY <2>3, StoreRetries DEF Link
  <2>4. CASE HelpEnqueue(t)
    BY <2>4, StoreRetries DEF HelpEnqueue
  <2>5. CASE Swing(t) \/ Move(t)
    BY <2>5 DEF Swing, Move
  <2>6. CASE LoadHead(t) \/ LoadLast(t) \/ LoadFirstNext(t)
    BY <2>6 DEF LoadHead, LoadLast, LoadFirstNext
  <2>7. CASE RecheckHead(t)
    BY <2>7, PopRetries DEF RecheckHead
  <2>8. CASE HelpDequeue(t)
    BY <2>8, PopRetries DEF HelpDequeue
  <2>9. CASE Advance(t)
    BY <2>9, PopRetries DEF Advance
  <2>10. QED
    BY <2>1, <2>2, <2>3, <2>4, <2>5, <2>6, <2>7, <2>8, <2>9 DEF OnList
<1>4. QED
  BY <1>2, <1>3

LEMMA StepCall ==
  ASSUME Inv, [Next]_vars
  PROVE  \A s \in Threads : CallInv(s)'
<1>1. CallType /\ \A s \in Threads : CallInv(s)
  BY TypeParts DEF Inv
<1>2. CASE UNCHANGED vars
  BY <1>1, <1>2 DEF CallInv, vars, callVars
<1>3. QED
  BY <1>1, <1>2, QuietCalls, OnListCalls, StepKinds

-----------------------------------------------------------------------------
(* Only a new call adds a sender, and it is let in only when a node is     *)
(* left.                                                                   *)
LEMMA StoringShrinks ==
  ASSUME Inv, NEW t \in Threads, Quiet(t) \/ OnList(t), ~Call(t)
  PROVE  Storing' \subseteq Storing
<1>1. CallType /\ LocalType
  BY TypeParts DEF Inv
<1> USE <1>1 DEF CallType, Storing, StoreOps, SendOps, Goto, Decide, Finish, restVars
<1>2. CASE OnList(t)
  <2>1. \A s \in Threads \ {t} : op'[s] = op[s] /\ outcome'[s] = outcome[s]
    BY <1>2, OnListStep
  <2>2. op'[t] = op[t] /\ (outcome'[t] = "none" => outcome[t] = "none")
    <3>1. CASE OneMoreStore(t) \/ OneMorePop(t)
      BY <1>2, <3>1, StoreRetries, PopRetries DEF OnList, LoadTail, LoadNext,
         RecheckTail, Link, HelpEnqueue, Swing, LoadHead, LoadLast, LoadFirstNext,
         RecheckHead, HelpDequeue, Advance, Move
    <3>2. CASE ~(OneMoreStore(t) \/ OneMorePop(t))
      BY <1>2, <3>2 DEF OnList, LoadTail, LoadNext,
         RecheckTail, Link, HelpEnqueue, Swing, LoadHead, LoadLast, LoadFirstNext,
         RecheckHead, HelpDequeue, Advance, Move
    <3>3. QED
      BY <3>1, <3>2
  <2>3. QED
    BY <2>1, <2>2
<1>3. CASE CheckSendDeadlockPossibility(t) \/ CheckReadDeadlockPossibility(t)
  BY <1>3 DEF CheckSendDeadlockPossibility, CheckReadDeadlockPossibility,
     AfterCheck, HandleDeadlock
<1>4. CASE \/ SyncAndOverflowPrework(t) \/ SyncAndUnderflowPrework(t)
           \/ TrySyncAndOverflowPrework(t) \/ TrySyncAndUnderflowPrework(t)
           \/ TryRoom(t) \/ Block(t)
  BY <1>4 DEF SyncAndOverflowPrework, SyncAndUnderflowPrework,
     TrySyncAndOverflowPrework, TrySyncAndUnderflowPrework, TryRoom, Block
<1>5. CASE \/ CountUp(t) \/ CountDown(t) \/ SpuriousWakeup(t) \/ Leave(t) \/ Close(t)
           \/ NotifyNotEmpty(t) \/ NotifyNotFull(t)
           \/ CloseNotifyNotEmpty(t) \/ CloseNotifyNotFull(t)
  BY <1>5 DEF CountUp, CountDown, SpuriousWakeup, Leave, Return, Close,
     NotifyNotEmpty, NotifyNotFull, CloseNotifyNotEmpty, CloseNotifyNotFull
<1>6. QED
  BY <1>2, <1>3, <1>4, <1>5 DEF Quiet

LEMMA StepNodes ==
  ASSUME Inv, [Next]_vars
  PROVE  NodesLeft'
<1>1. CallType /\ ListType /\ LocalType /\ NodesLeft
  BY TypeParts DEF Inv
<1>2. /\ IsFiniteSet(Storing) /\ IsFiniteSet(Storing')
      /\ Cardinality(Storing) \in Nat /\ Cardinality(Storing') \in Nat
      /\ newest \in Nat /\ MaxSends \in Nat
  <2>1. IsFiniteSet(Storing) /\ IsFiniteSet(Storing')
    BY ThreadsAssumption, FS_Subset DEF Storing
  <2>2. QED
    BY <1>1, <2>1, FS_CardinalityType, MichaelScottAssumption DEF ListType, Nodes
<1>3. ASSUME newest' = newest, Storing' \subseteq Storing PROVE NodesLeft'
  <2>1. Cardinality(Storing') <= Cardinality(Storing)
    BY <1>2, <1>3, FS_Subset
  <2>2. QED
    BY <1>1, <1>2, <1>3, <2>1 DEF NodesLeft
<1>4. CASE UNCHANGED vars
  BY <1>3, <1>4 DEF vars, callVars, listVars, Storing
<1>5. ASSUME NEW t \in Threads, Call(t) PROVE NodesLeft'
  <2>1. newest' = newest
    BY <1>5 DEF Call, restVars, listVars
  <2>2. CASE op'[t] \in StoreOps
    <3>1. newest + Cardinality(Storing) < MaxSends
      BY <1>5, <2>2 DEF Call
    <3>2. Storing' \subseteq Storing \cup {t}
      BY <1>1, <1>5 DEF CallType, Call, CallSend, CallRead, CallClose, CallTryEnqueue,
         CallTryDequeue, Enter, AccountThreads, Decide, Finish, Storing
    <3>3. Cardinality(Storing \cup {t}) <= Cardinality(Storing) + 1 /\ IsFiniteSet(Storing \cup {t})
          /\ Cardinality(Storing \cup {t}) \in Nat
      <4>1. /\ IsFiniteSet(Storing \cup {t})
            /\ \/ Cardinality(Storing \cup {t}) = Cardinality(Storing)
               \/ Cardinality(Storing \cup {t}) = Cardinality(Storing) + 1
        BY <1>2, FS_AddElement
      <4>2. QED
        BY <1>2, <4>1
    <3>4. Cardinality(Storing') <= Cardinality(Storing \cup {t})
      BY <3>2, <3>3, FS_Subset
    <3>5. QED
      BY <1>2, <2>1, <3>1, <3>3, <3>4 DEF NodesLeft
  <2>3. CASE op'[t] \notin StoreOps
    <3>1. Storing' \subseteq Storing
      BY <1>1, <1>5, <2>3 DEF CallType, Call, CallSend, CallRead, CallClose, CallTryEnqueue,
         CallTryDequeue, Enter, AccountThreads, Decide, Finish, Storing
    <3>2. QED
      BY <1>3, <2>1, <3>1
  <2>4. QED
    BY <2>2, <2>3
<1>6. ASSUME NEW t \in Threads, Link(t), newest' # newest PROVE NodesLeft'
  <2>1. pc[t] = "link" /\ newest' = newest + 1
    BY <1>6 DEF Link
  <2>2. newest + 1 + Cardinality(Storing \ {t}) <= MaxSends
    BY <2>1, RoomForNode DEF StoreLoop
  <2>3. Storing' \subseteq Storing \ {t}
    <3>1. outcome' = [outcome EXCEPT ![t] = "returned"] /\ UNCHANGED op
      BY <1>6 DEF Link, Decide
    <3>2. QED
      BY <1>1, <3>1 DEF Storing, CallType
  <2>4. IsFiniteSet(Storing \ {t}) /\ Cardinality(Storing') <= Cardinality(Storing \ {t})
        /\ Cardinality(Storing \ {t}) \in Nat
    <3>1. IsFiniteSet(Storing \ {t})
      BY <1>2, FS_Subset
    <3>2. QED
      BY <2>3, <3>1, FS_Subset, FS_CardinalityType
  <2>5. QED
    BY <1>2, <2>1, <2>2, <2>4 DEF NodesLeft
<1>7. ASSUME NEW t \in Threads, Quiet(t) \/ OnList(t), ~Call(t) PROVE NodesLeft'
  <2>1. Storing' \subseteq Storing
    BY <1>7, StoringShrinks
  <2>2. CASE newest' = newest
    BY <1>3, <2>1, <2>2
  <2>3. CASE newest' # newest
    <3>1. ~Quiet(t)
      BY <1>1, <2>3, QuietPointers DEF listVars
    <3>2. Link(t)
      BY <1>7, <2>3, <3>1 DEF OnList, LoadTail, LoadNext,
         RecheckTail, HelpEnqueue, Swing, LoadHead, LoadLast, LoadFirstNext,
         RecheckHead, HelpDequeue, Advance, Move, listVars
    <3>3. QED
      BY <1>6, <2>3, <3>2
  <2>4. QED
    BY <2>2, <2>3
<1>8. QED
  BY <1>4, <1>5, <1>7, StepKinds

LEMMA StepInv == Inv /\ [Next]_vars => Inv'
  BY StepType, StepCall, StepPointer, StepList, StepValue, StepNodes DEF Inv

(* Every variable of the Michael-Scott queue keeps its type: in particular *)
(* no pointer that is followed is ever null or past the nodes.             *)
THEOREM TypeCorrect == Spec => []TypeOK
<1>1. Inv => TypeOK
  BY DEF Inv
<1>2. QED
  BY InitInv, StepInv, <1>1, PTL DEF Spec

(* However the compare-and-swaps of any number of threads interleave, the  *)
(* nodes are one chain in the order of linking, the tail never falls       *)
(* behind the head, and it lags by one node at most.                       *)
THEOREM ListCorrect == Spec => []ListWellFormed
<1>1. Inv => ListWellFormed
  BY DEF Inv
<1>2. QED
  BY InitInv, StepInv, <1>1, PTL DEF Spec
-----------------------------------------------------------------------------
(***************************************************************************)
(* The size counter, the refinement of LooseFifo and the wakeups.  The     *)
(* counter lags behind the list in both directions, so the proof counts    *)
(* the threads between the list and the counter.                           *)
(***************************************************************************)
Linked  == {"swing", "countUp"}     \* linked, but not counted
Removed == {"move", "countDown"}    \* taken out, but still counted

(* The number of messages the counter stands for. *)
Counted == newest - head - Number(Linked) + Number(Removed)

(* CapacityOvershoot, for the readers not counted down either, and         *)
(* SizeAccounting without the modulus: below zero the counter is past the  *)
(* other end of its range.                                                 *)
OvershootInv ==
  newest - head + Number(StoreLoop) + Number(Removed)
    <= Capacity + Cardinality(Producers) - 1

SizeInv == size = IF Counted < 0 THEN Counted + SizeModulus ELSE Counted

-----------------------------------------------------------------------------
(* How a number of threads changes when one of them moves. *)
LEMMA NumberType ==
  ASSUME NEW CONSTANT labels
  PROVE  /\ IsFiniteSet(At(labels)) /\ Number(labels) \in Nat
         /\ Number(labels) <= Cardinality(Threads)
<1>1. IsFiniteSet(Threads) /\ At(labels) \subseteq Threads
  BY ThreadsAssumption DEF At
<1>2. QED
  BY <1>1, FS_Subset, FS_CardinalityType DEF Number

LEMMA NumberTypeNext ==
  ASSUME NEW CONSTANT labels
  PROVE  IsFiniteSet(At(labels)') /\ Number(labels)' \in Nat
<1>1. IsFiniteSet(Threads) /\ At(labels)' \subseteq Threads
  BY ThreadsAssumption DEF At
<1>2. QED
  BY <1>1, FS_Subset, FS_CardinalityType DEF Number

LEMMA NobodyMoves ==
  ASSUME NEW CONSTANT labels, \A s \in Threads : pc'[s] \in labels <=> pc[s] \in labels
  PROVE  Number(labels)' = Number(labels)
<1>1. At(labels)' = At(labels)
  BY DEF At
<1>2. QED
  BY <1>1 DEF Number

LEMMA OneArrives ==
  ASSUME NEW CONSTANT labels, NEW t \in Threads, pc[t] \notin labels, pc'[t] \in labels,
         \A s \in Threads \ {t} : pc'[s] \in labels <=> pc[s] \in labels
  PROVE  Number(labels)' = Number(labels) + 1
<1>1. At(labels)' = At(labels) \cup {t} /\ t \notin At(labels)
  BY DEF At
<1>2. QED
  BY <1>1, NumberType, FS_AddElement DEF Number

LEMMA OneDeparts ==
  ASSUME NEW CONSTANT labels, NEW t \in Threads, pc[t] \in labels, pc'[t] \notin labels,
         \A s \in Threads \ {t} : pc'[s] \in labels <=> pc[s] \in labels
  PROVE  Number(labels)' = Number(labels) - 1 /\ Number(labels) > 0
<1>1. At(labels)' = At(labels) \ {t} /\ t \in At(labels)
  BY DEF At
<1>2. Number(labels)' = Number(labels) - 1
  BY <1>1, NumberType, FS_RemoveElement DEF Number
<1>3. QED
  BY <1>2, NumberType, NumberTypeNext

(* Arithmetic of the counter at the ends of its range. *)
LEMMA CounterUp ==
  ASSUME NEW M \in Nat, M > 1, NEW n \in 0..(M - 1)
  PROVE  (n + 1) % M = IF n = M - 1 THEN 0 ELSE n + 1
  OBVIOUS

LEMMA CounterDown ==
  ASSUME NEW M \in Nat, M > 1, NEW n \in 0..(M - 1)
  PROVE  (n - 1) % M = IF n = 0 THEN M - 1 ELSE n - 1
  OBVIOUS

LEMMA CounterWraps ==
  ASSUME NEW M \in Nat, M > 1, NEW n \in Int, -M < n, n < M
  PROVE  n % M = IF n < 0 THEN n + M ELSE n
  OBVIOUS

LEMMA QueueLength ==
  ASSUME ListType, ListWellFormed
  PROVE  Len(Queue) = newest - head /\ Len(Queue) \in Nat
<1>1. newest - head \in Nat
  BY MichaelScottAssumption DEF ListType, ListWellFormed, Nodes
<1>2. QED
  BY <1>1 DEF Queue

-----------------------------------------------------------------------------
(* What a step does to the numbers that the counter depends on. *)
Balanced ==
  /\ UNCHANGED <<head, newest, size>>
  /\ Number(Linked)' = Number(Linked) /\ Number(Removed)' = Number(Removed)

(* No sender more may link. *)
NobodyLetIn == Balanced /\ Number(StoreLoop)' <= Number(StoreLoop)

LetIn(t) ==
  /\ Balanced /\ Number(StoreLoop)' = Number(StoreLoop) + 1
  /\ HasRoom /\ t \in Producers /\ pc[t] \in {"sync", "tryFull"}

Links(t) ==
  /\ newest' = newest + 1 /\ UNCHANGED <<head, size>>
  /\ Number(StoreLoop)' = Number(StoreLoop) - 1
  /\ Number(Linked)' = Number(Linked) + 1 /\ Number(Removed)' = Number(Removed)
  /\ pc[t] = "link" /\ next[last[t]] = Null

TakesOut(t) ==
  /\ head' = head + 1 /\ UNCHANGED <<newest, size>>
  /\ Number(StoreLoop)' = Number(StoreLoop)
  /\ Number(Linked)' = Number(Linked) /\ Number(Removed)' = Number(Removed) + 1
  /\ pc[t] = "advance"

Counts ==
  /\ UNCHANGED <<head, newest>> /\ Number(StoreLoop)' = Number(StoreLoop)
  /\ \/ /\ size' = (size + 1) % SizeModulus
        /\ Number(Linked)' = Number(Linked) - 1 /\ Number(Removed)' = Number(Removed)
     \/ /\ size' = (size - 1) % SizeModulus
        /\ Number(Linked)' = Number(Linked) /\ Number(Removed)' = Number(Removed) - 1

(* Threads that are neither in a loop nor between the list and the counter *)
Outside == Labels \ (StoreLoop \cup Linked \cup Removed)

LEMMA OutsideStays ==
  ASSUME CallType, UNCHANGED <<head, newest, size>>,
         \A s \in Threads : \/ pc'[s] = pc[s]
                            \/ pc[s] \in Outside /\ pc'[s] \in Outside
  PROVE  NobodyLetIn
<1>1. \A s \in Threads : pc'[s] \in Linked <=> pc[s] \in Linked
  BY DEF Outside
<1>2. \A s \in Threads : pc'[s] \in Removed <=> pc[s] \in Removed
  BY DEF Outside
<1>3. \A s \in Threads : pc'[s] \in StoreLoop <=> pc[s] \in StoreLoop
  BY DEF Outside
<1>4. Number(StoreLoop)' = Number(StoreLoop) /\ Number(StoreLoop) \in Nat
  BY <1>3, NobodyMoves, NumberType DEF StoreLoop
<1>5. QED
  BY <1>1, <1>2, <1>4, NobodyMoves DEF Linked, Removed, NobodyLetIn, Balanced

LEMMA QuietCounts ==
  ASSUME CallType, \A s \in Threads : CallInv(s), NEW t \in Threads, Quiet(t)
  PROVE  NobodyLetIn \/ LetIn(t) \/ Counts
<1>1. UNCHANGED <<head, newest>>
  BY QuietPointers DEF listVars
<1> DEFINE Still == \A s \in Threads : \/ pc'[s] = pc[s]
                                       \/ pc[s] \in Outside /\ pc'[s] \in Outside
<1> USE DEF Outside, Labels, StoreLoop, PopLoop, Linked, Removed
<1>2. ASSUME UNCHANGED size, Still PROVE NobodyLetIn
  BY <1>1, <1>2, OutsideStays
<1>3. ASSUME UNCHANGED size, HasRoom, pc[t] \in {"sync", "tryFull"}, op[t] \in StoreOps,
             pc' = [pc EXCEPT ![t] = "loadTail"]
      PROVE  LetIn(t)
  <2>1. /\ pc'[t] = "loadTail"
        /\ \A s \in Threads \ {t} : pc'[s] = pc[s]
    BY <1>3 DEF CallType
  <2>2. Number(StoreLoop)' = Number(StoreLoop) + 1
    BY <1>3, <2>1, OneArrives
  <2>3. Number(Linked)' = Number(Linked)
    BY <1>3, <2>1, NobodyMoves
  <2>4. Number(Removed)' = Number(Removed)
    BY <1>3, <2>1, NobodyMoves
  <2>5. t \in Producers
    BY <1>3 DEF CallInv
  <2>6. QED
    BY <1>1, <1>3, <2>2, <2>3, <2>4, <2>5 DEF LetIn, Balanced
<1> USE DEF CallType, Goto, Finish, restVars
<1>4. CASE Call(t)
  BY <1>2, <1>4 DEF Call, CallSend, CallRead, CallClose, CallTryEnqueue, CallTryDequeue,
     Enter, AccountThreads
<1>5. CASE CheckSendDeadlockPossibility(t) \/ CheckReadDeadlockPossibility(t)
  BY <1>2, <1>5 DEF CheckSendDeadlockPossibility, CheckReadDeadlockPossibility,
     AfterCheck, HandleDeadlock
<1>6. CASE SyncAndOverflowPrework(t) \/ TryRoom(t)
  <2>1. CASE pc' = [pc EXCEPT ![t] = "loadTail"]
    BY <1>3, <1>6, <2>1 DEF SyncAndOverflowPrework, TryRoom, CallInv, BeforeStore, StoreOps, SendOps
  <2>2. CASE pc' # [pc EXCEPT ![t] = "loadTail"]
    BY <1>2, <1>6, <2>2 DEF SyncAndOverflowPrework, TryRoom
  <2>3. QED
    BY <2>1, <2>2
<1>7. CASE \/ SyncAndUnderflowPrework(t) \/ TrySyncAndOverflowPrework(t)
           \/ TrySyncAndUnderflowPrework(t) \/ Block(t)
  BY <1>2, <1>7 DEF SyncAndUnderflowPrework, TrySyncAndOverflowPrework,
     TrySyncAndUnderflowPrework, Block
<1>8. CASE SpuriousWakeup(t) \/ Leave(t) \/ Close(t)
  BY <1>2, <1>8 DEF SpuriousWakeup, Leave, Return, Close
<1>9. CASE \/ NotifyNotEmpty(t) \/ NotifyNotFull(t)
           \/ CloseNotifyNotEmpty(t) \/ CloseNotifyNotFull(t)
  BY <1>2, <1>9 DEF NotifyNotEmpty, NotifyNotFull, NotifyOne, CloseNotifyNotEmpty,
     CloseNotifyNotFull, NotifyAll, SleepingEmpty, SleepingFull
<1>10. CASE CountUp(t) \/ CountDown(t)
  <2>1. /\ \/ pc[t] = "countUp" /\ size' = (size + 1) % SizeModulus /\ pc'[t] = "notifyNotEmpty"
           \/ pc[t] = "countDown" /\ size' = (size - 1) % SizeModulus /\ pc'[t] = "notifyNotFull"
        /\ \A s \in Threads \ {t} : pc'[s] = pc[s]
    BY <1>10 DEF CountUp, CountDown
  <2>2. Number(StoreLoop)' = Number(StoreLoop)
    BY <2>1, NobodyMoves
  <2>3. CASE pc[t] = "countUp"
    <3>1. Number(Linked)' = Number(Linked) - 1
      BY <2>1, <2>3, OneDeparts
    <3>2. Number(Removed)' = Number(Removed)
      BY <2>1, <2>3, NobodyMoves
    <3>3. QED
      BY <1>1, <2>1, <2>2, <2>3, <3>1, <3>2 DEF Counts
  <2>4. CASE pc[t] = "countDown"
    <3>1. Number(Removed)' = Number(Removed) - 1
      BY <2>1, <2>4, OneDeparts
    <3>2. Number(Linked)' = Number(Linked)
      BY <2>1, <2>4, NobodyMoves
    <3>3. QED
      BY <1>1, <2>1, <2>2, <2>4, <3>1, <3>2 DEF Counts
  <2>5. QED
    BY <2>1, <2>3, <2>4
<1>11. QED
  BY <1>4, <1>5, <1>6, <1>7, <1>8, <1>9, <1>10 DEF Quiet

LEMMA OnListCounts ==
  ASSUME Inv, NEW t \in Threads, OnList(t)
  PROVE  NobodyLetIn \/ Links(t) \/ TakesOut(t)
<1>1. CallType /\ ListType /\ LocalType /\ ListWellFormed /\ PointerInv(t) /\ CallInv(t)
  BY TypeParts DEF Inv
<1>2. UNCHANGED size /\ CallType'
  BY OnListTypes
<1>3. \A s \in Threads \ {t} : pc'[s] = pc[s]
  BY OnListStep
<1> USE DEF Labels, StoreLoop, PopLoop, Linked, Removed
<1>4. ASSUME UNCHANGED <<head, newest>>,
             pc'[t] \in StoreLoop => pc[t] \in StoreLoop,
             pc'[t] \in Linked <=> pc[t] \in Linked, pc'[t] \in Removed <=> pc[t] \in Removed
      PROVE  NobodyLetIn
  <2>1. Number(Linked)' = Number(Linked)
    BY <1>3, <1>4, NobodyMoves
  <2>2. Number(Removed)' = Number(Removed)
    BY <1>3, <1>4, NobodyMoves
  <2>3. Number(StoreLoop)' <= Number(StoreLoop)
    <3>1. CASE pc'[t] \in StoreLoop <=> pc[t] \in StoreLoop
      BY <1>3, <3>1, NobodyMoves, NumberType
    <3>2. CASE ~(pc'[t] \in StoreLoop <=> pc[t] \in StoreLoop)
      BY <1>3, <1>4, <3>2, OneDeparts, NumberType
    <3>3. QED
      BY <3>1, <3>2
  <2>4. QED
    BY <1>2, <1>4, <2>1, <2>2, <2>3 DEF NobodyLetIn, Balanced
<1> USE <1>1 DEF CallType, Goto, listVars
<1>5. CASE LoadTail(t) \/ LoadNext(t)
  BY <1>4, <1>5 DEF LoadTail, LoadNext
<1>6. CASE RecheckTail(t) \/ HelpEnqueue(t)
  <2>1. pc[t] \in StoreLoop /\ pc'[t] \notin Linked \cup Removed /\ UNCHANGED <<head, newest>>
    BY <1>6, StoreRetries DEF RecheckTail, HelpEnqueue
  <2>2. QED
    BY <1>4, <2>1
<1>7. CASE Link(t)
  <2>1. CASE OneMoreStore(t) /\ UNCHANGED newest
    <3>1. pc[t] \in StoreLoop /\ pc'[t] \notin Linked \cup Removed /\ UNCHANGED <<head, newest>>
      BY <1>7, <2>1, StoreRetries DEF Link
    <3>2. QED
      BY <1>4, <3>1
  <2>2. CASE ~(OneMoreStore(t) /\ UNCHANGED newest)
    <3>1. /\ pc[t] = "link" /\ next[last[t]] = Null /\ newest' = newest + 1 /\ head' = head
          /\ pc'[t] = "swing"
      BY <1>7, <2>2 DEF Link
    <3>2. Number(StoreLoop)' = Number(StoreLoop) - 1
      BY <1>3, <3>1, OneDeparts
    <3>3. Number(Linked)' = Number(Linked) + 1
      BY <1>3, <3>1, OneArrives
    <3>4. Number(Removed)' = Number(Removed)
      BY <1>3, <3>1, NobodyMoves
    <3>5. QED
      BY <1>2, <3>1, <3>2, <3>3, <3>4 DEF Links
  <2>3. QED
    BY <2>1, <2>2
<1>8. CASE Swing(t) \/ Move(t)
  BY <1>4, <1>8 DEF Swing, Move
<1>9. CASE LoadHead(t) \/ LoadLast(t) \/ LoadFirstNext(t)
  BY <1>4, <1>9 DEF LoadHead, LoadLast, LoadFirstNext
<1>10. CASE RecheckHead(t) \/ HelpDequeue(t)
  <2>1. pc[t] \in PopLoop /\ pc'[t] \notin StoreLoop \cup Linked \cup Removed
        /\ UNCHANGED <<head, newest>>
    BY <1>10, PopRetries DEF RecheckHead, HelpDequeue
  <2>2. QED
    BY <1>4, <2>1
<1>11. CASE Advance(t)
  <2>1. CASE OneMorePop(t) /\ UNCHANGED head
    <3>1. pc[t] \in PopLoop /\ pc'[t] \notin StoreLoop \cup Linked \cup Removed
          /\ UNCHANGED <<head, newest>>
      BY <1>11, <2>1, PopRetries DEF Advance
    <3>2. QED
      BY <1>4, <3>1
  <2>2. CASE ~(OneMorePop(t) /\ UNCHANGED head)
    <3>1. /\ pc[t] = "advance" /\ head' = head + 1 /\ newest' = newest
          /\ pc'[t] = "move"
      BY <1>11, <2>2 DEF Advance, PointerInv
    <3>2. Number(StoreLoop)' = Number(StoreLoop)
      BY <1>3, <3>1, NobodyMoves
    <3>3. Number(Removed)' = Number(Removed) + 1
      BY <1>3, <3>1, OneArrives
    <3>4. Number(Linked)' = Number(Linked)
      BY <1>3, <3>1, NobodyMoves
    <3>5. QED
      BY <1>2, <3>1, <3>2, <3>3, <3>4 DEF TakesOut
  <2>3. QED
    BY <2>1, <2>2
<1>12. QED
  BY <1>5, <1>6, <1>7, <1>8, <1>9, <1>10, <1>11 DEF OnList

(* The producers in the loop, and those past it, are different ones; so    *)
(* are they from one who is about to enter.                                *)
LEMMA ProducersSuffice ==
  ASSUME \A s \in Threads : CallInv(s)
  PROVE  /\ Cardinality(Producers) \in Nat
         /\ Cardinality(Producers) <= Cardinality(Threads)
         /\ Number(StoreLoop) + Number(Linked) <= Cardinality(Producers)
         /\ \A t \in Producers : pc[t] \in {"sync", "tryFull"} =>
              Number(StoreLoop) + Number(Linked) < Cardinality(Producers)
<1> DEFINE Busy == At(StoreLoop) \cup At(Linked)
<1>1. IsFiniteSet(Threads) /\ Producers \subseteq Threads
  BY ThreadsAssumption DEF Threads
<1>2. /\ IsFiniteSet(Producers) /\ Cardinality(Producers) \in Nat
      /\ Cardinality(Producers) <= Cardinality(Threads)
  BY <1>1, FS_Subset, FS_CardinalityType
<1>3. Busy \subseteq Producers
  BY DEF At, CallInv, BeforeStore, Linked
<1>4. At(StoreLoop) \cap At(Linked) = {}
  BY DEF At, StoreLoop, Linked
<1>5. IsFiniteSet(Busy) /\ Cardinality(Busy) = Number(StoreLoop) + Number(Linked)
  <2>1. /\ IsFiniteSet(At(StoreLoop)) /\ Number(StoreLoop) \in Nat
        /\ IsFiniteSet(At(Linked)) /\ Number(Linked) \in Nat
    BY NumberType DEF StoreLoop, Linked
  <2>2. /\ IsFiniteSet(Busy)
        /\ Cardinality(Busy) = Cardinality(At(StoreLoop)) + Cardinality(At(Linked))
                                 - Cardinality(At(StoreLoop) \cap At(Linked))
    BY <2>1, FS_Union
  <2>3. Cardinality(At(StoreLoop) \cap At(Linked)) = 0
    BY <1>4, FS_EmptySet
  <2>4. /\ Cardinality(At(StoreLoop)) = Number(StoreLoop)
        /\ Cardinality(At(Linked)) = Number(Linked)
    BY DEF Number
  <2>5. QED
    BY <2>1, <2>2, <2>3, <2>4
<1>6. ASSUME NEW t \in Producers, pc[t] \in {"sync", "tryFull"}
      PROVE  Number(StoreLoop) + Number(Linked) < Cardinality(Producers)
  <2>1. t \notin Busy
    BY <1>6 DEF At, StoreLoop, Linked
  <2>2. Busy \subseteq Producers \ {t} /\ IsFiniteSet(Producers \ {t})
        /\ Cardinality(Producers \ {t}) = Cardinality(Producers) - 1
    BY <1>2, <1>3, <2>1, FS_RemoveElement
  <2>3. Cardinality(Busy) <= Cardinality(Producers \ {t})
    BY <2>2, FS_Subset
  <2>4. QED
    BY <1>2, <1>5, <2>2, <2>3, FS_CardinalityType
<1>7. QED
  BY <1>2, <1>3, <1>5, <1>6, FS_Subset

-----------------------------------------------------------------------------
CountInv == OvershootInv /\ SizeInv

(* The counter stays within half of its range on either side of zero.      *)
LEMMA CountedBounds ==
  ASSUME Inv, CountInv
  PROVE  /\ Counted \in Int /\ -Cardinality(Threads) <= Counted
         /\ Counted < Capacity + Cardinality(Threads)
         /\ newest - head \in Nat /\ size \in 0..(SizeModulus - 1)
<1>1. /\ Number(Linked) \in Nat /\ Number(Linked) <= Cardinality(Threads)
      /\ Number(Removed) \in Nat /\ Number(Removed) <= Cardinality(Threads)
      /\ Number(StoreLoop) \in Nat
  BY NumberType DEF Linked, Removed, StoreLoop
<1>2. newest - head \in Nat
  BY QueueLength, TypeParts DEF Inv
<1>3. /\ Cardinality(Producers) \in Nat /\ Cardinality(Producers) <= Cardinality(Threads)
      /\ \A s \in Threads : CallInv(s)
  BY ProducersSuffice DEF Inv
<1>4. size \in 0..(SizeModulus - 1)
  BY DEF Inv, TypeOK
<1>5. QED
  BY <1>1, <1>2, <1>3, <1>4, ModulusBig DEF CountInv, OvershootInv, Counted

LEMMA InitCount == Init => CountInv
<1> SUFFICES ASSUME Init PROVE CountInv
  OBVIOUS
<1>1. Number(StoreLoop) = 0 /\ Number(Linked) = 0 /\ Number(Removed) = 0
  <2>1. At(StoreLoop) = {} /\ At(Linked) = {} /\ At(Removed) = {}
    BY DEF Init, CallInit, At, StoreLoop, Linked, Removed
  <2>2. QED
    BY <2>1, FS_EmptySet DEF Number
<1>2. \A s \in Threads : CallInv(s)
  BY InitInv DEF Inv
<1>3. OvershootInv
  BY <1>1, <1>2, ProducersSuffice, ModulusBig DEF OvershootInv, Init
<1>4. SizeInv
  BY <1>1 DEF SizeInv, Counted, Init
<1>5. QED
  BY <1>3, <1>4 DEF CountInv

LEMMA StepCount ==
  ASSUME Inv, CountInv, [Next]_vars
  PROVE  CountInv'
<1>1. /\ Number(Linked) \in Nat /\ Number(Removed) \in Nat /\ Number(StoreLoop) \in Nat
      /\ Number(Linked)' \in Nat /\ Number(Removed)' \in Nat /\ Number(StoreLoop)' \in Nat
  BY NumberType, NumberTypeNext DEF Linked, Removed, StoreLoop
<1>2. /\ head \in Nat /\ newest \in Nat /\ head <= newest
      /\ CallType /\ \A s \in Threads : CallInv(s)
  BY TypeParts, MichaelScottAssumption DEF Inv, ListType, ListWellFormed, Nodes
<1>3. /\ Counted \in Int /\ -Cardinality(Threads) <= Counted
      /\ Counted < Capacity + Cardinality(Threads)
      /\ size \in 0..(SizeModulus - 1)
  BY CountedBounds
<1>4. /\ Cardinality(Producers) \in Nat /\ Cardinality(Threads) \in Nat /\ Capacity \in Nat
      /\ SizeModulus \in Nat /\ SizeModulus > 2 * (Capacity + Cardinality(Threads))
      /\ SizeModulus > 1
  BY <1>2, ProducersSuffice, ModulusBig
<1> USE DEF CountInv, OvershootInv, SizeInv
<1>5. ASSUME NobodyLetIn PROVE CountInv'
  BY <1>1, <1>2, <1>4, <1>5 DEF NobodyLetIn, Balanced, Counted
<1>6. ASSUME NEW t \in Threads, LetIn(t) PROVE CountInv'
  <2>1. Counted' = Counted /\ size' = size /\ size < Capacity
    BY <1>6 DEF LetIn, Balanced, Counted, HasRoom
  <2>2. Counted < Capacity
    BY <1>3, <1>4, <2>1
  <2>3. Number(StoreLoop) + Number(Linked) < Cardinality(Producers)
    BY <1>2, <1>6, ProducersSuffice DEF LetIn
  <2>4. /\ newest' = newest /\ head' = head
        /\ Number(StoreLoop)' = Number(StoreLoop) + 1 /\ Number(Removed)' = Number(Removed)
    BY <1>6 DEF LetIn, Balanced
  <2>5. OvershootInv'
    <3>1. newest - head + Number(Removed) < Capacity + Number(Linked)
      BY <1>1, <1>2, <1>4, <2>2 DEF Counted
    <3>2. newest - head + Number(Removed) + Number(StoreLoop) + 1
            <= Capacity + Cardinality(Producers) - 1
      BY <1>1, <1>2, <1>4, <2>3, <3>1
    <3>3. QED
      BY <1>1, <1>2, <2>4, <3>2
  <2>6. QED
    BY <2>1, <2>5
<1>7. ASSUME NEW t \in Threads, Links(t) \/ TakesOut(t) PROVE CountInv'
  <2>1. Counted' = Counted /\ size' = size
    BY <1>1, <1>2, <1>7 DEF Links, TakesOut, Counted
  <2>2. newest' - head' + Number(StoreLoop)' + Number(Removed)'
          <= newest - head + Number(StoreLoop) + Number(Removed)
    BY <1>1, <1>2, <1>7 DEF Links, TakesOut
  <2>3. newest' - head' + Number(StoreLoop)' + Number(Removed)' \in Int
    BY <1>1, <1>2, <1>7 DEF Links, TakesOut
  <2>4. QED
    BY <1>1, <1>2, <1>4, <2>1, <2>2, <2>3
<1>8. ASSUME Counts PROVE CountInv'
  <2>1. OvershootInv'
    <3>1. /\ newest' = newest /\ head' = head /\ Number(StoreLoop)' = Number(StoreLoop)
          /\ Number(Removed)' <= Number(Removed)
      BY <1>1, <1>8 DEF Counts
    <3>2. QED
      BY <1>1, <1>2, <1>4, <3>1
  <2>2. CASE size' = (size + 1) % SizeModulus /\ Counted' = Counted + 1
    <3>1. size' = IF size = SizeModulus - 1 THEN 0 ELSE size + 1
      BY <1>3, <1>4, <2>2, CounterUp
    <3>2. SizeInv'
      BY <1>3, <1>4, <2>2, <3>1
    <3>3. QED
      BY <2>1, <3>2
  <2>3. CASE size' = (size - 1) % SizeModulus /\ Counted' = Counted - 1
    <3>1. size' = IF size = 0 THEN SizeModulus - 1 ELSE size - 1
      BY <1>3, <1>4, <2>3, CounterDown
    <3>2. SizeInv'
      BY <1>3, <1>4, <2>3, <3>1
    <3>3. QED
      BY <2>1, <3>2
  <2>4. QED
    BY <1>1, <1>2, <1>8, <2>2, <2>3 DEF Counts, Counted
<1>9. CASE UNCHANGED vars
  <2>1. At(Linked)' = At(Linked) /\ At(Removed)' = At(Removed) /\ At(StoreLoop)' = At(StoreLoop)
    BY <1>9 DEF At, vars, callVars
  <2>2. QED
    BY <1>9, <2>1 DEF Number, Counted, vars, listVars
<1>10. QED
  BY <1>2, <1>5, <1>6, <1>7, <1>8, <1>9, QuietCounts, OnListCounts, StepKinds

LEMMA InvAlways == Spec => [](Inv /\ CountInv)
<1>1. Inv /\ CountInv /\ [Next]_vars => Inv' /\ CountInv'
  BY StepInv, StepCount
<1>2. QED
  BY InitInv, InitCount, <1>1, PTL DEF Spec

(* The size counter, tested before the list is touched and changed after,  *)
(* is off by exactly the calls between the list and the counter, at every  *)
(* moment and for any number of threads.                                   *)
THEOREM SizeCorrect == Spec => []SizeAccounting
<1>1. Inv /\ CountInv => SizeAccounting
  <2> SUFFICES ASSUME Inv, CountInv PROVE SizeAccounting
    OBVIOUS
  <2>1. /\ Counted \in Int /\ -SizeModulus < Counted /\ Counted < SizeModulus
        /\ SizeModulus \in Nat /\ SizeModulus > 1
    BY CountedBounds, ModulusBig
  <2>2. size = Counted % SizeModulus
    BY <2>1, CounterWraps DEF CountInv, SizeInv
  <2>3. Counted = Len(Queue) - Number({"swing", "countUp"}) + Number({"move", "countDown"})
    BY QueueLength, TypeParts DEF Inv, Counted, Linked, Removed
  <2>4. QED
    BY <2>2, <2>3 DEF SizeAccounting
<1>2. QED
  BY InvAlways, <1>1, PTL

LEMMA OvershootBound ==
  ASSUME Inv, CountInv
  PROVE  CapacityOvershoot
<1>1. Number(StoreLoop) \in Nat /\ Number(Removed) \in Nat
  BY NumberType DEF StoreLoop, Removed
<1>2. Len(Queue) = newest - head /\ Len(Queue) \in Nat
  BY QueueLength, TypeParts DEF Inv
<1>3. Cardinality(Producers) \in Nat /\ Capacity \in Nat
  BY ProducersSuffice, ModulusBig DEF Inv
<1>4. QED
  BY <1>1, <1>2, <1>3 DEF CountInv, OvershootInv, CapacityOvershoot

(* Senders let in together exceed the capacity by one message per producer *)
(* but one, and by no more.                                                *)
THEOREM OvershootCorrect == Spec => []CapacityOvershoot
<1>1. Inv /\ CountInv => CapacityOvershoot
  BY OvershootBound
<1>2. QED
  BY InvAlways, <1>1, PTL

-----------------------------------------------------------------------------
(***************************************************************************)
(* Refinement of LooseFifo.                                                *)
(***************************************************************************)
Hand == [t \in Threads |-> InHand(t)]

(* The steps of LooseFifo, in terms of this module's variables. *)
LEMMA RefusesLoosely ==
  ASSUME NEW t \in Threads, NEW why \in {"false", "closed", "deadlock"},
         op[t] # "none", outcome[t] = "none", Fifo!MayRefuseLoosely(t, why),
         outcome' = [outcome EXCEPT ![t] = why],
         UNCHANGED <<Queue, closed, op, Hand>>
  PROVE  Fifo!LooseStep(t)
  BY DEF Fifo!LooseStep, Fifo!LooseRefuse, Fifo!Running, Fifo!Decide, Hand

LEMMA Stutters ==
  ASSUME UNCHANGED <<Queue, closed, op, Hand, outcome>>
  PROVE  UNCHANGED Fifo!vars
  BY DEF Fifo!vars, Hand

(* Nothing but a call under way can come between the list and the counter. *)
LEMMA ExactWhenAlone ==
  ASSUME Inv, CountInv, NEW t \in Threads, pc[t] \notin Linked \cup Removed,
         ~Fifo!Misled(t)
  PROVE  size = Len(Queue)
<1>1. \A u \in Threads \ {t} : pc[u] = "idle"
  BY DEF Inv, CallInv, Fifo!Misled
<1>2. At(Linked) = {} /\ At(Removed) = {}
  BY <1>1 DEF At, Linked, Removed
<1>3. Number(Linked) = 0 /\ Number(Removed) = 0
  BY <1>2, FS_EmptySet DEF Number
<1>4. Counted = newest - head /\ newest - head \in Nat
  BY <1>3, CountedBounds DEF Counted
<1>5. QED
  BY <1>4, QueueLength, TypeParts DEF CountInv, SizeInv, Inv

LEMMA FullOrMisled ==
  ASSUME Inv, CountInv, NEW t \in Threads, pc[t] \notin Linked \cup Removed, ~HasRoom
  PROVE  Fifo!Full \/ Len(Queue) > Capacity \/ Fifo!Misled(t)
<1>1. CASE ~Fifo!Misled(t)
  <2>1. size = Len(Queue) /\ size \in Nat
    BY <1>1, ExactWhenAlone, CountedBounds
  <2>2. QED
    BY <2>1, CapacityAssumption DEF HasRoom, Fifo!Full
<1>2. QED
  BY <1>1

LEMMA EmptyOrMisled ==
  ASSUME Inv, CountInv, NEW t \in Threads, pc[t] \notin Linked \cup Removed, ~HasMessage
  PROVE  Fifo!Empty \/ Fifo!Misled(t)
<1>1. CASE ~Fifo!Misled(t)
  <2>1. size = Len(Queue) /\ size \in Nat
    BY <1>1, ExactWhenAlone, CountedBounds
  <2>2. newest - head = 0
    BY <2>1, QueueLength, TypeParts DEF HasMessage, Inv
  <2>3. QED
    BY <2>2 DEF Queue, Fifo!Empty
<1>2. QED
  BY <1>1

(* A refusal for the reason of a full or of an empty queue. *)
LEMMA RefusesFull ==
  ASSUME Inv, CountInv, NEW t \in Threads, pc[t] \in {"check", "sync", "tryFull"}, ~HasRoom,
         outcome[t] = "none",
         \/ op[t] \in {"TrySend", "TryEnqueue"} /\ outcome' = [outcome EXCEPT ![t] = "false"]
         \/ /\ op[t] = "Send" /\ Policy # "kNoException"
            /\ outcome' = [outcome EXCEPT ![t] = "deadlock"],
         UNCHANGED <<Queue, closed, op, Hand>>
  PROVE  Fifo!LooseStep(t)
<1>1. Fifo!Full \/ Len(Queue) > Capacity \/ Fifo!Misled(t)
  BY FullOrMisled DEF Linked, Removed
<1>2. PICK why \in {"false", "closed", "deadlock"} :
         Fifo!MayRefuseLoosely(t, why) /\ outcome' = [outcome EXCEPT ![t] = why]
  BY <1>1 DEF Fifo!MayRefuseLoosely, Fifo!MayRefuse, Fifo!AttemptOps
<1>3. op[t] # "none"
  OBVIOUS
<1>4. QED
  BY <1>2, <1>3, RefusesLoosely

LEMMA RefusesEmpty ==
  ASSUME Inv, CountInv, NEW t \in Threads, pc[t] \in {"check", "sync"}, ~HasMessage,
         outcome[t] = "none",
         \/ op[t] \in {"TryRead", "TryDequeue"} /\ outcome' = [outcome EXCEPT ![t] = "false"]
         \/ op[t] = "Read" /\ closed /\ outcome' = [outcome EXCEPT ![t] = "closed"]
         \/ /\ op[t] = "Read" /\ Policy # "kNoException"
            /\ outcome' = [outcome EXCEPT ![t] = "deadlock"],
         UNCHANGED <<Queue, closed, op, Hand>>
  PROVE  Fifo!LooseStep(t)
<1>1. Fifo!Empty \/ Fifo!Misled(t)
  BY EmptyOrMisled DEF Linked, Removed
<1>2. PICK why \in {"false", "closed", "deadlock"} :
         Fifo!MayRefuseLoosely(t, why) /\ outcome' = [outcome EXCEPT ![t] = why]
  BY <1>1 DEF Fifo!MayRefuseLoosely, Fifo!MayRefuse, Fifo!AttemptOps
<1>3. op[t] # "none"
  OBVIOUS
<1>4. QED
  BY <1>2, <1>3, RefusesLoosely

(* The calls' own steps do not disturb a message that waits in its node.   *)
LEMMA QuietHands ==
  ASSUME CallType, LocalType, NEW t \in Threads, Quiet(t)
  PROVE  /\ Queue' = Queue
         /\ UNCHANGED msg => Hand' = Hand
         /\ \A m : msg' = [msg EXCEPT ![t] = m] /\ pc[t] # "move"
                     => Hand' = [Hand EXCEPT ![t] = m]
<1>1. UNCHANGED <<head, newest, value, succ>>
  BY QuietPointers DEF listVars, localVars
<1>2. \A s \in Threads : pc'[s] = "move" <=> pc[s] = "move"
  BY QuietPointers DEF PointerLabels
<1>3. Queue' = Queue
  BY <1>1 DEF Queue
<1>4. \A s \in Threads : msg'[s] = msg[s] => InHand(s)' = InHand(s)
  BY <1>1, <1>2 DEF InHand
<1>5. ASSUME UNCHANGED msg PROVE Hand' = Hand
  BY <1>4, <1>5 DEF Hand
<1>6. ASSUME NEW m, msg' = [msg EXCEPT ![t] = m], pc[t] # "move"
      PROVE  Hand' = [Hand EXCEPT ![t] = m]
  <2>1. InHand(t)' = m
    BY <1>2, <1>6 DEF InHand, CallType
  <2>2. \A s \in Threads \ {t} : InHand(s)' = InHand(s)
    BY <1>4, <1>6 DEF CallType
  <2>3. QED
    BY <2>1, <2>2 DEF Hand
<1>7. QED
  BY <1>3, <1>5, <1>6

LEMMA CallRefines ==
  ASSUME CallType, LocalType, \A s \in Threads : CallInv(s), NEW t \in Threads, Call(t)
  PROVE  Fifo!LooseStep(t)
<1>1. /\ Queue' = Queue /\ closed' = closed /\ pc[t] = "idle"
      /\ op[t] = "none" /\ msg[t] = NoMessage /\ outcome[t] = "none"
  BY QuietHands DEF Quiet, Call, CallSend, CallRead, CallClose, CallTryEnqueue,
     CallTryDequeue, Enter, CallInv, restVars
<1>2. \A m : msg' = [msg EXCEPT ![t] = m] => Hand' = [Hand EXCEPT ![t] = m]
  BY <1>1, QuietHands DEF Quiet
<1>3. Hand[t] = NoMessage
  BY <1>1 DEF Hand, InHand
<1>4. msg' = [msg EXCEPT ![t] = NoMessage] => Hand' = Hand
  <2>1. [Hand EXCEPT ![t] = Hand[t]] = Hand
    BY DEF Hand
  <2>2. QED
    BY <1>2, <1>3, <2>1
<1>5. CASE CallSend(t)
  <2>1. PICK o \in SendOps, m \in Messages : Enter(t, o, m)
    BY <1>5 DEF CallSend
  <2>2. Hand' = [Hand EXCEPT ![t] = m] /\ op' = [op EXCEPT ![t] = o]
    BY <1>2, <2>1 DEF Enter
  <2>3. UNCHANGED outcome \/ (Policy = "kOnThreadRoleChange" /\ Decide(t, "roleChange"))
    BY <1>5 DEF CallSend, AccountThreads, RoleAccepted, Finish
  <2>4. QED
    BY <1>1, <2>1, <2>2, <2>3 DEF Fifo!LooseStep, Fifo!LooseInvoke, Fifo!Invoke, Fifo!Decide,
       Fifo!SendOps, SendOps, Decide, Hand
<1>6. CASE CallRead(t)
  <2>1. PICK o \in ReadOps : Enter(t, o, NoMessage)
    BY <1>6 DEF CallRead
  <2>2. Hand' = Hand /\ op' = [op EXCEPT ![t] = o]
    BY <1>4, <2>1 DEF Enter
  <2>3. UNCHANGED outcome \/ (Policy = "kOnThreadRoleChange" /\ Decide(t, "roleChange"))
    BY <1>6 DEF CallRead, AccountThreads, RoleAccepted, Finish
  <2>4. QED
    BY <1>1, <2>1, <2>2, <2>3 DEF Fifo!LooseStep, Fifo!LooseInvoke, Fifo!Invoke, Fifo!Decide,
       Fifo!ReadOps, ReadOps, Decide, Hand
<1>7. CASE CallClose(t)
  BY <1>1, <1>4, <1>7 DEF CallClose, Enter, Fifo!LooseStep, Fifo!LooseInvoke,
     Fifo!Invoke, Hand
<1>8. CASE CallTryEnqueue(t)
  <2>1. PICK m \in Messages : Enter(t, "TryEnqueue", m)
    BY <1>8 DEF CallTryEnqueue
  <2>2. Hand' = [Hand EXCEPT ![t] = m] /\ op' = [op EXCEPT ![t] = "TryEnqueue"]
        /\ UNCHANGED outcome
    BY <1>2, <1>8, <2>1 DEF Enter, CallTryEnqueue
  <2>3. QED
    BY <1>1, <2>1, <2>2 DEF Fifo!LooseStep, Fifo!LooseInvoke, Hand
<1>9. CASE CallTryDequeue(t)
  BY <1>1, <1>4, <1>9 DEF CallTryDequeue, Enter, Fifo!LooseStep, Fifo!LooseInvoke, Hand
<1>10. QED
  BY <1>5, <1>6, <1>7, <1>8, <1>9 DEF Call

LEMMA QuietRefines ==
  ASSUME Inv, CountInv, NEW t \in Threads, Quiet(t)
  PROVE  Fifo!LooseStep(t) \/ UNCHANGED Fifo!vars
<1>1. CallType /\ LocalType /\ \A s \in Threads : CallInv(s)
  BY TypeParts DEF Inv
<1>2. Queue' = Queue /\ (UNCHANGED msg => Hand' = Hand)
  BY <1>1, QuietHands
<1>3. ASSUME UNCHANGED <<msg, op, closed, outcome>> PROVE UNCHANGED Fifo!vars
  BY <1>2, <1>3, Stutters
<1>4. CASE Call(t)
  BY <1>1, <1>4, CallRefines
<1> USE <1>1 DEF CallInv, Goto, Decide, Finish, restVars, StoreOps, PopOps, SendOps, ReadOps,
            TryOps, BeforeStore, BeforePop
<1>5. CASE CheckSendDeadlockPossibility(t)
  <2>1. CASE UNCHANGED outcome
    BY <1>3, <1>5, <2>1 DEF CheckSendDeadlockPossibility, AfterCheck
  <2>2. CASE ~UNCHANGED outcome
    <3>1. /\ pc[t] = "check" /\ ~HasRoom /\ UNCHANGED <<msg, op, closed>>
          /\ \/ op[t] = "TrySend" /\ outcome' = [outcome EXCEPT ![t] = "false"]
             \/ /\ op[t] = "Send" /\ Policy # "kNoException"
                /\ outcome' = [outcome EXCEPT ![t] = "deadlock"]
      BY <1>5, <2>2 DEF CheckSendDeadlockPossibility, AfterCheck, HandleDeadlock
    <3>2. QED
      BY <1>2, <3>1, RefusesFull
  <2>3. QED
    BY <2>1, <2>2
<1>6. CASE CheckReadDeadlockPossibility(t)
  <2>1. CASE UNCHANGED outcome
    BY <1>3, <1>6, <2>1 DEF CheckReadDeadlockPossibility, AfterCheck
  <2>2. CASE ~UNCHANGED outcome
    <3>1. /\ pc[t] = "check" /\ ~HasMessage /\ UNCHANGED <<msg, op, closed>>
          /\ \/ op[t] = "TryRead" /\ outcome' = [outcome EXCEPT ![t] = "false"]
             \/ /\ op[t] = "Read" /\ Policy # "kNoException"
                /\ outcome' = [outcome EXCEPT ![t] = "deadlock"]
      BY <1>6, <2>2 DEF CheckReadDeadlockPossibility, AfterCheck, HandleDeadlock, HasMessage
    <3>2. QED
      BY <1>2, <3>1, RefusesEmpty
  <2>3. QED
    BY <2>1, <2>2
<1>7. CASE SyncAndOverflowPrework(t) \/ TrySyncAndOverflowPrework(t)
  <2>1. CASE UNCHANGED outcome
    BY <1>3, <1>7, <2>1 DEF SyncAndOverflowPrework, TrySyncAndOverflowPrework
  <2>2. CASE ~UNCHANGED outcome
    <3>1. /\ pc[t] = "sync" /\ closed /\ UNCHANGED <<msg, op, closed>>
          /\ \/ op[t] = "Send" /\ outcome' = [outcome EXCEPT ![t] = "closed"]
             \/ op[t] = "TrySend" /\ outcome' = [outcome EXCEPT ![t] = "false"]
             \/ op[t] = "TryEnqueue" /\ outcome' = [outcome EXCEPT ![t] = "false"]
      BY <1>7, <2>2 DEF SyncAndOverflowPrework, TrySyncAndOverflowPrework
    <3>2. PICK why \in {"false", "closed", "deadlock"} :
             Fifo!MayRefuseLoosely(t, why) /\ outcome' = [outcome EXCEPT ![t] = why]
      BY <3>1 DEF Fifo!MayRefuseLoosely, Fifo!MayRefuse, Fifo!AttemptOps
    <3>3. QED
      BY <1>2, <3>1, <3>2, RefusesLoosely
  <2>3. QED
    BY <2>1, <2>2
<1>8. CASE TryRoom(t)
  <2>1. CASE UNCHANGED outcome
    BY <1>3, <1>8, <2>1 DEF TryRoom
  <2>2. CASE ~UNCHANGED outcome
    <3>1. /\ pc[t] = "tryFull" /\ ~HasRoom /\ UNCHANGED <<msg, op, closed>>
          /\ op[t] \in {"TrySend", "TryEnqueue"}
          /\ outcome' = [outcome EXCEPT ![t] = "false"]
      BY <1>8, <2>2 DEF TryRoom
    <3>2. QED
      BY <1>2, <3>1, RefusesFull
  <2>3. QED
    BY <2>1, <2>2
<1>9. CASE SyncAndUnderflowPrework(t) \/ TrySyncAndUnderflowPrework(t)
  <2>1. CASE UNCHANGED outcome
    BY <1>3, <1>9, <2>1 DEF SyncAndUnderflowPrework, TrySyncAndUnderflowPrework
  <2>2. CASE ~UNCHANGED outcome
    <3>1. /\ pc[t] = "sync" /\ ~HasMessage /\ UNCHANGED <<msg, op, closed>>
          /\ \/ op[t] = "Read" /\ closed /\ outcome' = [outcome EXCEPT ![t] = "closed"]
             \/ /\ op[t] \in {"TryRead", "TryDequeue"}
                /\ outcome' = [outcome EXCEPT ![t] = "false"]
      BY <1>9, <2>2 DEF SyncAndUnderflowPrework, TrySyncAndUnderflowPrework
    <3>2. QED
      BY <1>2, <3>1, RefusesEmpty
  <2>3. QED
    BY <2>1, <2>2
<1>10. CASE \/ Block(t) \/ SpuriousWakeup(t) \/ CountUp(t) \/ CountDown(t)
            \/ NotifyNotEmpty(t) \/ NotifyNotFull(t)
            \/ CloseNotifyNotEmpty(t) \/ CloseNotifyNotFull(t)
  BY <1>3, <1>10 DEF Block, SpuriousWakeup, CountUp, CountDown, NotifyNotEmpty,
     NotifyNotFull, CloseNotifyNotEmpty, CloseNotifyNotFull
<1>11. CASE Close(t)
  <2>1. /\ op[t] = "Close" /\ outcome[t] = "none" /\ closed' = TRUE
        /\ outcome' = [outcome EXCEPT ![t] = "returned"] /\ UNCHANGED <<op, msg>>
    BY <1>11 DEF Close
  <2>2. QED
    BY <1>2, <2>1 DEF Fifo!LooseStep, Fifo!Close, Fifo!Running, Fifo!Decide, Hand
<1>12. CASE Leave(t)
  <2>1. /\ pc[t] = "return" /\ op' = [op EXCEPT ![t] = "none"]
        /\ msg' = [msg EXCEPT ![t] = NoMessage] /\ UNCHANGED closed
        /\ outcome' = [outcome EXCEPT ![t] = "none"]
    BY <1>12 DEF Leave, Return
  <2>2. Hand' = [Hand EXCEPT ![t] = NoMessage]
    BY <1>1, <2>1, QuietHands
  <2>3. outcome[t] # "none"
    BY <2>1
  <2>4. QED
    BY <1>2, <2>1, <2>2, <2>3 DEF Fifo!LooseStep, Fifo!Return, Fifo!Decide, Hand
<1>13. QED
  BY <1>4, <1>5, <1>6, <1>7, <1>8, <1>9, <1>10, <1>11, <1>12 DEF Quiet

(* A step of one thread that takes no message out of a node.               *)
LEMMA HandsKept ==
  ASSUME NEW t \in Threads, UNCHANGED <<head, newest, value>>,
         \A s \in Threads \ {t} : pc'[s] = pc[s] /\ succ'[s] = succ[s] /\ msg'[s] = msg[s],
         pc[t] # "move", pc'[t] # "move"
  PROVE  /\ Queue' = Queue
         /\ Hand' = [Hand EXCEPT ![t] = msg'[t]]
         /\ msg'[t] = msg[t] => Hand' = Hand
<1>1. \A s \in Threads \ {t} : InHand(s)' = InHand(s)
  BY DEF InHand
<1>2. InHand(t)' = msg'[t] /\ InHand(t) = msg[t]
  BY DEF InHand
<1>3. QED
  BY <1>1, <1>2 DEF Queue, Hand

LEMMA StoreRetriesRefine ==
  ASSUME Inv, NEW t \in Threads, OneMoreStore(t), pc[t] \in StoreLoop,
         UNCHANGED <<head, newest, value, op, closed>>
  PROVE  Fifo!LooseStep(t) \/ UNCHANGED Fifo!vars
<1>1. CallType /\ LocalType /\ CallInv(t)
  BY TypeParts DEF Inv
<1>2. pc'[t] # "move" /\ pc[t] # "move"
  BY <1>1, StoreRetries DEF StoreLoop
<1>3. /\ Queue' = Queue /\ Hand' = [Hand EXCEPT ![t] = msg'[t]]
      /\ msg'[t] = msg[t] => Hand' = Hand
  BY <1>1, <1>2, StoreRetries, HandsKept
<1>4. CASE UNCHANGED <<msg, outcome>>
  BY <1>3, <1>4, Stutters
<1>5. CASE ~UNCHANGED <<msg, outcome>>
  <2>1. /\ op[t] = "TryEnqueue" /\ msg' = [msg EXCEPT ![t] = NoMessage]
        /\ outcome' = [outcome EXCEPT ![t] = "false"]
    BY <1>5 DEF OneMoreStore, Finish, Decide
  <2>2. outcome[t] = "none"
    BY <1>1 DEF CallInv, BeforeStore
  <2>3. Hand' = [Hand EXCEPT ![t] = NoMessage]
    BY <1>1, <1>3, <2>1 DEF CallType
  <2>4. QED
    BY <1>3, <2>1, <2>2, <2>3 DEF Fifo!LooseStep, Fifo!LoseRace, Fifo!Running,
       Fifo!Decide, Hand
<1>6. QED
  BY <1>4, <1>5

LEMMA PopRetriesRefine ==
  ASSUME Inv, NEW t \in Threads, OneMorePop(t), pc[t] \in PopLoop,
         UNCHANGED <<head, newest, value, op, msg, closed>>
  PROVE  Fifo!LooseStep(t) \/ UNCHANGED Fifo!vars
<1>1. CallType /\ LocalType /\ CallInv(t)
  BY TypeParts DEF Inv
<1>2. pc'[t] # "move" /\ pc[t] # "move"
  BY <1>1, PopRetries DEF PopLoop
<1>3. Queue' = Queue /\ Hand' = Hand
  BY <1>1, <1>2, PopRetries, HandsKept
<1>4. CASE UNCHANGED outcome
  BY <1>3, <1>4, Stutters
<1>5. CASE ~UNCHANGED outcome
  <2>1. op[t] = "TryDequeue" /\ outcome' = [outcome EXCEPT ![t] = "false"]
    BY <1>5 DEF OneMorePop, Finish, Decide
  <2>2. outcome[t] = "none"
    BY <1>1 DEF CallInv, BeforePop
  <2>3. Fifo!MayRefuseLoosely(t, "false")
    BY <2>1 DEF Fifo!MayRefuseLoosely, Fifo!AttemptOps
  <2>4. QED
    BY <1>3, <2>1, <2>2, <2>3, RefusesLoosely
<1>6. QED
  BY <1>4, <1>5

(* The linking compare-and-swap appends the message, whatever other        *)
(* threads do with the nodes that have left the list.                      *)
LEMMA LinkPuts ==
  ASSUME Inv, CountInv, NEW t \in Threads, Link(t), ~(OneMoreStore(t) /\ UNCHANGED newest)
  PROVE  Fifo!LooseStep(t)
<1>1. /\ CallType /\ ListType /\ LocalType /\ ListWellFormed /\ CallInv(t)
      /\ \A s \in Threads : PointerInv(s)
  BY TypeParts DEF Inv
<1>2. /\ pc[t] = "link" /\ newest' = newest + 1 /\ head' = head
      /\ value' = [value EXCEPT ![newest + 1] = msg[t]]
      /\ succ' = [succ EXCEPT ![t] = newest + 1]
      /\ msg' = [msg EXCEPT ![t] = NoMessage]
      /\ outcome' = [outcome EXCEPT ![t] = "returned"]
      /\ pc' = [pc EXCEPT ![t] = "swing"] /\ UNCHANGED <<op, closed>>
  BY <1>1 DEF Link, Set, Decide, Goto
<1>3. newest + 1 \in Nodes /\ newest \in Nat /\ head \in Nat /\ head <= newest
  BY <1>1, <1>2, OnListTypes, MichaelScottAssumption
  DEF OnList, ListType, Nodes, ListWellFormed
<1>4. Queue' = Append(Queue, msg[t])
  <2>1. newest - head \in Nat /\ newest' - head' = newest - head + 1
    BY <1>2, <1>3
  <2>2. \A i \in 1..(newest - head) : value'[head' + i] = value[head + i]
    BY <1>1, <1>2, <1>3, MichaelScottAssumption DEF ListType, Nodes
  <2>3. value'[head' + (newest - head + 1)] = msg[t]
    BY <1>1, <1>2, <1>3, MichaelScottAssumption DEF ListType, Nodes
  <2>4. QED
    BY <2>1, <2>2, <2>3 DEF Queue
<1>5. Hand[t] = msg[t]
  BY <1>2 DEF Hand, InHand
<1>6. Hand' = [Hand EXCEPT ![t] = NoMessage]
  <2>1. \A s \in Threads \ {t} : InHand(s)' = InHand(s)
    <3> SUFFICES ASSUME NEW s \in Threads \ {t} PROVE InHand(s)' = InHand(s)
      OBVIOUS
    <3>1. pc'[s] = pc[s] /\ msg'[s] = msg[s] /\ succ'[s] = succ[s]
      BY <1>1, <1>2 DEF CallType, LocalType
    <3>2. pc[s] = "move" => value'[succ[s]] = value[succ[s]]
      BY <1>1, <1>2, <1>3 DEF PointerInv, ListType, Nodes
    <3>3. QED
      BY <3>1, <3>2 DEF InHand
  <2>2. InHand(t)' = NoMessage
    BY <1>1, <1>2 DEF InHand, CallType
  <2>3. QED
    BY <2>1, <2>2 DEF Hand
<1>7. op[t] \in StoreOps /\ outcome[t] = "none"
  BY <1>1, <1>2 DEF CallInv, BeforeStore, StoreLoop
<1>8. Len(Queue) < Capacity + (Cardinality(Producers) - 1)
  <2>1. Number(StoreLoop) \in Nat /\ Number(StoreLoop) > 0
    <3>1. Number(StoreLoop) \in Nat /\ IsFiniteSet(At(StoreLoop))
      BY NumberType DEF StoreLoop
    <3>2. t \in At(StoreLoop)
      BY <1>2 DEF At, StoreLoop
    <3>3. QED
      BY <3>1, <3>2, FS_EmptySet DEF Number
  <2>2. Cardinality(Producers) \in Nat /\ Capacity \in Nat
    BY ProducersSuffice, CapacityAssumption DEF Inv
  <2>3. Len(Queue) \in Nat
    BY <1>1, QueueLength
  <2>4. QED
    BY <2>1, <2>2, <2>3, OvershootBound DEF CapacityOvershoot
<1>9. QED
  BY <1>2, <1>4, <1>5, <1>6, <1>7, <1>8
  DEF Fifo!LooseStep, Fifo!LoosePut, Fifo!Running, Fifo!Decide, Fifo!SendOps, StoreOps,
      SendOps, Hand

(* The compare-and-swap of the head takes the oldest message, which from   *)
(* then on is in the reader's hand although it is still in its node.       *)
LEMMA AdvanceTakes ==
  ASSUME Inv, NEW t \in Threads, Advance(t), ~(OneMorePop(t) /\ UNCHANGED head)
  PROVE  Fifo!LooseStep(t)
<1>1. /\ CallType /\ ListType /\ LocalType /\ ListWellFormed /\ CallInv(t) /\ PointerInv(t)
  BY TypeParts DEF Inv
<1>2. /\ pc[t] = "advance" /\ head' = succ[t]
      /\ outcome' = [outcome EXCEPT ![t] = "returned"]
      /\ pc' = [pc EXCEPT ![t] = "move"]
      /\ UNCHANGED <<op, closed, msg, value, newest, succ>> /\ head = first[t]
  BY DEF Advance, Decide, Goto, localVars
<1>3. succ[t] = head + 1 /\ head + 1 <= newest /\ head \in Nat /\ newest \in Nat
  BY <1>1, <1>2, MichaelScottAssumption DEF PointerInv, ListType, Nodes
<1>4. Len(Queue) = newest - head /\ newest - head > 0 /\ Queue # <<>>
  <2>1. Len(Queue) = newest - head /\ newest - head > 0
    BY <1>1, <1>3, QueueLength
  <2>2. QED
    BY <2>1
<1>5. Head(Queue) = value[succ[t]]
  BY <1>3, <1>4 DEF Queue
<1>6. Queue' = Tail(Queue)
  <2>1. newest' - head' = newest - head - 1
    BY <1>2, <1>3
  <2>2. Queue' = [i \in 1..(newest - head - 1) |-> value[head + 1 + i]]
    BY <1>2, <1>3, <2>1 DEF Queue
  <2>3. Tail(Queue) = [i \in 1..(newest - head - 1) |-> value[head + (i + 1)]]
    BY <1>3, <1>4 DEF Queue
  <2>4. \A i \in 1..(newest - head - 1) : head + 1 + i = head + (i + 1)
    BY <1>3
  <2>5. QED
    BY <2>2, <2>3, <2>4
<1>7. Hand' = [Hand EXCEPT ![t] = value[succ[t]]]
  <2>1. \A s \in Threads \ {t} : InHand(s)' = InHand(s)
    BY <1>1, <1>2 DEF InHand, CallType
  <2>2. InHand(t)' = value[succ[t]]
    BY <1>1, <1>2 DEF InHand, CallType
  <2>3. QED
    BY <2>1, <2>2 DEF Hand
<1>8. op[t] \in PopOps /\ outcome[t] = "none"
  BY <1>1, <1>2 DEF CallInv, BeforePop, PopLoop
<1>9. QED
  BY <1>2, <1>4, <1>5, <1>6, <1>7, <1>8
  DEF Fifo!LooseStep, Fifo!LooseTake, Fifo!Take, Fifo!Running, Fifo!Empty, Fifo!Decide,
      Fifo!ReadOps, PopOps, ReadOps, Hand

(* Moving the message out of its node changes nothing for anybody else.    *)
LEMMA MoveStutters ==
  ASSUME Inv, NEW t \in Threads, Move(t)
  PROVE  UNCHANGED Fifo!vars
<1>1. /\ CallType /\ ListType /\ LocalType /\ ValueInv
      /\ \A s \in Threads : PointerInv(s)
  BY TypeParts DEF Inv
<1>2. /\ pc[t] = "move" /\ msg' = [msg EXCEPT ![t] = value[succ[t]]]
      /\ value' = [value EXCEPT ![succ[t]] = NoMessage]
      /\ succ' = [succ EXCEPT ![t] = Null]
      /\ pc' = [pc EXCEPT ![t] = "countDown"]
      /\ UNCHANGED <<op, outcome, closed, head, newest>>
  BY DEF Move, DropLocals, DropPointers, Set, Goto
<1>3. succ[t] \in 1..head
  BY <1>1, <1>2 DEF PointerInv
<1>4. Queue' = Queue
  <2>1. newest \in Nat /\ head \in Nat
    BY <1>1, MichaelScottAssumption DEF ListType, Nodes
  <2>2. \A i \in 1..(newest - head) : head + i # succ[t]
    BY <1>3, <2>1
  <2>3. \A i \in 1..(newest - head) : value'[head + i] = value[head + i]
    <3> SUFFICES ASSUME NEW i \in 1..(newest - head)
                 PROVE  value'[head + i] = value[head + i]
      OBVIOUS
    <3>1. head + i \in Nodes
      BY <1>1, <2>1, MichaelScottAssumption DEF ListType, Nodes
    <3>2. QED
      BY <1>1, <1>2, <2>2, <3>1 DEF ListType
  <2>4. QED
    BY <1>2, <2>3 DEF Queue
<1>5. \A s \in Threads : InHand(s)' = InHand(s)
  <2>1. InHand(t)' = InHand(t)
    BY <1>1, <1>2 DEF InHand, CallType
  <2>2. ASSUME NEW s \in Threads \ {t} PROVE InHand(s)' = InHand(s)
    <3>1. pc'[s] = pc[s] /\ msg'[s] = msg[s] /\ succ'[s] = succ[s]
      BY <1>1, <1>2 DEF CallType, LocalType
    <3>2. pc[s] = "move" => succ[s] # succ[t] /\ succ[s] \in Nodes
      BY <1>1, <1>2, MichaelScottAssumption DEF ValueInv, PointerInv, ListType, Nodes
    <3>3. pc[s] = "move" => value'[succ[s]] = value[succ[s]]
      BY <1>1, <1>2, <3>2 DEF ListType
    <3>4. QED
      BY <3>1, <3>3 DEF InHand
  <2>3. QED
    BY <2>1, <2>2
<1>6. QED
  BY <1>2, <1>4, <1>5, Stutters DEF Hand

LEMMA OnListRefines ==
  ASSUME Inv, CountInv, NEW t \in Threads, OnList(t)
  PROVE  Fifo!LooseStep(t) \/ UNCHANGED Fifo!vars
<1>1. CallType /\ LocalType
  BY TypeParts DEF Inv
<1>2. \A s \in Threads \ {t} : pc'[s] = pc[s] /\ succ'[s] = succ[s] /\ msg'[s] = msg[s]
  BY OnListStep
<1>3. ASSUME UNCHANGED <<head, newest, value, op, msg, closed, outcome>>,
             pc[t] # "move", pc'[t] # "move"
      PROVE  UNCHANGED Fifo!vars
  BY <1>2, <1>3, HandsKept, Stutters
<1> USE <1>1 DEF CallType, Goto, listVars
<1>4. CASE \/ LoadTail(t) \/ LoadNext(t) \/ Swing(t)
           \/ LoadHead(t) \/ LoadLast(t) \/ LoadFirstNext(t)
  BY <1>3, <1>4 DEF LoadTail, LoadNext, Swing, LoadHead, LoadLast, LoadFirstNext
<1>5. CASE RecheckTail(t) \/ HelpEnqueue(t)
  <2>1. pc[t] \in StoreLoop /\ UNCHANGED <<head, newest, value, op, closed>>
    BY <1>5 DEF RecheckTail, HelpEnqueue, StoreLoop
  <2>2. CASE OneMoreStore(t)
    BY <2>1, <2>2, StoreRetriesRefine
  <2>3. CASE ~OneMoreStore(t)
    BY <1>3, <1>5, <2>3 DEF RecheckTail, HelpEnqueue
  <2>4. QED
    BY <2>2, <2>3
<1>6. CASE Link(t)
  <2>1. CASE OneMoreStore(t) /\ UNCHANGED newest
    <3>1. pc[t] \in StoreLoop /\ UNCHANGED <<head, newest, op, closed>>
      BY <1>6, <2>1 DEF Link, StoreLoop
    <3>2. UNCHANGED value
      BY <1>6, <2>1, TypeParts, MichaelScottAssumption DEF Link, Inv, ListType, Nodes
    <3>3. QED
      BY <2>1, <3>1, <3>2, StoreRetriesRefine
  <2>2. CASE ~(OneMoreStore(t) /\ UNCHANGED newest)
    BY <1>6, <2>2, LinkPuts
  <2>3. QED
    BY <2>1, <2>2
<1>7. CASE RecheckHead(t) \/ HelpDequeue(t)
  <2>1. pc[t] \in PopLoop /\ UNCHANGED <<head, newest, value, op, msg, closed>>
    BY <1>7 DEF RecheckHead, HelpDequeue, PopLoop
  <2>2. CASE OneMorePop(t)
    BY <2>1, <2>2, PopRetriesRefine
  <2>3. CASE ~OneMorePop(t)
    BY <1>3, <1>7, <2>3 DEF RecheckHead, HelpDequeue
  <2>4. QED
    BY <2>2, <2>3
<1>8. CASE Advance(t)
  <2>1. CASE OneMorePop(t) /\ UNCHANGED head
    <3>1. pc[t] \in PopLoop /\ UNCHANGED <<head, newest, value, op, msg, closed>>
      BY <1>8, <2>1 DEF Advance, PopLoop
    <3>2. QED
      BY <2>1, <3>1, PopRetriesRefine
  <2>2. CASE ~(OneMorePop(t) /\ UNCHANGED head)
    BY <1>8, <2>2, AdvanceTakes
  <2>3. QED
    BY <2>1, <2>2
<1>9. CASE Move(t)
  BY <1>9, MoveStutters
<1>10. QED
  BY <1>4, <1>5, <1>6, <1>7, <1>8, <1>9 DEF OnList

LEMMA InitRefines == Init => Fifo!Init
<1> SUFFICES ASSUME Init PROVE Fifo!Init
  OBVIOUS
<1>1. Queue = <<>>
  BY DEF Init, Queue
<1>2. \A t \in Threads : InHand(t) = NoMessage
  BY DEF Init, CallInit, InHand
<1>3. QED
  BY <1>1, <1>2 DEF Fifo!Init, Init, CallInit

(* Every execution of the Michael-Scott queue, for any number of threads   *)
(* and any interleaving of their loads and compare-and-swaps, is one of    *)
(* the FIFO whose capacity test and refusals are loose: order, and no      *)
(* message lost, duplicated or invented.                                   *)
THEOREM Refinement == Spec => ImplementsLooseFifo
<1>1. Inv /\ CountInv /\ [Next]_vars => [\E t \in Threads : Fifo!LooseStep(t)]_Fifo!vars
  <2> SUFFICES ASSUME Inv, CountInv, [Next]_vars
               PROVE  [\E t \in Threads : Fifo!LooseStep(t)]_Fifo!vars
    OBVIOUS
  <2>1. CASE UNCHANGED vars
    <3>1. \A t \in Threads : InHand(t)' = InHand(t)
      BY <2>1 DEF InHand, vars, callVars, listVars, localVars
    <3>2. QED
      BY <2>1, <3>1, Stutters DEF Hand, Queue, vars, callVars, listVars
  <2>2. CASE \E t \in Threads : Quiet(t) \/ OnList(t)
    BY <2>2, QuietRefines, OnListRefines
  <2>3. QED
    BY <2>1, <2>2, StepKinds
<1>2. QED
  BY InvAlways, InitRefines, <1>1, PTL DEF Spec, ImplementsLooseFifo, Fifo!LooseSpec

-----------------------------------------------------------------------------
(***************************************************************************)
(* Wakeups.  The argument of the deque queue, about the counter, and about *)
(* the threads between their test and their sleep as well as the sleepers. *)
(* A counter below zero offers no room and no message.                     *)
(***************************************************************************)
BlockingEmpty == {s \in Threads : pc[s] \in {"blockEmpty", "waitEmpty"}}

FreeRoom == IF HasRoom THEN Capacity - size ELSE 0
Readable == IF Wrapped THEN 0 ELSE size

WakeInv ==
  ~missed =>
    /\ ~closed /\ BlockingFull # {} => Covered(FreeRoom, CompetingSenders)
    /\ ~closed /\ BlockingEmpty # {} => Covered(Readable, CompetingReaders)
    /\ closed /\ BlockingEmpty # {} => InGap("closeNotifyEmpty")
    /\ closed /\ BlockingFull # {} =>
         InGap("closeNotifyEmpty") \/ InGap("closeNotifyFull")

LEMMA WakeSuffices == WakeInv => NoLostWakeup
<1>1. SleepingFull \subseteq BlockingFull /\ SleepingEmpty \subseteq BlockingEmpty
  BY DEF SleepingFull, SleepingEmpty, BlockingFull, BlockingEmpty
<1>2. QED
  BY <1>1 DEF WakeInv, NoLostWakeup, Covered, FreeRoom, Readable

LEMMA RoomTypes ==
  ASSUME Inv
  PROVE  FreeRoom \in Nat /\ Readable \in Nat /\ size \in 0..(SizeModulus - 1)
<1>1. size \in 0..(SizeModulus - 1)
  BY DEF Inv, TypeOK
<1>2. QED
  BY <1>1, ModulusBig DEF FreeRoom, Readable, HasRoom

LEMMA CompetingFinite ==
  /\ IsFiniteSet(CompetingSenders) /\ IsFiniteSet(CompetingReaders)
  /\ IsFiniteSet(CompetingSenders') /\ IsFiniteSet(CompetingReaders')
<1>1. \A S \in SUBSET Threads : IsFiniteSet(S)
  BY ThreadsAssumption, FS_Subset
<1>2. QED
  BY <1>1 DEF CompetingSenders, CompetingReaders

(* What the counter's two steps do to the room and to the messages.  It    *)
(* never comes near the middle of its range, where it would change its     *)
(* sign.                                                                   *)
LEMMA CountsUp ==
  ASSUME Inv, CountInv, size' = (size + 1) % SizeModulus
  PROVE  /\ Readable' = Readable \/ Readable' = Readable + 1 \/ Readable' = 0
         /\ ~Wrapped => FreeRoom' = FreeRoom \/ (FreeRoom' \in Nat /\ FreeRoom' + 1 = FreeRoom)
<1>1. size \in 0..(SizeModulus - 1) /\ SizeModulus \in Nat /\ SizeModulus > 2
      /\ Capacity \in Nat
  <2>1. SizeModulus > 2
    BY ModulusBig
  <2>2. QED
    BY <2>1, RoomTypes, ModulusBig
<1>2. size' = IF size = SizeModulus - 1 THEN 0 ELSE size + 1
  BY <1>1, CounterUp
<1>3. CASE size = SizeModulus - 1
  <2>1. size' = 0 /\ Wrapped
    BY <1>1, <1>2, <1>3 DEF Wrapped
  <2>2. Readable' = 0
    BY <2>1 DEF Readable
  <2>3. QED
    BY <2>1, <2>2
<1>4. CASE size # SizeModulus - 1
  <2>1. size' = size + 1
    BY <1>2, <1>4
  <2>2. Wrapped => Wrapped'
    BY <1>1, <2>1 DEF Wrapped
  <2>3. Readable' = Readable + 1 \/ Readable' = 0
    BY <1>1, <2>1, <2>2 DEF Readable
  <2>4. FreeRoom' = FreeRoom \/ (FreeRoom' \in Nat /\ FreeRoom' + 1 = FreeRoom)
    BY <1>1, <2>1 DEF FreeRoom, HasRoom
  <2>5. QED
    BY <2>3, <2>4
<1>5. QED
  BY <1>3, <1>4

LEMMA CountsDown ==
  ASSUME Inv, CountInv, size' = (size - 1) % SizeModulus
  PROVE  /\ FreeRoom' = FreeRoom \/ FreeRoom' = FreeRoom + 1 \/ FreeRoom' = 0
         /\ Readable' = Readable \/ (Readable' \in Nat /\ Readable' + 1 = Readable)
<1>0. Cardinality(Threads) \in Nat /\ Capacity \in Nat /\ Capacity > 0
      /\ SizeModulus \in Nat /\ SizeModulus > 2 * (Capacity + Cardinality(Threads))
  BY ModulusBig
<1>1. size \in 0..(SizeModulus - 1) /\ SizeModulus > 2
  BY <1>0, RoomTypes
<1>2. size' = IF size = 0 THEN SizeModulus - 1 ELSE size - 1
  BY <1>0, <1>1, CounterDown
<1>3. CASE size = 0
  <2>1. size' = SizeModulus - 1 /\ Wrapped' /\ ~Wrapped
    BY <1>0, <1>1, <1>2, <1>3 DEF Wrapped
  <2>2. Readable' = 0 /\ Readable = 0
    BY <1>3, <2>1 DEF Readable
  <2>3. FreeRoom' = 0
    BY <1>0, <2>1 DEF FreeRoom, HasRoom
  <2>4. QED
    BY <2>2, <2>3
<1>4. CASE size # 0
  <2>1. size' = size - 1
    BY <1>2, <1>4
  <2>2. FreeRoom' = FreeRoom \/ FreeRoom' = FreeRoom + 1
    BY <1>0, <1>1, <2>1 DEF FreeRoom, HasRoom
  <2>3. Wrapped <=> Wrapped'
    <3>1. Wrapped' => Wrapped
      BY <1>0, <1>1, <2>1 DEF Wrapped
    <3>2. ASSUME Wrapped PROVE 2 * (size - 1) > SizeModulus
      <4>1. /\ Counted \in Int /\ -Cardinality(Threads) <= Counted
            /\ Counted < Capacity + Cardinality(Threads)
        BY CountedBounds
      <4>2. size = IF Counted < 0 THEN Counted + SizeModulus ELSE Counted
        BY DEF CountInv, SizeInv
      <4>3. Counted < 0
        BY <1>0, <3>2, <4>1, <4>2 DEF Wrapped
      <4>4. size >= SizeModulus - Cardinality(Threads)
        BY <1>0, <4>1, <4>2, <4>3
      <4>5. QED
        BY <1>0, <1>1, <4>4
    <3>3. QED
      BY <2>1, <3>1, <3>2 DEF Wrapped
  <2>4. Readable' = Readable \/ (Readable' \in Nat /\ Readable' + 1 = Readable)
    BY <1>1, <1>4, <2>1, <2>3 DEF Readable
  <2>5. QED
    BY <2>2, <2>4
<1>5. QED
  BY <1>3, <1>4

(* A thread at work on the list competes as before, and sleeps nowhere.    *)
LEMMA OnListCompetes ==
  ASSUME Inv, NEW t \in Threads, OnList(t)
  PROVE  /\ UNCHANGED <<size, closed, missed>>
         /\ BlockingFull' = BlockingFull /\ BlockingEmpty' = BlockingEmpty
         /\ CompetingSenders \subseteq CompetingSenders'
         /\ CompetingReaders \subseteq CompetingReaders'
         /\ \A l \in {"closeNotifyEmpty", "closeNotifyFull"} : InGap(l) => InGap(l)'
<1>1. CallType /\ LocalType /\ CallInv(t)
  BY TypeParts DEF Inv
<1>2. UNCHANGED <<size, closed, missed>> /\ CallType'
  BY OnListTypes
<1>3. \A s \in Threads \ {t} : pc'[s] = pc[s] /\ op'[s] = op[s]
  BY OnListStep
<1> USE DEF StoreLoop, PopLoop
<1>4. /\ op'[t] = op[t]
      /\ \/ /\ pc[t] \in StoreLoop \cup {"swing"}
            /\ \/ pc'[t] \in StoreLoop \cup {"swing", "countUp"}
               \/ pc'[t] = "return" /\ op[t] = "TryEnqueue"
         \/ /\ pc[t] \in PopLoop \cup {"move"}
            /\ \/ pc'[t] \in PopLoop \cup {"move", "countDown"}
               \/ pc'[t] = "return" /\ op[t] = "TryDequeue"
  <2> USE <1>1 DEF CallType, Goto
  <2>1. CASE LoadTail(t) \/ LoadNext(t) \/ LoadHead(t) \/ LoadLast(t) \/ LoadFirstNext(t)
    BY <2>1 DEF LoadTail, LoadNext, LoadHead, LoadLast, LoadFirstNext
  <2>2. CASE RecheckTail(t) \/ HelpEnqueue(t)
    BY <2>2, StoreRetries DEF RecheckTail, HelpEnqueue
  <2>3. CASE Link(t)
    BY <2>3, StoreRetries DEF Link
  <2>4. CASE Swing(t) \/ Move(t)
    BY <2>4 DEF Swing, Move
  <2>5. CASE RecheckHead(t) \/ HelpDequeue(t)
    BY <2>5, PopRetries DEF RecheckHead, HelpDequeue
  <2>6. CASE Advance(t)
    BY <2>6, PopRetries DEF Advance
  <2>7. QED
    BY <2>1, <2>2, <2>3, <2>4, <2>5, <2>6 DEF OnList
<1>5. BlockingFull' = BlockingFull /\ BlockingEmpty' = BlockingEmpty
  BY <1>3, <1>4 DEF BlockingFull, BlockingEmpty
<1>6. CompetingSenders \subseteq CompetingSenders' /\ CompetingReaders \subseteq CompetingReaders'
  BY <1>1, <1>3, <1>4 DEF CompetingSenders, CompetingReaders, CallInv, StoreOps, PopOps,
     SendOps, ReadOps
<1>7. \A l \in {"closeNotifyEmpty", "closeNotifyFull"} : InGap(l) => InGap(l)'
  BY <1>3, <1>4 DEF InGap
<1>8. QED
  BY <1>2, <1>5, <1>6, <1>7

(* The senders' side. *)
LEMMA SendersCovered ==
  ASSUME Inv, CountInv, WakeInv, [Next]_vars, ~missed', ~closed', BlockingFull' # {}
  PROVE  Covered(FreeRoom', CompetingSenders')
<1>0. FreeRoom \in Nat
  BY RoomTypes
<1>a. ASSUME ~missed, ~closed, BlockingFull # {} PROVE Covered(FreeRoom, CompetingSenders)
  BY <1>a DEF WakeInv
<1>b. CallType /\ \A s \in Threads : CallInv(s)
  BY TypeParts DEF Inv
<1>1. ASSUME UNCHANGED <<size, closed, missed>>, BlockingFull' \subseteq BlockingFull,
             CompetingSenders \subseteq CompetingSenders'
      PROVE  Covered(FreeRoom', CompetingSenders')
  <2>1. FreeRoom' = FreeRoom /\ Covered(FreeRoom, CompetingSenders)
    BY <1>1, <1>a DEF FreeRoom, HasRoom
  <2>2. QED
    BY <1>0, <1>1, <2>1, CompetingFinite, CoverKept
<1>2. ASSUME ~HasRoom, UNCHANGED size PROVE Covered(FreeRoom', CompetingSenders')
  <2>1. FreeRoom' = 0
    BY <1>2 DEF FreeRoom, HasRoom
  <2>2. QED
    BY <2>1, CompetingFinite, CoverNone
<1> USE <1>b DEF CallType, Labels, StoreLoop, PopLoop, StoreOps, PopOps, SendOps, ReadOps,
            Ops, BlockingFull, CompetingSenders, Goto, Finish, restVars
<1>3. ASSUME NEW t \in Threads, CountDown(t) PROVE Covered(FreeRoom', CompetingSenders')
  <2>0. UNCHANGED <<closed, missed>> /\ BlockingFull' \subseteq BlockingFull
    BY <1>3 DEF CountDown
  <2>1. Covered(FreeRoom, CompetingSenders)
    BY <1>a, <2>0
  <2>2. t \in CompetingSenders' /\ t \notin CompetingSenders
    BY <1>3 DEF CountDown, CallInv
  <2>3. CompetingSenders \subseteq CompetingSenders'
    BY <1>3 DEF CountDown
  <2>4. FreeRoom' = FreeRoom \/ FreeRoom' = FreeRoom + 1 \/ FreeRoom' = 0
    BY <1>3, CountsDown DEF CountDown
  <2>5. Covered(FreeRoom + 1, CompetingSenders')
    BY <1>0, <2>1, <2>2, <2>3, CompetingFinite, CoverGrows
  <2>6. Covered(FreeRoom, CompetingSenders')
    BY <1>0, <2>1, <2>3, CompetingFinite, CoverKept
  <2>7. Covered(0, CompetingSenders')
    BY CompetingFinite, CoverNone
  <2>8. QED
    BY <2>4, <2>5, <2>6, <2>7
<1>4. ASSUME NEW t \in Threads, CountUp(t) PROVE Covered(FreeRoom', CompetingSenders')
  <2>0. UNCHANGED closed /\ BlockingFull' \subseteq BlockingFull
    BY <1>4 DEF CountUp
  <2>1. ~missed /\ ~Wrapped
    BY <1>4, <2>0 DEF CountUp
  <2>2. Covered(FreeRoom, CompetingSenders)
    BY <1>a, <2>0, <2>1
  <2>3. CompetingSenders \ {t} \subseteq CompetingSenders'
    BY <1>4 DEF CountUp
  <2>4. FreeRoom' = FreeRoom \/ (FreeRoom' \in Nat /\ FreeRoom' + 1 = FreeRoom)
    BY <1>4, <2>1, CountsUp DEF CountUp
  <2>5. CASE FreeRoom' \in Nat /\ FreeRoom' + 1 = FreeRoom
    BY <2>2, <2>3, <2>5, CompetingFinite, CoverShrinks
  <2>6. CASE FreeRoom' = FreeRoom
    \* No room, before or after.
    <3>1. FreeRoom' = 0
      <4>0. /\ size' = (size + 1) % SizeModulus /\ size \in 0..(SizeModulus - 1)
            /\ Capacity \in Nat /\ SizeModulus \in Nat /\ SizeModulus > 2
        <5>1. SizeModulus > 2
          BY ModulusBig
        <5>2. size' = (size + 1) % SizeModulus
          BY <1>4 DEF CountUp
        <5>3. QED
          BY <5>1, <5>2, RoomTypes, ModulusBig
      <4>1. size' = IF size = SizeModulus - 1 THEN 0 ELSE size + 1
        BY ONLY <4>0, CounterUp
      <4>2. size \in Nat
        BY ONLY <4>0
      <4>3. size' = size + 1
        BY <2>1, <4>0, <4>1, <4>2 DEF Wrapped
      <4>4. ~HasRoom
        BY <2>6, <4>0, <4>2, <4>3 DEF FreeRoom, HasRoom
      <4>5. QED
        BY <2>6, <4>4 DEF FreeRoom
    <3>2. QED
      BY <3>1, CompetingFinite, CoverNone
  <2>7. QED
    BY <2>4, <2>5, <2>6
<1>5. ASSUME NEW t \in Threads, NotifyNotFull(t) PROVE Covered(FreeRoom', CompetingSenders')
  <2>1. SleepingFull # {}
    BY <1>5 DEF NotifyNotFull, NotifyOne, InGap, SleepingFull
  <2>2. PICK s \in SleepingFull : pc' = [pc EXCEPT ![t] = "return", ![s] = "sync"]
    BY <1>5, <2>1 DEF NotifyNotFull, NotifyOne
  <2>3. UNCHANGED <<closed, size, op>> /\ ~missed /\ s \in BlockingFull
    BY <1>5, <2>2 DEF NotifyNotFull, SleepingFull
  <2>4. FreeRoom' = FreeRoom /\ Covered(FreeRoom, CompetingSenders)
    BY <1>a, <2>3 DEF FreeRoom, HasRoom
  <2>5. s \in CompetingSenders' /\ s \notin CompetingSenders
    BY <1>5, <2>2, <2>3 DEF SleepingFull, NotifyNotFull, CallInv
  <2>6. CompetingSenders \ {t} \subseteq CompetingSenders'
    BY <2>2, <2>3 DEF SleepingFull
  <2>7. QED
    BY <1>0, <2>4, <2>5, <2>6, CompetingFinite, CoverMoves
<1>6. CASE UNCHANGED vars
  BY <1>1, <1>6 DEF vars, callVars
<1>7. ASSUME NEW t \in Threads, Call(t) PROVE Covered(FreeRoom', CompetingSenders')
  BY <1>1, <1>7 DEF Call, CallSend, CallRead, CallClose, CallTryEnqueue, CallTryDequeue,
     Enter, AccountThreads, CallInv
<1>8. ASSUME NEW t \in Threads,
             CheckSendDeadlockPossibility(t) \/ CheckReadDeadlockPossibility(t)
      PROVE  Covered(FreeRoom', CompetingSenders')
  BY <1>1, <1>8 DEF CheckSendDeadlockPossibility, CheckReadDeadlockPossibility,
                    AfterCheck, HandleDeadlock
<1>9. ASSUME NEW t \in Threads, SyncAndOverflowPrework(t)
      PROVE  Covered(FreeRoom', CompetingSenders')
  BY <1>1, <1>2, <1>9 DEF SyncAndOverflowPrework
<1>10. ASSUME NEW t \in Threads,
              \/ TrySyncAndOverflowPrework(t) \/ TryRoom(t) \/ TrySyncAndUnderflowPrework(t)
              \/ SyncAndUnderflowPrework(t) \/ Block(t)
       PROVE  Covered(FreeRoom', CompetingSenders')
  BY <1>1, <1>10 DEF TrySyncAndOverflowPrework, TryRoom, TrySyncAndUnderflowPrework,
     SyncAndUnderflowPrework, Block, CallInv
<1>11. ASSUME NEW t \in Threads,
              \/ SpuriousWakeup(t) \/ Leave(t) \/ NotifyNotEmpty(t)
              \/ CloseNotifyNotEmpty(t) \/ CloseNotifyNotFull(t)
       PROVE  Covered(FreeRoom', CompetingSenders')
  <2>1. ~missed
    BY <1>11 DEF SpuriousWakeup, Leave, NotifyNotEmpty, CloseNotifyNotEmpty,
       CloseNotifyNotFull
  <2>2. UNCHANGED <<size, closed, missed>>
    BY <1>11, <2>1 DEF SpuriousWakeup, Leave, NotifyNotEmpty, CloseNotifyNotEmpty,
       CloseNotifyNotFull, Inv, TypeOK
  <2>3. BlockingFull' \subseteq BlockingFull /\ CompetingSenders \subseteq CompetingSenders'
    BY <1>11 DEF SpuriousWakeup, Leave, Return, NotifyNotEmpty, NotifyOne,
       CloseNotifyNotEmpty, CloseNotifyNotFull, NotifyAll, SleepingEmpty, SleepingFull
  <2>4. QED
    BY <1>1, <2>2, <2>3
<1>12. ASSUME NEW t \in Threads, Close(t) PROVE FALSE
  BY <1>12 DEF Close
<1>13. ASSUME NEW t \in Threads, OnList(t) PROVE Covered(FreeRoom', CompetingSenders')
  BY <1>1, <1>13, OnListCompetes
<1>14. QED
  BY <1>3, <1>4, <1>5, <1>6, <1>7, <1>8, <1>9, <1>10, <1>11, <1>12, <1>13, StepKinds
  DEF Quiet

(* The readers' side: the same argument for the messages. *)
LEMMA ReadersCovered ==
  ASSUME Inv, CountInv, WakeInv, [Next]_vars, ~missed', ~closed', BlockingEmpty' # {}
  PROVE  Covered(Readable', CompetingReaders')
<1>0. Readable \in Nat
  BY RoomTypes
<1>a. ASSUME ~missed, ~closed, BlockingEmpty # {} PROVE Covered(Readable, CompetingReaders)
  BY <1>a DEF WakeInv
<1>b. CallType /\ \A s \in Threads : CallInv(s)
  BY TypeParts DEF Inv
<1>1. ASSUME UNCHANGED <<size, closed, missed>>, BlockingEmpty' \subseteq BlockingEmpty,
             CompetingReaders \subseteq CompetingReaders'
      PROVE  Covered(Readable', CompetingReaders')
  <2>1. Readable' = Readable /\ Covered(Readable, CompetingReaders)
    BY <1>1, <1>a DEF Readable, Wrapped
  <2>2. QED
    BY <1>0, <1>1, <2>1, CompetingFinite, CoverKept
<1>2. ASSUME ~HasMessage, UNCHANGED size PROVE Covered(Readable', CompetingReaders')
  <2>1. Readable' = 0
    BY <1>2, RoomTypes DEF Readable, HasMessage
  <2>2. QED
    BY <2>1, CompetingFinite, CoverNone
<1> USE <1>b DEF CallType, Labels, StoreLoop, PopLoop, StoreOps, PopOps, SendOps, ReadOps,
            Ops, BlockingEmpty, CompetingReaders, Goto, Finish, restVars
<1>3. ASSUME NEW t \in Threads, CountUp(t) PROVE Covered(Readable', CompetingReaders')
  <2>0. UNCHANGED closed /\ BlockingEmpty' \subseteq BlockingEmpty /\ ~missed
    BY <1>3 DEF CountUp
  <2>1. Covered(Readable, CompetingReaders)
    BY <1>a, <2>0
  <2>2. t \in CompetingReaders' /\ t \notin CompetingReaders
    BY <1>3 DEF CountUp, CallInv
  <2>3. CompetingReaders \subseteq CompetingReaders'
    BY <1>3 DEF CountUp
  <2>4. Readable' = Readable \/ Readable' = Readable + 1 \/ Readable' = 0
    BY <1>3, CountsUp DEF CountUp
  <2>5. Covered(Readable + 1, CompetingReaders')
    BY <1>0, <2>1, <2>2, <2>3, CompetingFinite, CoverGrows
  <2>6. Covered(Readable, CompetingReaders')
    BY <1>0, <2>1, <2>3, CompetingFinite, CoverKept
  <2>7. Covered(0, CompetingReaders')
    BY CompetingFinite, CoverNone
  <2>8. QED
    BY <2>4, <2>5, <2>6, <2>7
<1>4. ASSUME NEW t \in Threads, CountDown(t) PROVE Covered(Readable', CompetingReaders')
  <2>0. UNCHANGED <<closed, missed>> /\ BlockingEmpty' \subseteq BlockingEmpty
    BY <1>4 DEF CountDown
  <2>1. Covered(Readable, CompetingReaders)
    BY <1>a, <2>0
  <2>2. CompetingReaders \ {t} \subseteq CompetingReaders'
    BY <1>4 DEF CountDown
  <2>3. Readable' = Readable \/ (Readable' \in Nat /\ Readable' + 1 = Readable)
    BY <1>4, CountsDown DEF CountDown
  <2>4. CASE Readable' \in Nat /\ Readable' + 1 = Readable
    BY <2>1, <2>2, <2>4, CompetingFinite, CoverShrinks
  <2>5. CASE Readable' = Readable
    \* No message, before or after.
    <3>1. Readable' = 0
      <4>1. size \in 0..(SizeModulus - 1) /\ SizeModulus \in Nat /\ SizeModulus > 2
        BY RoomTypes, ModulusBig
      <4>a. size' = (size - 1) % SizeModulus
        BY <1>4 DEF CountDown
      <4>2. size' = IF size = 0 THEN SizeModulus - 1 ELSE size - 1
        <5>1. SizeModulus > 1
          BY ONLY <4>1
        <5>2. (size - 1) % SizeModulus = IF size = 0 THEN SizeModulus - 1 ELSE size - 1
          BY ONLY <4>1, <5>1, CounterDown
        <5>3. QED
          BY ONLY <4>a, <5>2, Zenon
      <4>3. Wrapped' \/ Readable # size
        BY <2>5, <4>1, <4>2 DEF Readable, Wrapped
      <4>4. CASE Wrapped'
        BY <4>4 DEF Readable
      <4>5. CASE Readable # size
        BY <2>5, <4>5 DEF Readable
      <4>6. QED
        BY <4>3, <4>4, <4>5
    <3>2. QED
      BY <3>1, CompetingFinite, CoverNone
  <2>6. QED
    BY <2>3, <2>4, <2>5
<1>5. ASSUME NEW t \in Threads, NotifyNotEmpty(t)
      PROVE  Covered(Readable', CompetingReaders')
  <2>1. SleepingEmpty # {}
    BY <1>5 DEF NotifyNotEmpty, NotifyOne, InGap, SleepingEmpty
  <2>2. PICK s \in SleepingEmpty : pc' = [pc EXCEPT ![t] = "return", ![s] = "sync"]
    BY <1>5, <2>1 DEF NotifyNotEmpty, NotifyOne
  <2>3. UNCHANGED <<closed, size, op>> /\ ~missed /\ s \in BlockingEmpty
    BY <1>5, <2>2 DEF NotifyNotEmpty, SleepingEmpty
  <2>4. Readable' = Readable /\ Covered(Readable, CompetingReaders)
    BY <1>a, <2>3 DEF Readable, Wrapped
  <2>5. s \in CompetingReaders' /\ s \notin CompetingReaders
    BY <1>5, <2>2, <2>3 DEF SleepingEmpty, NotifyNotEmpty, CallInv
  <2>6. CompetingReaders \ {t} \subseteq CompetingReaders'
    BY <2>2, <2>3 DEF SleepingEmpty
  <2>7. QED
    BY <1>0, <2>4, <2>5, <2>6, CompetingFinite, CoverMoves
<1>6. CASE UNCHANGED vars
  BY <1>1, <1>6 DEF vars, callVars
<1>7. ASSUME NEW t \in Threads, Call(t) PROVE Covered(Readable', CompetingReaders')
  BY <1>1, <1>7 DEF Call, CallSend, CallRead, CallClose, CallTryEnqueue, CallTryDequeue,
     Enter, AccountThreads, CallInv
<1>8. ASSUME NEW t \in Threads,
             CheckSendDeadlockPossibility(t) \/ CheckReadDeadlockPossibility(t)
      PROVE  Covered(Readable', CompetingReaders')
  BY <1>1, <1>8 DEF CheckSendDeadlockPossibility, CheckReadDeadlockPossibility,
                    AfterCheck, HandleDeadlock
<1>9. ASSUME NEW t \in Threads, SyncAndUnderflowPrework(t)
      PROVE  Covered(Readable', CompetingReaders')
  BY <1>1, <1>2, <1>9 DEF SyncAndUnderflowPrework
<1>10. ASSUME NEW t \in Threads,
              \/ TrySyncAndOverflowPrework(t) \/ TryRoom(t) \/ TrySyncAndUnderflowPrework(t)
              \/ SyncAndOverflowPrework(t) \/ Block(t)
       PROVE  Covered(Readable', CompetingReaders')
  BY <1>1, <1>10 DEF TrySyncAndOverflowPrework, TryRoom, TrySyncAndUnderflowPrework,
     SyncAndOverflowPrework, Block, CallInv
<1>11. ASSUME NEW t \in Threads,
              \/ SpuriousWakeup(t) \/ Leave(t) \/ NotifyNotFull(t)
              \/ CloseNotifyNotEmpty(t) \/ CloseNotifyNotFull(t)
       PROVE  Covered(Readable', CompetingReaders')
  <2>1. ~missed
    BY <1>11 DEF SpuriousWakeup, Leave, NotifyNotFull, CloseNotifyNotEmpty,
       CloseNotifyNotFull
  <2>2. UNCHANGED <<size, closed, missed>>
    BY <1>11, <2>1 DEF SpuriousWakeup, Leave, NotifyNotFull, CloseNotifyNotEmpty,
       CloseNotifyNotFull, Inv, TypeOK
  <2>3. BlockingEmpty' \subseteq BlockingEmpty /\ CompetingReaders \subseteq CompetingReaders'
    BY <1>11 DEF SpuriousWakeup, Leave, Return, NotifyNotFull, NotifyOne,
       CloseNotifyNotEmpty, CloseNotifyNotFull, NotifyAll, SleepingEmpty, SleepingFull
  <2>4. QED
    BY <1>1, <2>2, <2>3
<1>12. ASSUME NEW t \in Threads, Close(t) PROVE FALSE
  BY <1>12 DEF Close
<1>13. ASSUME NEW t \in Threads, OnList(t) PROVE Covered(Readable', CompetingReaders')
  BY <1>1, <1>13, OnListCompetes
<1>14. QED
  BY <1>3, <1>4, <1>5, <1>6, <1>7, <1>8, <1>9, <1>10, <1>11, <1>12, <1>13, StepKinds
  DEF Quiet

(* A thread blocked on a closed queue still has a notify_all of Close to   *)
(* come.                                                                   *)
LEMMA ClosedSleepers ==
  ASSUME Inv, WakeInv, [Next]_vars, ~missed', closed'
  PROVE  /\ BlockingEmpty' # {} => InGap("closeNotifyEmpty")'
         /\ BlockingFull' # {} => InGap("closeNotifyEmpty")' \/ InGap("closeNotifyFull")'
<1> DEFINE Goal ==
      /\ BlockingEmpty' # {} => InGap("closeNotifyEmpty")'
      /\ BlockingFull' # {} => InGap("closeNotifyEmpty")' \/ InGap("closeNotifyFull")'
<1>b. CallType /\ missed \in BOOLEAN
  BY TypeParts DEF Inv, TypeOK
<1>1. ASSUME UNCHANGED <<closed, missed>>,
             BlockingFull' \subseteq BlockingFull, BlockingEmpty' \subseteq BlockingEmpty,
             \A l \in {"closeNotifyEmpty", "closeNotifyFull"} : InGap(l) => InGap(l)'
      PROVE  Goal
  BY <1>1 DEF WakeInv
<1> USE <1>b DEF CallType, Labels, StoreLoop, PopLoop, BlockingFull, BlockingEmpty, InGap,
            Goto, Finish, restVars
<1>2. CASE UNCHANGED vars
  BY <1>1, <1>2 DEF vars, callVars
<1>3. ASSUME NEW t \in Threads, Call(t) PROVE Goal
  <2>1. CASE CallSend(t)
    BY <1>1, <1>3, <2>1 DEF Call, CallSend, Enter, AccountThreads
  <2>2. CASE CallRead(t)
    BY <1>1, <1>3, <2>2 DEF Call, CallRead, Enter, AccountThreads
  <2>3. CASE CallClose(t)
    BY <1>1, <1>3, <2>3 DEF Call, CallClose, Enter
  <2>4. CASE CallTryEnqueue(t)
    BY <1>1, <1>3, <2>4 DEF Call, CallTryEnqueue, Enter
  <2>5. CASE CallTryDequeue(t)
    BY <1>1, <1>3, <2>5 DEF Call, CallTryDequeue, Enter
  <2>6. QED
    BY <1>3, <2>1, <2>2, <2>3, <2>4, <2>5 DEF Call
<1>4. ASSUME NEW t \in Threads,
             CheckSendDeadlockPossibility(t) \/ CheckReadDeadlockPossibility(t)
      PROVE  Goal
  BY <1>1, <1>4 DEF CheckSendDeadlockPossibility, CheckReadDeadlockPossibility,
                    AfterCheck, HandleDeadlock
<1>5. ASSUME NEW t \in Threads,
             SyncAndOverflowPrework(t) \/ SyncAndUnderflowPrework(t) \/ Block(t)
      PROVE  Goal
  BY <1>1, <1>5 DEF SyncAndOverflowPrework, SyncAndUnderflowPrework, Block
<1>6. ASSUME NEW t \in Threads,
             TrySyncAndOverflowPrework(t) \/ TryRoom(t) \/ TrySyncAndUnderflowPrework(t)
      PROVE  Goal
  BY <1>1, <1>6 DEF TrySyncAndOverflowPrework, TryRoom, TrySyncAndUnderflowPrework
<1>7. ASSUME NEW t \in Threads, CountUp(t) \/ CountDown(t) PROVE Goal
  <2>1. UNCHANGED <<closed, missed>>
    BY <1>7 DEF CountUp, CountDown
  <2>2. QED
    BY <1>1, <1>7, <2>1 DEF CountUp, CountDown
<1>8. ASSUME NEW t \in Threads, SpuriousWakeup(t) \/ Leave(t) PROVE Goal
  BY <1>1, <1>8 DEF SpuriousWakeup, Leave, Return
<1>9. ASSUME NEW t \in Threads, NotifyNotFull(t) \/ NotifyNotEmpty(t) PROVE Goal
  <2>1. UNCHANGED <<closed, missed>>
    BY <1>9 DEF NotifyNotFull, NotifyNotEmpty
  <2>2. CASE NotifyNotFull(t)
    BY <1>1, <2>1, <2>2 DEF NotifyNotFull, NotifyOne, SleepingFull
  <2>3. CASE NotifyNotEmpty(t)
    BY <1>1, <2>1, <2>3 DEF NotifyNotEmpty, NotifyOne, SleepingEmpty
  <2>4. QED
    BY <1>9, <2>2, <2>3
<1>10. ASSUME NEW t \in Threads, Close(t) PROVE Goal
  <2>1. pc'[t] = "closeNotifyEmpty"
    BY <1>10 DEF Close
  <2>2. QED
    BY <2>1
<1>11. ASSUME NEW t \in Threads, CloseNotifyNotEmpty(t) PROVE Goal
  <2>1. pc'[t] = "closeNotifyFull"
    BY <1>11 DEF CloseNotifyNotEmpty, NotifyAll
  <2>2. BlockingEmpty' = {}
    BY <1>11 DEF CloseNotifyNotEmpty, NotifyAll, SleepingEmpty
  <2>3. QED
    BY <2>1, <2>2
<1>12. ASSUME NEW t \in Threads, CloseNotifyNotFull(t) PROVE Goal
  <2>1. UNCHANGED closed /\ ~missed
    BY <1>12 DEF CloseNotifyNotFull
  <2>2. BlockingFull' = {} /\ BlockingEmpty' \subseteq BlockingEmpty
    BY <1>12 DEF CloseNotifyNotFull, NotifyAll, SleepingFull
  <2>3. InGap("closeNotifyEmpty") => InGap("closeNotifyEmpty")'
    BY <1>12 DEF CloseNotifyNotFull, NotifyAll, SleepingFull
  <2>4. QED
    BY <2>1, <2>2, <2>3 DEF WakeInv
<1>13. ASSUME NEW t \in Threads, OnList(t) PROVE Goal
  BY <1>1, <1>13, OnListCompetes
<1>14. QED
  BY <1>2, <1>3, <1>4, <1>5, <1>6, <1>7, <1>8, <1>9, <1>10, <1>11, <1>12, <1>13, StepKinds
  DEF Quiet

(* Although mtx_ is taken by nobody who notifies, a wakeup can be lost in  *)
(* two ways only: a notify that falls between a thread's test and its      *)
(* sleep, and a size that returns from below zero.                         *)
THEOREM WakeupCorrect == Spec => []NoLostWakeup
<1>1. Init => WakeInv
  BY DEF Init, CallInit, WakeInv, BlockingFull, BlockingEmpty
<1>2. Inv /\ CountInv /\ WakeInv /\ [Next]_vars => WakeInv'
  BY SendersCovered, ReadersCovered, ClosedSleepers DEF WakeInv
<1>3. QED
  BY InvAlways, <1>1, <1>2, WakeSuffices, PTL DEF Spec
=============================================================================
