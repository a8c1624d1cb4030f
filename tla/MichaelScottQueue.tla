------------------------- MODULE MichaelScottQueue -------------------------
(***************************************************************************)
(* lib/michael_scott_queue.hpp: the lock-free list of Michael and Scott    *)
(* under a blocking layer.  Every atomic load, store and compare-and-swap  *)
(* is a step.  The size is a counter of its own, tested before the list is *)
(* touched and changed after; mtx_ protects nothing but the sleep itself,  *)
(* and nobody who changes what a sleeper waits for takes it.               *)
(***************************************************************************)
EXTENDS MutexAndConditions, Sequences

CONSTANTS
  Lone,          \* the thread that liveness is about
  Calls,         \* the calls each client makes: pairs of operation and argument
  MaxSends,      \* a bound on the messages ever stored
  SizeModulus,   \* the width of current_size_ (2^64 in the code)
  MaxAttempts,   \* kMaxAttempts of TryStoreInternal (64 in the code)
  CasMayFail     \* may compare_exchange_weak fail spuriously?

ASSUME MichaelScottAssumption ==
  /\ MaxSends \in Nat
  /\ MaxAttempts \in Nat \ {0}
  /\ CasMayFail \in BOOLEAN
ASSUME SizeAssumption ==
  SizeModulus \in Nat /\ SizeModulus > 2 * (Capacity + Cardinality(Threads))

(* A node is the number of messages stored before it, its own included:    *)
(* the constructor's dummy node is 0.  No address is ever used again,      *)
(* because a node that left the list is in retired_nodes_ until the queue  *)
(* is destroyed.                                                           *)
Nodes == 0..MaxSends
Null == -1                 \* nullptr

VARIABLES
  head,      \* head_: the dummy node
  tail,      \* tail_
  next,      \* the next field of every node
  value,     \* the value field: NoMessage is a default or moved-from value
  newest,    \* the node linked last
  size,      \* current_size_
  closed,    \* is_closed
  first,     \* local variables of TryPopOnce and the store functions
  last,
  succ,      \* their local variable next
  attempt,   \* the attempts TryStoreInternal has made
  missed     \* history: a notify went by a thread between its test and its
             \* sleep, or the size came back from below zero while one slept

listVars == <<head, tail, next, value, newest>>
localVars == <<first, last, succ, attempt>>
vars == <<callVars, mutex, listVars, localVars, size, closed, missed>>

Init ==
  /\ CallInit
  /\ mutex = NoThread
  /\ head = 0 /\ tail = 0 /\ newest = 0
  /\ next = [n \in Nodes |-> Null]
  /\ value = [n \in Nodes |-> NoMessage]
  /\ size = 0
  /\ closed = FALSE
  /\ first = [t \in Threads |-> Null]
  /\ last = [t \in Threads |-> Null]
  /\ succ = [t \in Threads |-> Null]
  /\ attempt = [t \in Threads |-> 0]
  /\ missed = FALSE

Set(local, t, v) == local' = [local EXCEPT ![t] = v]

(* The locals of one attempt end with it, and all of them with the call of *)
(* the store or pop function.                                              *)
DropPointers(t) == Set(first, t, Null) /\ Set(last, t, Null) /\ Set(succ, t, Null)

DropLocals(t) == DropPointers(t) /\ Set(attempt, t, 0)

(* tail_.compare_exchange_strong(last, to), whose result nobody asks for.  *)
SwingTail(t) == tail' = IF tail = last[t] THEN succ[t] ELSE tail

(***************************************************************************)
(* The deadlock checks: for every category, by the counter.                *)
(***************************************************************************)
\* Off by one.
HasRoom_OneMore == size <= Capacity

HasRoom == size < Capacity
HasMessage == size > 0

StoreOps == SendOps \cup {"TryEnqueue"}
PopOps   == ReadOps \cup {"TryDequeue"}

restVars == <<mutex, listVars, localVars, size, closed, missed>>

CheckSendDeadlockPossibility(t) ==
  /\ op[t] \in SendOps
  /\ AfterCheck(t, IsBothRole(t) /\ ~HasRoom)
  /\ UNCHANGED restVars

CheckReadDeadlockPossibility(t) ==
  /\ op[t] \in ReadOps
  /\ AfterCheck(t, IsBothRole(t) /\ size = 0)
  /\ UNCHANGED restVars

(* TryEnqueue and TryDequeue bypass the pipeline: no role, no check.       *)
CallTryEnqueue(t) ==
  /\ t \in Producers
  /\ \E m \in Messages : Enter(t, "TryEnqueue", m)
  /\ Goto(t, "sync")
  /\ UNCHANGED <<role, outcome>>

CallTryDequeue(t) ==
  /\ t \in Consumers
  /\ Enter(t, "TryDequeue", NoMessage)
  /\ Goto(t, "sync")
  /\ UNCHANGED <<role, outcome>>

(***************************************************************************)
(* Waiting.  A prework holds mtx_ while it tests and until it sleeps, so   *)
(* the preworks exclude one another, but nobody else.  closed is never     *)
(* reset, so the separate loads of size and closed in one prework amount   *)
(* to one test of both at the moment of one of the loads.                  *)
(***************************************************************************)
SyncAndOverflowPrework(t) ==
  /\ pc[t] = "sync" /\ op[t] = "Send"
  /\ \/ closed /\ LockedBriefly /\ Finish(t, "closed")
     \/ ~closed /\ HasRoom /\ LockedBriefly /\ Goto(t, "loadTail")
          /\ UNCHANGED outcome
     \/ ~closed /\ ~HasRoom /\ Lock(t) /\ Goto(t, "blockFull")
          /\ UNCHANGED outcome
  /\ UNCHANGED <<role, op, msg, listVars, localVars, size, closed, missed>>

SyncAndUnderflowPrework(t) ==
  /\ pc[t] = "sync" /\ op[t] = "Read"
  /\ \/ closed /\ ~HasMessage /\ LockedBriefly /\ Finish(t, "closed")
     \/ HasMessage /\ LockedBriefly /\ Goto(t, "loadHead")
          /\ UNCHANGED outcome
     \/ ~closed /\ ~HasMessage /\ Lock(t) /\ Goto(t, "blockEmpty")
          /\ UNCHANGED outcome
  /\ UNCHANGED <<role, op, msg, listVars, localVars, size, closed, missed>>

(* wait releases mtx_ and sleeps, some time after the predicate was false. *)
Block(t) ==
  /\ \/ pc[t] = "blockFull" /\ Goto(t, "waitFull")
     \/ pc[t] = "blockEmpty" /\ Goto(t, "waitEmpty")
  /\ Unlock(t)
  /\ UNCHANGED <<role, op, msg, outcome, listVars, localVars, size, closed, missed>>

(* Two loads, without mtx_: is_closed first, then the size. *)
TrySyncAndOverflowPrework(t) ==
  /\ pc[t] = "sync" /\ op[t] \in StoreOps \ {"Send"}
  /\ \/ closed /\ Finish(t, "false")
     \/ ~closed /\ Goto(t, "tryFull") /\ UNCHANGED outcome
  /\ UNCHANGED <<role, op, msg, restVars>>

TryRoom(t) ==
  /\ pc[t] = "tryFull"
  /\ \/ ~HasRoom /\ Finish(t, "false")
     \/ HasRoom /\ Goto(t, "loadTail") /\ UNCHANGED outcome
  /\ UNCHANGED <<role, op, msg, restVars>>

TrySyncAndUnderflowPrework(t) ==
  /\ pc[t] = "sync" /\ op[t] \in PopOps \ {"Read"}
  /\ \/ ~HasMessage /\ Finish(t, "false")
     \/ HasMessage /\ Goto(t, "loadHead") /\ UNCHANGED outcome
  /\ UNCHANGED <<role, op, msg, restVars>>

(***************************************************************************)
(* StoreInternal and TryStoreInternal.                                     *)
(***************************************************************************)
LoadTail(t) ==
  /\ pc[t] = "loadTail"
  /\ Set(last, t, tail)
  /\ Goto(t, "loadNext")
  /\ UNCHANGED <<role, op, msg, outcome, mutex, listVars, first, succ, attempt,
                 size, closed, missed>>

LoadNext(t) ==
  /\ pc[t] = "loadNext"
  /\ Set(succ, t, next[last[t]])
  /\ Goto(t, "recheckTail")
  /\ UNCHANGED <<role, op, msg, outcome, mutex, listVars, first, last, attempt,
                 size, closed, missed>>

(* The next attempt.  TryStoreInternal gives up after the last one, and    *)
(* the node it destroys has the message: the caller does not get it back.  *)
OneMoreStore(t) ==
  \/ /\ op[t] # "TryEnqueue"
     /\ DropPointers(t) /\ Goto(t, "loadTail")
     /\ UNCHANGED <<attempt, msg, outcome>>
  \/ /\ op[t] = "TryEnqueue" /\ attempt[t] + 1 < MaxAttempts
     /\ DropPointers(t) /\ Goto(t, "loadTail")
     /\ Set(attempt, t, attempt[t] + 1)
     /\ UNCHANGED <<msg, outcome>>
  \/ /\ op[t] = "TryEnqueue" /\ attempt[t] + 1 = MaxAttempts
     /\ DropLocals(t)
     /\ msg' = [msg EXCEPT ![t] = NoMessage]
     /\ Finish(t, "false")

RecheckTail(t) ==
  /\ pc[t] = "recheckTail"
  /\ \/ last[t] # tail /\ OneMoreStore(t)
     \/ /\ last[t] = tail
        /\ Goto(t, IF succ[t] = Null THEN "link" ELSE "helpEnqueue")
        /\ UNCHANGED <<localVars, msg, outcome>>
  /\ UNCHANGED <<role, op, mutex, listVars, size, closed, missed>>

\* A plain store instead of the compare-and-swap.
Link_Store(t) ==
  /\ pc[t] = "link"
  /\ newest' = newest + 1
  /\ next' = [next EXCEPT ![last[t]] = newest']
  /\ value' = [value EXCEPT ![newest'] = msg[t]]
  /\ Set(succ, t, newest')
  /\ msg' = [msg EXCEPT ![t] = NoMessage]
  /\ Decide(t, "returned")
  /\ Goto(t, "swing")
  /\ UNCHANGED <<role, op, mutex, head, tail, first, last, attempt, size, closed,
                 missed>>

(* The new node holds the message from the start of the call, but nobody   *)
(* else sees it before this compare-and-swap: the model allocates it here. *)
Link(t) ==
  /\ pc[t] = "link"
  /\ \/ /\ next[last[t]] = Null
        /\ newest' = newest + 1
        /\ next' = [next EXCEPT ![last[t]] = newest']
        /\ value' = [value EXCEPT ![newest'] = msg[t]]
        /\ Set(succ, t, newest')
        /\ msg' = [msg EXCEPT ![t] = NoMessage]
        /\ Decide(t, "returned")
        /\ Goto(t, "swing")
        /\ UNCHANGED <<first, last, attempt>>
     \/ /\ next[last[t]] # Null \/ CasMayFail
        /\ OneMoreStore(t)
        /\ UNCHANGED <<next, value, newest>>
  /\ UNCHANGED <<role, op, mutex, head, tail, size, closed, missed>>

\* Waits until the other sender has moved the tail.
HelpEnqueue_Wait(t) ==
  /\ pc[t] = "helpEnqueue"
  /\ OneMoreStore(t)
  /\ UNCHANGED <<role, op, mutex, listVars, size, closed, missed>>

(* The tail lags: somebody linked a node and has not moved the tail yet.   *)
HelpEnqueue(t) ==
  /\ pc[t] = "helpEnqueue"
  /\ SwingTail(t)
  /\ OneMoreStore(t)
  /\ UNCHANGED <<role, op, mutex, head, next, value, newest, size, closed, missed>>

Swing(t) ==
  /\ pc[t] = "swing"
  /\ SwingTail(t)
  /\ DropLocals(t)
  /\ Goto(t, "countUp")
  /\ UNCHANGED <<role, op, msg, outcome, mutex, head, next, value, newest, size, closed,
                 missed>>

(***************************************************************************)
(* SendPostwork, ReadPostwork and the notifies, none of them under mtx_.   *)
(***************************************************************************)
InGap(label) == \E s \in Threads : pc[s] = label

BlockingFull == {s \in Threads : pc[s] \in {"blockFull", "waitFull"}}

(* current_size_ below zero. *)
Wrapped == 2 * size > SizeModulus

\* TryEnqueue counts, but leaves the notify to the pipeline's calls.
CountUp_PipelineNotifies(t) ==
  /\ pc[t] = "countUp"
  /\ size' = (size + 1) % SizeModulus
  /\ missed' = (missed \/ (Wrapped /\ BlockingFull # {}))
  /\ Goto(t, IF op[t] \in SendOps THEN "notifyNotEmpty" ELSE "return")
  /\ UNCHANGED <<role, op, msg, outcome, mutex, listVars, localVars, closed>>

CountUp(t) ==
  /\ pc[t] = "countUp"
  /\ size' = (size + 1) % SizeModulus
  /\ missed' = (missed \/ (Wrapped /\ BlockingFull # {}))
  /\ Goto(t, "notifyNotEmpty")
  /\ UNCHANGED <<role, op, msg, outcome, mutex, listVars, localVars, closed>>

\* Never below zero.
CountDown_NeverNegative(t) ==
  /\ pc[t] = "countDown"
  /\ size' = IF size = 0 THEN 0 ELSE size - 1
  /\ Goto(t, "notifyNotFull")
  /\ UNCHANGED <<role, op, msg, outcome, mutex, listVars, localVars, closed,
                 missed>>

CountDown(t) ==
  /\ pc[t] = "countDown"
  /\ size' = (size - 1) % SizeModulus
  /\ Goto(t, "notifyNotFull")
  /\ UNCHANGED <<role, op, msg, outcome, mutex, listVars, localVars, closed,
                 missed>>

NotifyNotEmpty(t) ==
  /\ pc[t] = "notifyNotEmpty"
  /\ NotifyOne(t, SleepingEmpty)
  /\ missed' = (missed \/ (SleepingEmpty = {} /\ InGap("blockEmpty")))
  /\ UNCHANGED <<role, op, msg, outcome, mutex, listVars, localVars, size, closed>>

NotifyNotFull(t) ==
  /\ pc[t] = "notifyNotFull"
  /\ NotifyOne(t, SleepingFull)
  /\ missed' = (missed \/ (SleepingFull = {} /\ InGap("blockFull")))
  /\ UNCHANGED <<role, op, msg, outcome, mutex, listVars, localVars, size, closed>>

SpuriousWakeup(t) ==
  /\ SpuriousWakeups
  /\ pc[t] \in {"waitFull", "waitEmpty"}
  /\ Goto(t, "sync")
  /\ UNCHANGED <<role, op, msg, outcome, restVars>>

(***************************************************************************)
(* PopMessage and TryDequeue: TryPopOnce, again and again or once.         *)
(***************************************************************************)
LoadHead(t) ==
  /\ pc[t] = "loadHead"
  /\ Set(first, t, head)
  /\ Goto(t, "loadLast")
  /\ UNCHANGED <<role, op, msg, outcome, mutex, listVars, last, succ, attempt,
                 size, closed, missed>>

LoadLast(t) ==
  /\ pc[t] = "loadLast"
  /\ Set(last, t, tail)
  /\ Goto(t, "loadFirstNext")
  /\ UNCHANGED <<role, op, msg, outcome, mutex, listVars, first, succ, attempt,
                 size, closed, missed>>

LoadFirstNext(t) ==
  /\ pc[t] = "loadFirstNext"
  /\ Set(succ, t, next[first[t]])
  /\ Goto(t, "recheckHead")
  /\ UNCHANGED <<role, op, msg, outcome, mutex, listVars, first, last, attempt,
                 size, closed, missed>>

(* TryPopOnce returns false. *)
OneMorePop(t) ==
  /\ DropPointers(t)
  /\ UNCHANGED attempt
  /\ \/ op[t] = "TryDequeue" /\ Finish(t, "false")
     \/ op[t] # "TryDequeue" /\ Goto(t, "loadHead") /\ UNCHANGED outcome

\* Without the test for an empty list.
RecheckHead_NoEmptyTest(t) ==
  /\ pc[t] = "recheckHead"
  /\ \/ first[t] # head /\ OneMorePop(t)
     \/ first[t] = head /\ Goto(t, "advance") /\ UNCHANGED <<localVars, outcome>>
  /\ UNCHANGED <<role, op, msg, mutex, listVars, size, closed, missed>>

\* Without first == last: the head may overtake the tail.
RecheckHead_IgnoresTail(t) ==
  /\ pc[t] = "recheckHead"
  /\ \/ /\ first[t] # head \/ succ[t] = Null
        /\ OneMorePop(t)
     \/ /\ first[t] = head /\ succ[t] # Null
        /\ Goto(t, "advance")
        /\ UNCHANGED <<localVars, outcome>>
  /\ UNCHANGED <<role, op, msg, mutex, listVars, size, closed, missed>>

RecheckHead(t) ==
  /\ pc[t] = "recheckHead"
  /\ \/ /\ first[t] # head \/ succ[t] = Null
        /\ OneMorePop(t)
     \/ /\ first[t] = head /\ succ[t] # Null
        /\ Goto(t, IF first[t] = last[t] THEN "helpDequeue" ELSE "advance")
        /\ UNCHANGED <<localVars, outcome>>
  /\ UNCHANGED <<role, op, msg, mutex, listVars, size, closed, missed>>

\* Waits until the sender has moved the tail.
HelpDequeue_Wait(t) ==
  /\ pc[t] = "helpDequeue"
  /\ OneMorePop(t)
  /\ UNCHANGED <<role, op, msg, mutex, listVars, size, closed, missed>>

HelpDequeue(t) ==
  /\ pc[t] = "helpDequeue"
  /\ SwingTail(t)
  /\ OneMorePop(t)
  /\ UNCHANGED <<role, op, msg, mutex, head, next, value, newest, size, closed, missed>>

(* The node of the message becomes the dummy node; the old one is retired. *)
Advance(t) ==
  /\ pc[t] = "advance"
  /\ \/ /\ head = first[t]
        /\ head' = succ[t]
        /\ Decide(t, "returned")
        /\ Goto(t, "move")
        /\ UNCHANGED localVars
     \/ /\ head # first[t] \/ CasMayFail
        /\ OneMorePop(t)
        /\ UNCHANGED head
  /\ UNCHANGED <<role, op, msg, mutex, tail, next, value, newest, size, closed, missed>>

(* By now other readers may have taken the node out of the list as well. *)
Move(t) ==
  /\ pc[t] = "move"
  /\ msg' = [msg EXCEPT ![t] = value[succ[t]]]
  /\ value' = [value EXCEPT ![succ[t]] = NoMessage]
  /\ DropLocals(t)
  /\ Goto(t, "countDown")
  /\ UNCHANGED <<role, op, outcome, mutex, head, tail, next, newest, size, closed, missed>>

(***************************************************************************)
(* Close.                                                                  *)
(***************************************************************************)
Close(t) ==
  /\ pc[t] = "close"
  /\ closed' = TRUE
  /\ Decide(t, "returned")
  /\ Goto(t, "closeNotifyEmpty")
  /\ UNCHANGED <<role, op, msg, mutex, listVars, localVars, size, missed>>

CloseNotifyNotEmpty(t) ==
  /\ pc[t] = "closeNotifyEmpty"
  /\ NotifyAll(t, SleepingEmpty, "closeNotifyFull")
  /\ missed' = (missed \/ InGap("blockEmpty"))
  /\ UNCHANGED <<role, op, msg, outcome, mutex, listVars, localVars, size, closed>>

CloseNotifyNotFull(t) ==
  /\ pc[t] = "closeNotifyFull"
  /\ NotifyAll(t, SleepingFull, "return")
  /\ missed' = (missed \/ InGap("blockFull"))
  /\ UNCHANGED <<role, op, msg, outcome, mutex, listVars, localVars, size, closed>>
-----------------------------------------------------------------------------
Storing == {t \in Threads : op[t] \in StoreOps /\ outcome[t] = "none"}

Call(t) ==
  /\ \/ CallSend(t) \/ CallRead(t) \/ CallClose(t)
     \/ CallTryEnqueue(t) \/ CallTryDequeue(t)
  /\ <<op'[t], msg'[t]>> \in Calls[t]
  /\ op'[t] \in StoreOps => newest + Cardinality(Storing) < MaxSends
  /\ UNCHANGED restVars

Leave(t) == Return(t) /\ UNCHANGED restVars

Run(t) ==
  \/ CheckSendDeadlockPossibility(t) \/ CheckReadDeadlockPossibility(t)
  \/ SyncAndOverflowPrework(t) \/ TrySyncAndOverflowPrework(t) \/ TryRoom(t)
  \/ SyncAndUnderflowPrework(t) \/ TrySyncAndUnderflowPrework(t) \/ Block(t)
  \/ LoadTail(t) \/ LoadNext(t) \/ RecheckTail(t)
  \/ Link(t) \/ HelpEnqueue(t) \/ Swing(t)
  \/ LoadHead(t) \/ LoadLast(t) \/ LoadFirstNext(t) \/ RecheckHead(t)
  \/ HelpDequeue(t) \/ Advance(t) \/ Move(t)
  \/ CountUp(t) \/ CountDown(t) \/ NotifyNotEmpty(t) \/ NotifyNotFull(t)
  \/ Close(t) \/ CloseNotifyNotEmpty(t) \/ CloseNotifyNotFull(t)
  \/ Leave(t)

Next == \E t \in Threads : Call(t) \/ Run(t) \/ SpuriousWakeup(t)

Spec == Init /\ [][Next]_vars

(* The scheduler promises nothing but that one thread keeps running. *)
LoneSpec == Spec /\ WF_vars(Run(Lone))
-----------------------------------------------------------------------------
(***************************************************************************)
(* Properties.                                                             *)
(***************************************************************************)
StoreLoop == {"loadTail", "loadNext", "recheckTail", "link", "helpEnqueue"}
PopLoop == {"loadHead", "loadLast", "loadFirstNext", "recheckHead",
            "helpDequeue", "advance"}

Labels == StoreLoop \cup PopLoop \cup
  {"idle", "check", "sync", "tryFull", "blockFull", "blockEmpty", "waitFull",
   "waitEmpty", "swing", "countUp", "move", "countDown", "notifyNotEmpty",
   "notifyNotFull", "close", "closeNotifyEmpty", "closeNotifyFull", "return"}

(* Every variable has its type. *)
TypeOK ==
  /\ role \in [Threads -> Roles]
  /\ pc \in [Threads -> Labels]
  /\ op \in [Threads -> Ops \cup {"TryEnqueue", "TryDequeue"}]
  /\ msg \in [Threads -> Messages \cup {NoMessage}]
  /\ outcome \in [Threads -> Outcomes]
  /\ mutex \in Threads \cup {NoThread}
  /\ head \in Nodes /\ tail \in Nodes /\ newest \in Nodes
  /\ next \in [Nodes -> Nodes \cup {Null}]
  /\ value \in [Nodes -> Messages \cup {NoMessage}]
  /\ size \in 0..(SizeModulus - 1)
  /\ closed \in BOOLEAN /\ missed \in BOOLEAN
  /\ first \in [Threads -> Nodes \cup {Null}]
  /\ last \in [Threads -> Nodes \cup {Null}]
  /\ succ \in [Threads -> Nodes \cup {Null}]
  /\ attempt \in [Threads -> 0..(MaxAttempts - 1)]

(* The messages in the list: those of the nodes linked after the dummy.    *)
Queue == [i \in 1..(newest - head) |-> value[head + i]]

At(labels) == {t \in Threads : pc[t] \in labels}
Number(labels) == Cardinality(At(labels))

(* The list is one chain that runs through the nodes in the order in which *)
(* they were linked, and ends at the newest.  The tail is never behind the *)
(* head, and behind the newest node only while the sender that linked that *)
(* one has yet to move the tail, and by one node.                          *)
ListWellFormed ==
  /\ \A n \in Nodes : next[n] = IF n < newest THEN n + 1 ELSE Null
  /\ head <= tail
  /\ \/ tail = newest
     \/ tail = newest - 1 /\ \E t \in At({"swing"}) : succ[t] = newest

(* The size is off the number of messages by exactly the calls between the *)
(* list and the counter, wrapped below zero when a reader is faster.       *)
SizeAccounting ==
  size = (Len(Queue) - Number({"swing", "countUp"})
            + Number({"move", "countDown"})) % SizeModulus

(* The capacity is exceeded by the senders that were let in together, and  *)
(* by no more: one per producer.                                           *)
CapacityOvershoot ==
  Len(Queue) + Number(StoreLoop)
    <= Capacity + Cardinality(Producers) - 1

CompetingSenders ==
  {t \in Threads :
     \/ pc[t] = "notifyNotFull"
     \/ op[t] = "Send" /\ pc[t] \in StoreLoop \cup {"sync", "swing", "countUp"}}
CompetingReaders ==
  {t \in Threads :
     \/ pc[t] = "notifyNotEmpty"
     \/ op[t] = "Read" /\ pc[t] \in PopLoop \cup {"sync", "move", "countDown"}}

(* Although nobody takes mtx_ to notify, a wakeup is lost in two ways only *)
(* (missed): a notify that falls between a thread's test and its sleep, or *)
(* a size that returns from below zero, which nobody notifies the senders  *)
(* of.  Until one of these happens, sleepers are matched by threads that   *)
(* notify or compete, as in the deque queue.                               *)
NoLostWakeup ==
  ~missed =>
    /\ ~closed /\ SleepingFull # {} /\ HasRoom =>
         Capacity - size <= Cardinality(CompetingSenders)
    /\ ~closed /\ SleepingEmpty # {} /\ HasMessage /\ ~Wrapped =>
         size <= Cardinality(CompetingReaders)
    /\ closed /\ SleepingEmpty # {} => InGap("closeNotifyEmpty")
    /\ closed /\ SleepingFull # {} =>
         InGap("closeNotifyEmpty") \/ InGap("closeNotifyFull")

(* Every call is an atomic call of a FIFO: order, nothing lost, duplicated *)
(* or invented.  A send takes effect when its node is linked, a read when  *)
(* the head moves; the reader takes the message out of its node later,     *)
(* when other readers may be past it.                                      *)
InHand(t) == IF pc[t] = "move" THEN value[succ[t]] ELSE msg[t]

Fifo == INSTANCE LooseFifo
          WITH queue <- Queue, msg <- [t \in Threads |-> InHand(t)],
               Overshoot <- Cardinality(Producers) - 1, Exact <- FALSE
ImplementsLooseFifo == Fifo!LooseSpec

(* Lock-freedom: a thread that keeps running gets out of the loop of a     *)
(* send although every other thread may stop for good at any step, the one *)
(* between linking a node and moving the tail included.  (No more than     *)
(* MaxSends messages can get in its way.)                                  *)
StoreLoopEnds == []<>(pc[Lone] \notin StoreLoop)

(* The same for the loop of a read, unless the list stays empty: then it   *)
(* spins for a message that another reader took.                           *)
PopLoopEnds == []<>(pc[Lone] \notin PopLoop \/ Queue = <<>>)
=============================================================================
