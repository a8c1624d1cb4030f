-------------------------- MODULE BenchmarkScenario --------------------------
(***************************************************************************)
(* bin/benchmark_helpers.hpp, RunScenario: producers and consumers poll    *)
(* one queue with TrySend and TryRead until all messages have gone         *)
(* through; a watchdog asks everyone to stop at the deadline; the main     *)
(* thread joins them and reports what was produced, delivered and lost.    *)
(*                                                                         *)
(* The queue is what its adapter shows of it: how many messages there are  *)
(* to read, and a Size() that lags behind by the calls under way.  The     *)
(* steps of a call are those of the circular queues, where they are most   *)
(* apart; in the queues with one mutex several of them are one.            *)
(***************************************************************************)
EXTENDS Integers, FiniteSets

CONSTANTS
  N,               \* params.producers
  Consumers,       \* params.consumers
  TotalMessages,   \* params.total_messages
  Capacity         \* params.capacity

Producers == 0..(N - 1)

ASSUME ProducersAssumption == N \in Nat \ {0}
ASSUME ConsumersAssumption ==
  IsFiniteSet(Consumers) /\ Consumers # {} /\ Consumers \cap Producers = {}
ASSUME SizesAssumption ==
  TotalMessages \in Nat \ {0} /\ Capacity \in Nat \ {0}

VARIABLES
  adapter,         \* the kind of queue: "bounded" or "dropOldest"
  held,            \* the messages to read: occupied_space_
  size,            \* what Size() returns: count_
  dropped,         \* history: messages dropped to make room
  left,            \* iterations each producer has left
  produced, delivered, producersDone, stopRequested, scenarioDone,
  pc,              \* where each producer and consumer is
  watchdog, main,  \* where those two threads are
  timedOut         \* metrics.timed_out

queueVars == <<held, size, dropped>>
counters == <<produced, delivered, producersDone>>
flags == <<stopRequested, scenarioDone, watchdog, main, timedOut>>
vars == <<adapter, queueVars, left, counters, flags, pc>>

\* The rest shared out to one producer too many.
LocalTotal_OneMore(p) ==
  TotalMessages \div N + IF p <= TotalMessages % N THEN 1 ELSE 0

(* base and extra. *)
LocalTotal(p) ==
  TotalMessages \div N + IF p < TotalMessages % N THEN 1 ELSE 0

Init ==
  /\ adapter \in {"bounded", "dropOldest"}
  /\ held = 0 /\ size = 0 /\ dropped = 0
  /\ left = [p \in Producers |-> LocalTotal(p)]
  /\ produced = 0 /\ delivered = 0 /\ producersDone = 0
  /\ stopRequested = FALSE /\ scenarioDone = FALSE
  /\ pc = [t \in Producers \cup Consumers |->
             IF t \in Producers THEN "loop" ELSE "poll"]
  /\ watchdog = "watch" /\ main = "join"
  /\ timedOut = FALSE

Goto(t, label) == pc' = [pc EXCEPT ![t] = label]

(***************************************************************************)
(* A producer.                                                             *)
(***************************************************************************)
NextMessage(p) ==
  /\ pc[p] = "loop"
  /\ Goto(p, IF left[p] = 0 \/ stopRequested THEN "finish" ELSE "try")
  /\ UNCHANGED <<adapter, queueVars, left, counters, flags>>

BeforeAttempt(p) ==
  /\ pc[p] = "try"
  /\ Goto(p, IF stopRequested THEN "sent" ELSE "send")
  /\ UNCHANGED <<adapter, queueVars, left, counters, flags>>

(* Calls that hold the lock of their side, or the credit for a slot ...    *)
Inside == {"overflow", "drop", "store", "storeOver", "take", "leave"}

(* ... or are between the messages and the count of them.                  *)
Moving == {"countUp", "countDown", "deliver"}

Contended(t, side) ==
  \/ \E u \in side \ {t} : pc[u] \in Inside
  \/ \E u \in Producers \cup Consumers : pc[u] \in Moving

(* A bounded queue lets a sender in if there is room, one that replaces    *)
(* its oldest message if no other sender has the mutex ...                 *)
TrySend(p) ==
  /\ pc[p] = "send"
  /\ \/ /\ adapter = "bounded"
        /\ held + Cardinality({q \in Producers : pc[q] = "store"}) < Capacity
        /\ Goto(p, "store")
     \/ /\ adapter = "dropOldest"
        /\ \A q \in Producers : pc[q] \notin Inside
        /\ Goto(p, "overflow")
  /\ UNCHANGED <<adapter, queueVars, left, counters, flags>>

(* ... and refuses one that meets a full queue or another call.            *)
TrySendFails(p) ==
  /\ pc[p] = "send"
  /\ (adapter = "bounded" /\ held >= Capacity) \/ Contended(p, Producers)
  /\ Goto(p, "try")
  /\ UNCHANGED <<adapter, queueVars, left, counters, flags>>

(* The counter is unsigned: below zero it looks full.                      *)
IsFull == size >= Capacity \/ size < 0

ResolveSendOverflow(p) ==
  /\ pc[p] = "overflow"
  /\ Goto(p, IF IsFull THEN "drop" ELSE "store")
  /\ UNCHANGED <<adapter, queueVars, left, counters, flags>>

(* Whether it drops a message or gives up depends on the head and on a     *)
(* second look at the counter.                                             *)
AdvanceHeadForOverwriteDrop(p) ==
  /\ pc[p] = "drop"
  /\ \/ size' = size - 1 /\ dropped' = dropped + 1 /\ Goto(p, "storeOver")
     \/ UNCHANGED <<size, dropped>> /\ Goto(p, "store")
  /\ UNCHANGED <<adapter, held, left, counters, flags>>

(* After a drop no reader is told of the message: it takes the other's     *)
(* place.                                                                  *)
StoreMessage(p) ==
  /\ \/ pc[p] = "store" /\ held' = held + 1
     \/ pc[p] = "storeOver" /\ UNCHANGED held
  /\ Goto(p, "countUp")
  /\ UNCHANGED <<adapter, size, dropped, left, counters, flags>>

CountUp(p) ==
  /\ pc[p] = "countUp"
  /\ size' = size + 1
  /\ Goto(p, "sent")
  /\ UNCHANGED <<adapter, held, dropped, left, counters, flags>>

\* The test after the retry loop left out.
AfterSend_NoTest(p) ==
  /\ pc[p] = "sent"
  /\ Goto(p, "produce")
  /\ UNCHANGED <<adapter, queueVars, left, counters, flags>>

(* Reached with the message sent, or without when asked to stop.           *)
AfterSend(p) ==
  /\ pc[p] = "sent"
  /\ Goto(p, IF stopRequested THEN "finish" ELSE "produce")
  /\ UNCHANGED <<adapter, queueVars, left, counters, flags>>

Produce(p) ==
  /\ pc[p] = "produce"
  /\ produced' = produced + 1
  /\ left' = [left EXCEPT ![p] = left[p] - 1]
  /\ Goto(p, "loop")
  /\ UNCHANGED <<adapter, queueVars, delivered, producersDone, flags>>

ProducerDone(p) ==
  /\ pc[p] = "finish"
  /\ producersDone' = producersDone + 1
  /\ Goto(p, "ended")
  /\ UNCHANGED <<adapter, queueVars, left, produced, delivered, flags>>

Produces(p) ==
  \/ NextMessage(p) \/ BeforeAttempt(p) \/ TrySend(p) \/ TrySendFails(p)
  \/ ResolveSendOverflow(p) \/ AdvanceHeadForOverwriteDrop(p)
  \/ StoreMessage(p) \/ CountUp(p) \/ AfterSend(p) \/ Produce(p) \/ ProducerDone(p)

(***************************************************************************)
(* A consumer.  ConsumerShouldStop reads one thing after the other.        *)
(***************************************************************************)
PollStop(c) ==
  /\ pc[c] = "poll"
  /\ Goto(c, IF stopRequested THEN "ended" ELSE "pollDone")
  /\ UNCHANGED <<adapter, queueVars, left, counters, flags>>

\* An empty queue is taken for the end of the scenario.
PollProducersDone_Ignored(c) ==
  /\ pc[c] = "pollDone"
  /\ Goto(c, "pollSize")
  /\ UNCHANGED <<adapter, queueVars, left, counters, flags>>

PollProducersDone(c) ==
  /\ pc[c] = "pollDone"
  /\ Goto(c, IF producersDone # N THEN "read" ELSE "pollSize")
  /\ UNCHANGED <<adapter, queueVars, left, counters, flags>>

\* Only the two counters tell the end.
PollSize_NotAsked(c) ==
  /\ pc[c] = "pollSize"
  /\ Goto(c, "pollCounters")
  /\ UNCHANGED <<adapter, queueVars, left, counters, flags>>

PollSize(c) ==
  /\ pc[c] = "pollSize"
  /\ Goto(c, IF size = 0 THEN "ended" ELSE "pollCounters")
  /\ UNCHANGED <<adapter, queueVars, left, counters, flags>>

(* produced does not change any more. *)
PollCounters(c) ==
  /\ pc[c] = "pollCounters"
  /\ Goto(c, IF produced > 0 /\ delivered >= produced THEN "ended" ELSE "read")
  /\ UNCHANGED <<adapter, queueVars, left, counters, flags>>

(* A reader may find the lock of the readers taken ...                     *)
TryRead(c) ==
  /\ pc[c] = "read"
  /\ Goto(c, "take") \/ (Contended(c, Consumers) /\ Goto(c, "poll"))
  /\ UNCHANGED <<adapter, queueVars, left, counters, flags>>

(* ... or have it and find no message ...                                  *)
Acquire(c) ==
  /\ pc[c] = "take"
  /\ \/ held > 0 /\ held' = held - 1 /\ Goto(c, "countDown")
     \/ held = 0 /\ UNCHANGED held /\ Goto(c, "leave")
  /\ UNCHANGED <<adapter, size, dropped, left, counters, flags>>

Leave(c) ==
  /\ pc[c] = "leave"
  /\ Goto(c, "poll")
  /\ UNCHANGED <<adapter, queueVars, left, counters, flags>>

(* ... or one that is not counted yet, and leaves it.                      *)
CancelReadOperation(c) ==
  /\ pc[c] = "countDown" /\ size = 0
  /\ held' = held + 1
  /\ Goto(c, "poll")
  /\ UNCHANGED <<adapter, size, dropped, left, counters, flags>>

CountDown(c) ==
  /\ pc[c] = "countDown"
  /\ size' = size - 1
  /\ Goto(c, "deliver")
  /\ UNCHANGED <<adapter, held, dropped, left, counters, flags>>

Deliver(c) ==
  /\ pc[c] = "deliver"
  /\ delivered' = delivered + 1
  /\ Goto(c, "poll")
  /\ UNCHANGED <<adapter, queueVars, left, produced, producersDone, flags>>

Consumes(c) ==
  \/ PollStop(c) \/ PollProducersDone(c) \/ PollSize(c) \/ PollCounters(c)
  \/ TryRead(c) \/ Acquire(c) \/ Leave(c) \/ CancelReadOperation(c)
  \/ CountDown(c) \/ Deliver(c)

(***************************************************************************)
(* The watchdog and the main thread.                                       *)
(***************************************************************************)
Watch ==
  /\ watchdog = "watch"
  /\ watchdog' = IF scenarioDone THEN "ended" ELSE "clock"
  /\ UNCHANGED <<adapter, queueVars, left, counters, pc, stopRequested,
                 scenarioDone, main, timedOut>>

(* The deadline may pass at any moment. *)
ReadClock ==
  /\ watchdog = "clock"
  /\ \/ watchdog' = "watch" /\ UNCHANGED stopRequested
     \/ watchdog' = "ended" /\ stopRequested' = TRUE
  /\ UNCHANGED <<adapter, queueVars, left, counters, pc, scenarioDone, main,
                 timedOut>>

Ended(threads) == \A t \in threads : pc[t] = "ended"

JoinWorkers ==
  /\ main = "join" /\ Ended(Producers \cup Consumers)
  /\ scenarioDone' = TRUE
  /\ main' = "joinWatchdog"
  /\ UNCHANGED <<adapter, queueVars, left, counters, pc, stopRequested,
                 watchdog, timedOut>>

Report ==
  /\ main = "joinWatchdog" /\ watchdog = "ended"
  /\ timedOut' = stopRequested
  /\ main' = "reported"
  /\ UNCHANGED <<adapter, queueVars, left, counters, pc, stopRequested,
                 scenarioDone, watchdog>>

Workers ==
  \/ \E p \in Producers : Produces(p)
  \/ \E c \in Consumers : Consumes(c)

Next == Workers \/ Watch \/ ReadClock \/ JoinWorkers \/ Report

Spec == Init /\ [][Next]_vars

(* The operating system runs every thread; the deadline need never pass.   *)
FairSpec ==
  /\ Spec
  /\ \A p \in Producers : WF_vars(Produces(p))
  /\ \A c \in Consumers : WF_vars(Consumes(c))
  /\ WF_vars(Watch \/ ReadClock) /\ WF_vars(JoinWorkers \/ Report)
-----------------------------------------------------------------------------
(***************************************************************************)
(* Properties.                                                             *)
(***************************************************************************)
Lost == IF produced >= delivered THEN produced - delivered ELSE 0

(* Every variable has its type, and no counter passes the total.           *)
TypeOK ==
  /\ adapter \in {"bounded", "dropOldest"}
  /\ held \in 0..TotalMessages /\ size \in Int /\ dropped \in 0..TotalMessages
  /\ left \in [Producers -> 0..TotalMessages]
  /\ produced \in 0..TotalMessages /\ delivered \in 0..TotalMessages
  /\ producersDone \in 0..N
  /\ stopRequested \in BOOLEAN /\ scenarioDone \in BOOLEAN
  /\ timedOut \in BOOLEAN
  /\ pc \in [Producers \cup Consumers ->
               {"loop", "try", "send", "overflow", "drop", "store",
                "storeOver", "countUp", "sent", "produce", "finish",
                "poll", "pollDone", "pollSize", "pollCounters", "read",
                "take", "leave", "countDown", "deliver", "ended"}]
  /\ watchdog \in {"watch", "clock", "ended"}
  /\ main \in {"join", "joinWatchdog", "reported"}

(* A run that is not reported as timed out is complete: every message was  *)
(* sent, nothing is left to read, and what is reported as lost is nothing  *)
(* in a bounded queue and the number of drops in one that replaces.  No    *)
(* consumer leaves while a message may still come, although it looks at    *)
(* the end of the producers, at the size and at the counters at different  *)
(* moments, and the size lags.  That a drop is all a replacing queue can   *)
(* lose is not said: a message stored over without a drop, and a stale or  *)
(* blank slot read in its place, show in none of the benchmark's counters. *)
CompleteUnlessTimedOut ==
  main = "reported" /\ ~timedOut =>
    /\ produced = TotalMessages
    /\ held = 0 /\ size = 0
    /\ Lost = dropped
    /\ adapter = "bounded" => dropped = 0

(* Nothing is reported as lost without a cause: whenever the run is        *)
(* stopped, as many messages as are missing are still to be read or were   *)
(* dropped.                                                                *)
LossNotOverstated == main = "reported" => Lost <= held + dropped

(* The scenario ends, whatever queue it drives and although the deadline   *)
(* need never pass; and when it passes, everyone stops.                    *)
ScenarioEnds == <>(main = "reported")
=============================================================================
