# Formal model of the message queues

TLA+ models of the queue library under `lib/`, the TLC configurations that check
them, and theorems about them that TLAPS proves. `PROJECT.json` is the index: for
every definition the source lines it stands for, for every run what it checks, for
every property a change to the code that it catches.

Notation: `src/lib/` is written `lib/`. The documentation of the library is
`src/ADR.md`.

## 1. The system

| Component | State | Operations | What makes it correct |
|---|---|---|---|
| `IMessageQueue` (`lib/message_queue_interface.hpp`) | a `thread_local` map from queue address to role | `Send`, `TrySend`, `Read`, `TryRead`: account the role, ask the queue whether blocking could be a self-deadlock, then prework, store or pop, postwork | a thread never blocks for a change only it could make; under `kOnThreadRoleChange` it keeps one role; exceptions leave the queue usable |
| `DequeBoundedMessageQueue` | `buffer_`, `free_`, `used_`, `closed_`, one mutex, two condition variables | the hooks of the pipeline, `Close`, `Size`, `Empty` | bounded FIFO; no lost wakeup; no leaked slot when a constructor throws; `Close` wakes everyone |
| `CircularQueueSync` (`lib/circular/impl/`) | `free_space_`, `occupied_space_` semaphores, `send_mutex_` or `read_mutex_`, two slot sequences | acquire, try-acquire, commit, cancel, one class per thread category | credits are conserved; two threads never work on one slot; nobody waits for a credit while holding what its owner needs |
| `ICircularMessageQueue`, `CircularBoundedMessageQueue` | ring, `head_atomic_`, tail, `count_`, guards in `thread_local` maps | store at the tail, move from the head, count, `Close` | bounded FIFO; a read returns what was sent; `count_` right when nothing is under way |
| `CircularDropOldestMessageQueue` | the same ring, `overwrite_mode_` | a send never waits for space: it drops the oldest message | at most one message lost per overwriting send, and it is the oldest; counter and semaphore agree with the ring; a send does not wait for readers |
| `PriorityMessageQueue` (`lib/min-heap_queue.hpp`) | heap, sequence counter, mutex, two condition variables, an atomic size | the pipeline hooks, `Close` | a read takes the minimum, equal priorities in FIFO order; no lost wakeup until a store or a pop has thrown |
| `MichaelScottQueue` (`lib/michael_scott_queue.hpp`) | linked nodes, head, tail, atomic size, a mutex used only for waiting | lock-free store and pop, `TryEnqueue`, `TryDequeue`, the blocking layer over them, `Close` | linearizable FIFO; the size is off by no more than the calls under way; a thread gets out of its loop whatever the others do |
| Benchmark harness (`bin/`) | counters, stop flags | producers and polling consumers run until all messages are accounted for, or the deadline passes | the scenario ends, and what it reports as produced and lost is true |

**How they interact.** Every queue derives from `IMessageQueue`; a call runs the
base class's template method, which calls the derived class's virtual hooks. There
are no messages and no callbacks: the threads of the client share the queue's
memory. The roles, and the guards of the circular queues, are per thread and keyed
by the queue's address.

**What is hard.** All of it is interleaving. A deque operation is one critical
section spread over three virtual calls with a mutex released by hand; notifies come
after the unlock; the deadlock checks look at a state that may be stale when the
wait begins; exceptions can come out of the store and the pop. The circular queues
have no common lock at all: semaphores, a head moved by compare-and-swap and a
counter updated outside of every guard; with replacement, senders move the head as
well. The Michael-Scott queue tests its size, changes its list and counts in separate
steps, and notifies without the mutex its sleepers test under. `PROJECT.json`, `hazards`,
lists each place.

## 2. Modules

    IMessageQueue                    the pipeline: pc, role, op, msg, outcome per thread
     |-- MutexAndConditions          one mutex, two condition variables
     |    |-- DequeBoundedMessageQueue -- MCDeque
     |    |    '-- DequeBoundedMessageQueue_proofs
     |    |-- PriorityMessageQueue     -- MCPriority
     |    |    '-- PriorityMessageQueue_proofs
     |    '-- MichaelScottQueue        -- MCMichaelScott
     |         '-- MichaelScottQueue_proofs
     '-- CircularQueueSync           semaphores and guards of the four categories
          '-- CircularMessageQueue   the ring
               |-- CircularBoundedMessageQueue    -- MCCircularBounded
               |    '-- CircularBoundedMessageQueue_proofs -- CircularFifo_proofs
               '-- CircularDropOldestMessageQueue -- MCCircularDropOldest
                    '-- CircularDropOldest_proofs
    BoundedFifo                      what a bounded queue promises (abstract)
     |-- BoundedPriorityQueue        the same with priorities
     |-- DropOldestFifo              the same with replacement
     '-- LooseFifo                   the same where test, store and count are apart
    BenchmarkScenario -- MCBenchmarkScenario      the client in bin/
     '-- BenchmarkScenario_proofs
    Covering                         the counting argument of the three wakeup proofs

**IMessageQueue.** A thread is a program counter. `CallSend`, `CallRead`,
`CallClose` start a call and do `AccountThreads`; `AfterCheck` is the reaction of the
four preworks to the deadlock check; `Return` hands the result to the client. `msg[t]`
is the argument until it is stored, and the result from when it is popped, so that a
message lost in between is visible. `outcome[t]` is decided at the step where the
call can no longer end otherwise. Who may call what is the client's contract
(`Producers`, `Consumers`, `Closers`, `CategoryContract`). The module has no `Next`: a
queue extends it.

**DequeBoundedMessageQueue.** One action per hook. A hook that leaves the mutex
locked (`SyncAndOverflowPrework` after `lock.release()`) sets `mutex = t`; one that
locks and unlocks within itself (the deadlock checks, `Close`, a `Try` call that
fails) is a single step while the mutex is free. `wait` is a loop: a
thread that finds its predicate false goes to `waitFull` or `waitEmpty` with the mutex
released, and is sent back to `sync`, where it competes for the mutex and tests
again. `notify_one` picks any one sleeper; it is a step of its own after the unlock.
`StoreMessageThrows`, `PopMessageThrows` and `TryReadCopyThrows` are the
exception paths, enabled by `Throws`. `SpuriousWakeup` is what the standard allows
`wait` to do.

**PriorityMessageQueue.** The same hooks over a heap. `heap` lists the messages by
sequence number, so the comparator needs only indices and the counter `current_seq_` (which
cannot wrap in practice) disappears; `isHeap` says whether `heap_` has the heap property.
When the move out of `heap_.back()` throws, `pop_heap` has already put the minimum
there: `isHeap` becomes FALSE, and what later `pop_heap` calls return is undefined, so the
model lets any node come out until at most one is left. The catch blocks only
unlock. `thrown` is a history variable.

**CircularQueueSync.** The four guards differ in which primitives they run in which
order, so each category is a table: the sequence of semaphore, mutex and sequence
operations of every acquire, and those of the destructor after a commit and after
a cancel. `todo[t]` is the rest of the sequence a thread is in; each primitive is an
action, so every interleaving between two of them is explored.

**CircularMessageQueue, CircularBoundedMessageQueue.** The ring and the bounded
overflow behaviour. `ReadHead` is three kinds of step because the code loads the head,
moves the message out, and then advances the head: `LoadHead`, `MoveHead`, and
`AdvanceHead`, the compare-and-swap whose failure moves again. A read without a reserved slot takes
effect when the head advances; `InHand` and `Content` count a message that is moved out and not yet
advanced past as still in the ring. `CountUp` is a step after the guard has published
the message, `CountDown` one before the guard gives the slot back, as in the code.
With `Throws`, the assignment in `WriteTail(ValueType&&)` or `ReadHead` may throw (the store of a
`const ValueType&` is `noexcept`: it ends the program). Nothing catches it, so the guard stays in the
thread's map: `kept`. The thread's next operation puts its own guard there (`Emplace`), and the destructor
of the old one commits.

**CircularDropOldestMessageQueue.** A send takes a free slot if there is one
(`TakeFreeIfAny`) and goes on either way; then it asks the counter, and if that says full,
tries to advance the head (`AdvanceHeadForOverwriteDrop`: load, test, compare-and-swap, count).
After a drop the guard's destructor does not notify (`OverwriteSync.overwritten`). A reader
asks `overwrite_mode_` before its first semaphore. Nothing in the code keeps a sender away
from the slot a reader is at work on, and the counter that decides whether to drop lags. `Breaks` lists the steps
after which the ring holds no queue any more; the model records that one has happened (`broken`) and stops there (section 5).
What confines them is a second history variable: `alone` is the call that has overlapped no other since it began,
and the properties say that no such call ever breaks the ring or drops from a queue that is not full. `passed` holds the
readers whose loaded head has been dropped; it decides whether a message moved out by a reader is still the ring's.

**MichaelScottQueue.** Every atomic load, store and compare-and-swap of `StoreInternal`,
`TryStoreInternal` and `TryPopOnce` is a step, with the local variables
`first`, `last` and `succ` (their `next`). A node's address is its place in the order of linking (the dummy node is 0):
addresses are unique because `retired_nodes_` keeps every node until the destructor runs.
A prework holds `mtx_` from its test until it sleeps (`Block`), and nobody else ever takes
it, so a notify can fall between the two. `TryEnqueue` and `TryDequeue` bypass the
pipeline and have a bounded number of attempts. `newest` and `missed` are history variables.

**BenchmarkScenario.** `RunScenario` as a client of a circular queue, bounded or replacing, of which the credits
and the counter are modelled, and not the slots: `held` is `occupied_space_`, `size` is `count_`. A send enters, looks at the
counter, drops or gives up, stores, and counts, in steps of their own (`ResolveSendOverflow`,
`AdvanceHeadForOverwriteDrop`, `StoreMessage`, `CountUp`); a read enters, takes a credit, counts down or finds nothing counted and puts
the credit back, and delivers. So the replacing queue drops on a count that lags, below its capacity too, or stores without a drop into a full ring.
`TrySendFails` and `TryRead` also refuse a call that meets another one inside, as a `try_lock` does. Each poll
of a flag or a counter is a step; the four loads of `ConsumerShouldStop` are four steps.

**BoundedFifo.** The abstract specification. A call is invoked, takes effect once, and
returns. A refusal (`false`, closed, deadlock) must be true at the instant it takes
effect. With `Exact = FALSE` a `Try` call or a deadlock exception may also be wrong
while another call is under way; this is what the circular queue, whose `count_` lags,
can promise. `BoundedPriorityQueue` replaces the read by one that takes the oldest
message of the smallest priority. `DropOldestFifo` adds one drop, of the oldest
message, to a send that then stores its own: from a full queue, unless the call overlaps another one. `LooseFifo` allows senders that were let in
together to exceed the capacity by one each but the first, a store after `Close`, and calls with bounded
attempts that lose their race. The map from the detailed queues is the identity on `op`
and `outcome`; `queue` is the deque's `buffer`, the ring's slots from the head on, or the nodes linked
after the dummy.

## 3. Runs

| Run | Instance | What it shows |
|---|---|---|
| `deque_mpmc` | 2 senders, 2 readers, all of whom may close, 2 distinct messages, 2 slots, stores and pops that throw, spurious wakeups | types, the manual locking (`MutexDiscipline`), the two counters (`SlotAccounting`), no lost wakeup, the FIFO refinement, order included |
| `deque_live` | 2 senders, 2 readers, one thread tries to be both, `kOnThreadRoleChange`, 1 slot; stores, pops and copies that throw; fair | sleepers are not stranded, `Close` wakes all; a thread that was once at the queue in one role never gets there in the other, and a rejected call does not spoil the ones of its own role |
| `deque_mpsc_deadlock` | the sole reader also sends, MPSC | **violated**: see findings |
| `priority_spmc` | 1 sender that also reads, 2 readers, one closes; urgent and plain messages; throwing stores and pops | locking; no lost wakeup before the first exception; the abstract priority queue, whose order is off only after a failed read |
| `circular_mpsc` | 2 senders under `send_mutex_`, 1 reader without a lock, fair | types, credits, counter, no data race on a slot, no blank read, FIFO; `send_mutex_` is freed again and again; TLC also finds no deadlock |
| `circular_spmc` | 2 readers under `read_mutex_`, one waiting while it holds it | FIFO order with `try_lock` in play |
| `circular_mpmc` | 2 senders, one of which also reads, one closes; 2 slots, reserved by number; stores and pops that throw | credits, those of guards left behind included; the FIFO does not hold here, see findings |
| `drop_oldest` | MPMC: a sender that waits for `overwrite_mutex_`, one that tries, a reader; 2 slots; senders fair | calls that overlap no other drop from a full queue only and never break the ring; until overlapping ones do, a FIFO that loses only its oldest message, to the send that replaces it, counter and semaphore exact whenever nobody is inside; sends get through although the reader may stop anywhere |
| `drop_oldest_not_full` | the same | **violated**: see findings |
| `michael_scott` | a sender, a reader that closes, and a thread `b` that does both; capacity 1; at most 3 messages; only `b` fair | shape of the list, size, overshoot, wakeups, FIFO, lock-freedom |
| `benchmark_scenario` | 2 producers, 2 consumers, 4 messages, 2 slots, bounded and replacing; the deadline passes at any time or never; fair | the scenario ends; unless stopped, everything was sent, nothing is left to read, and what is reported as lost is the number of drops; never more is reported lost than was dropped or is still there |
| `circular_mpmc_blank` | 2 senders, 1 reader, 2 slots | **violated**: see findings |

There is no run for the SPSC circular queue: its sender is the one of SPMC, its reader
the one of MPSC, and both are checked against more threads.

**Bounds.** Two threads per side is the smallest number at which a woken sleeper can
lose its slot to another thread of its side, at which a notify can reach the wrong one of two
sleepers, and at which two guards of one side overlap; the proofs cover any
number. `Capacity` 1 makes full and empty adjacent and every
operation contended; 2 shows order, a wrap of the ring, and a queue that is neither full
nor empty (where `notify_one` after each read matters). One message value is enough
for counters and wakeups; the runs about order have two. `CountModulus`
16 stands for 2^64: the model needs it only to be larger than any number of messages
plus threads, so that a count below zero is told from a count above the capacity.
Calls are repeated without limit; nothing else is bounded in the deque, priority and bounded
circular models.

`circular_mpmc` has two slots because with one a credit that is kept blocks its own thread, and the guard is never replaced. With
`a` and `b` both sending, reading and closing (4.5 million states), and with two senders, two readers and one slot, its property holds as well.

`drop_oldest` has one call per thread kind, because what matters is how the steps of two senders
and a reader fall. Two slots is the smallest ring in which head and tail can be apart without being
empty or full; `DropAttempts` 2 (64 in the code) lets a drop lose the head once, try again, and give
up. The same properties were found to hold with SPSC rings of two and three slots, MPMC rings of one and three,
and with a reader that also uses `TryRead`. No thread calls `Close` in `drop_oldest`: it is the
`Close` of `circular_mpmc`, and ends every access in the same way.
`drop_oldest_not_full` has the same constants: the counter that wraps needs two senders and a reader.
`michael_scott` stores at most three messages (`MaxSends`), which is what its nodes
are numbered by: a third node is linked while two others lag or are retired. `MaxAttempts` 2 (64
in the code) lets an attempt fail and the next one succeed or be the last. `SizeModulus` is as `CountModulus`. Larger
sets of calls, up to three million states, show the same. `benchmark_scenario` gives each producer two messages and fills the queue, so that a
producer waits, is stopped while it waits, and finishes before or after the other.

Symmetry is used in runs with safety properties only.

**Deadlock.** TLC's deadlock check is on except in three runs. `benchmark_scenario` ends. In `circular_mpmc` threads can wait
for ever, for a credit that a guard left behind keeps, or because `Close` releases no semaphore (section 5). In
`michael_scott` all threads can be asleep: that is a client that only waits, or one of the lost wakeups of section 5.
Two models stop by design: after `Close` the circular queue's vector is empty and every access to it is
out of bounds, so the thread stops there; and a broken drop-oldest ring
stutters (`Stopped`), so that a deadlock before the break would still be found.

**Fairness.** `WF_vars(Run(t))` for each thread: the scheduler eventually runs a thread that
stays able to run. A thread that waits for a mutex which is again and again taken
is not promised to get it (`std::mutex` is not fair), clients need not call anything, and
spurious wakeups are not relied on. With two slots this is not enough for
`SendersWake`: a woken sender can be starved at the mutex by a reader whose moves throw
for ever while a second slot stays free and a second sender asleep. Nothing is lost
there (`NoLostWakeup` holds), it is starvation; `deque_live` therefore has one slot.
`SendsGetThrough` assumes fairness of the senders only, and of them as a group: if any of them can take a step,
some sender eventually does, so it is also lock-freedom. `StoreLoopEnds` and
`PopLoopEnds` assume it of the one thread they speak about: the others may stop for good at any step, which is
what lock-freedom is about. `benchmark_scenario` assumes that the operating system runs all threads,
and never that the clock reaches the deadline.

## 4. Proofs

Every theorem holds for every finite set of threads, any messages and any capacity above zero,
and uses nothing but the named ASSUMEs of the modules. Hypotheses beyond those are written in the theorem
and explained here. `PROJECT.json`, `theorems`, lists all of them.

All have the same layout: an inductive invariant, a lemma with one step per action, and a theorem
that adds `PTL`. TLC finds every inductive invariant true in the instances of
the component's runs. What differs is what has to be counted, and why the property is not inductive alone.

### Deque queue (`DequeBoundedMessageQueue_proofs`)

Any category, policy and set of throwing operations, with and without spurious wakeups.

- **TypeCorrect**, **MutexCorrect** (`MutexDiscipline`), **AccountingCorrect** (`SlotAccounting`). `free <= Capacity` after a
  read needs the accounting; the accounting needs that only the mutex owner is in the
  critical section; what a thread at `pop` may do needs the shape of its call. So
  `Inv == TypeOK /\ MutexDiscipline /\ SlotAccounting /\ CallInv`, where `CallInv` relates
  `pc`, `op`, `msg` and `outcome` of a thread.
- **Refinement** of `BoundedFifo`, if `"copy" \notin Throws`. A send takes effect at
  `StoreMessage`, a read at `PopMessage`, a refusal at the step that decides it. The only extra fact is
  `OpenWhileStoring`: while a thread is about to store, the queue is not closed, because `Close` needs
  the mutex. With a throwing copy the theorem is false (section 5).
- **RolesKeptApart** (`RolesNeverMix`). `RoleKept` adds the threads that sleep, because they come back to the mutex without
  another look at the roles. A call that is refused changes no role, and ends. So a role once taken is taken for good, and the theorem,
  which is about two moments of a behaviour, follows by `PTL` from the step that says so and from what `RoleKept` says of each moment.
- **DeadlockDetected** (`NoUndetectedDeadlock`), if there is one producer and one consumer. `BothRoles`: a thread
  of both roles that is past the check finds room, or a message, when it gets to its prework. Nobody
  else can take it away, because there is nobody else on its side. That is what the hypothesis is for, and
  `deque_mpsc_deadlock` shows that it cannot be dropped. No run checks the property with the hypothesis: the theorem does.
- **WakeupCorrect** (`NoLostWakeup`). A counting argument, in `Covering`: while anybody sleeps, `free` is `Covered`
  by the senders that will notify or compete. Each action that raises `free` adds
  one such thread, each that removes one lowers `free`, wakes a sleeper (who takes its place) or finds none asleep.

### Priority queue (`PriorityMessageQueue_proofs`)

- **TypeCorrect**, **MutexCorrect**. As above; `RoomInv` says that a thread at `store` has found room and the heap
  has not grown since, and one at `pop` that there is a message.
- **Refinement** of `BoundedPriorityQueue`: the oldest message of the smallest priority, until a throwing move has
  disturbed the heap.
- **WakeupCorrect**: the lemmas of `Covering` again, over the free slots of the heap and its length. `NoLostWakeup` has
  the hypothesis `~thrown` itself, since a throwing constructor does lose wakeups.

### Michael-Scott queue (`MichaelScottQueue_proofs`)

Whether or not `compare_exchange_weak` fails spuriously, and for all bounds on attempts and sends.

- **TypeCorrect**, **ListCorrect** (`ListWellFormed`). `PointerInv` says for each label what the thread's copies of
  `head`, `tail` and `next` are worth by then: they are bounded by the present ones, because head and tail only
  move forward, and a `next` that was read as a node is that node for ever. `ValueInv`: the
  nodes after the dummy hold messages. `NodesLeft` accounts for `MaxSends`. `StepKinds` then sorts the
  actions by what they do to the list: most do nothing to it (`Quiet`), the others link, swing or unlink.
- **SizeCorrect** (`SizeAccounting`), **OvershootCorrect** (`CapacityOvershoot`). `SizeInv`: `size` is the length of the list,
  less the threads that linked and have not counted, plus those that removed and have not counted; below zero it is that plus
  the modulus. `OvershootInv` strengthens the bound: senders past the test count as if they
  had stored, and readers not yet counted down as if they had not taken. All of them are
  threads that `size` once let in, and linking then changes neither side.
- **Refinement** of `LooseFifo`. A read takes effect when its compare-and-swap moves the head, a send when it
  links. `InHand` is the message a reader between the two has still to move out. A refusal is true when the thread
  is alone (`ExactWhenAlone`: then the counter is the length), and otherwise `Misled`, which `LooseFifo` allows.
- **WakeupCorrect** (`NoLostWakeup`). `Covering` once more, over the threads that are about to sleep or asleep. `WakeInv` is about both,
  since a thread between its test and its sleep is where a notify is missed (`missed`). The counter
  enters as `FreeRoom` and `Readable`, which are zero while it is below zero.

### Circular queues (`CircularBoundedMessageQueue_proofs`, `CircularFifo_proofs`)

The first module is about all four categories, and about any programs that are `Sound`: at most one
primitive moves a credit, and a `try_lock` comes just before the acquire. Nothing else about the
categories' tables is used.

- **CreditsCorrect** (`CreditsConserved`), **TypeCorrect**. `Held` is the set of credits in threads' hands, tagged with where: in an
  operation, in a release still to be done, or in a guard left behind by an exception. Each step leaves
  `free + occupied + Cardinality(Held)` as it was: one credit goes from a semaphore into
  the set, or back, or changes its tag.
- **CountCorrect** (`CountAgreesWhenIdle`), if `Throws = {}`. `CountInv`: `count_` is `occupied_space_`, less the senders that have
  published and not counted, plus the readers with the credit of a message that is still counted (modulo its width). An
  exception leaves a guard behind that commits later without counting, so the hypothesis is needed.

`CircularFifo_proofs` has the hypothesis

    InOrder == Category # "MPMC" /\ Throws = {} /\ ~CasMayFail /\ Closers = {}

which the instances `circular_mpsc` and `circular_spmc` satisfy. Each conjunct excludes something
that breaks the theorems: MPMC returns slots nobody wrote (`circular_mpmc_blank`); exceptions and
spurious failures of the compare-and-swap violate `NoDataRace` and `NoBlankRead` (section 5); and
`Close` empties the vector while others use it.

- **NoDataRaceCorrect**, **NoBlankReadCorrect**. `FlowInv` says where a thread is in its program, and that past its lock it owns the mutex: so
  each side has one thread at the ring at most, and the tail and the head are each moved by one
  thread at a time. `RingInv` says that the messages are the `Stored` slots from the head on, without a gap, and that a
  reader's loaded head is the head. `Stored` is `occupied` plus the
  credits in the hands of readers and of senders that have yet to publish; it lies between 0 and
  `Capacity` because those credits are in `Held`. A sender that holds a free credit therefore has `Stored < Capacity`, and the slot at the tail is
  neither the reader's nor full.
- **Refinement** of `BoundedFifo`. A send takes effect at the store, a read when the head
  advances; `RingInv` turns the first into an append and the second into a tail of the sequence of slots. A refusal is
  true if nobody else is in a call (`SemaphoresWhenAlone`, `CountWhenAlone`: then semaphores and counter are the
  length), and otherwise the inexact one that `Exact = FALSE` allows.

### Drop-oldest queue (`CircularDropOldest_proofs`)

For all four categories and every number of drop attempts. There is no lock between senders and readers, so the
proof has two layers.

`BaseInv` always holds: where a thread is in its call, what of its program is left, that the mutex
belongs to the thread past its lock, and that `passed` holds readers that have a loaded head. Senders exclude each
other, by `overwrite_mutex_` or by being the only one, so one thread at most is between `overflow` and its store.

`RingInv` holds until overlapping calls break the ring or the queue is closed. `Stored` is `occupied`, plus the credits in the hands
of readers and of senders that have yet to publish, less one for a sender between its drop and its store (`Making`).
`Contiguous`: the slots from the head up to the tail are `Stored` many, and each has a message, except
that the one at the head may be on its way out. `Readers`: a reader about to move a message out is still at the head, or has been overtaken
(`passed`), and then its slot is outside the `Stored` ones; one reader at most has the head's message in hand.
`count_` is `Stored`, plus the takes and drops not yet counted down, less the stores not yet counted up, modulo its width.
`RingEffect` sorts the actions into six kinds (`Quiet`, `Loads`, `MovesOut`, `Stores`, `Discards`, `Takes`), and what follows is
argued by kind. `~Breaks(t)` is what makes each preserve the invariant: without it, a `Stores` would overwrite an unread message or the
slot of a reader, and a `Takes` would advance a head that has come round.

- **TypeCorrect**, from `BaseInv` alone: also after a break or a `Close`.
- **SizeCorrect** (`SizeExactWhenIdle`), without a hypothesis. When nobody is at work, the three corrections to `Stored` and
  to `count_` are all zero, and the ring's size is `Stored`.
- **Refinement** of `DropOldestFifo`, if `~CasMayFail` and `Closers = {}`. `Whole` strengthens `Contiguous`: the message at the head is there too, in its slot or
  in the hand of the one reader that can still take it. A send takes effect at the store, after a drop that takes effect when its
  compare-and-swap moves the head; a read when it advances the head. A refusal is true if nobody else is in a call (`WhenAlone`).
  That a call in `alone` drops from a full queue only and never breaks the ring is `AloneInv`: what it has read is still so, although
  earlier calls may have left credits in the ring. It rests on `ModeInv`, that no reader holds a reserved slot unless it came before the
  first send. Both
  hypotheses are needed: with `CasMayFail`, TLC finds a counterexample in the instance of `drop_oldest`, where a reader whose
  exchange fails by itself goes back to move from the slot it has emptied; and a `Close` empties the ring, which no step of `DropOldestFifo` does.

### Benchmark (`BenchmarkScenario_proofs`)

- **TypeCorrect**, **CompleteCorrect** (`CompleteUnlessTimedOut`), **LossCorrect** (`LossNotOverstated`), for all numbers of producers,
  consumers and messages, and both adapters. The sum of what the producers have left would need
  induction; instead the messages are numbered, and producer `x % N` owes message `x`: `ToSend` is a set, and each
  message a producer is done with removes one number from it. `LeftInv` adds the set and `produced` up to
  `TotalMessages`. `Balance` is the account of the queue: what it has accepted is held, dropped, delivered or in a consumer's hand, and,
  until a stop, also counted as produced or about to be. A producer between its drop and its store counts as accepted already
  (`Placed`), one that has not got so far as `Trying`; `size` differs from `held` by those that have stored and not counted and those that
  have taken and not counted. `ProducerAccount` and `ConsumerAccount` say once for each side what a step does to these numbers.
  `StopInv`, `EndInv` and `MainInv` say what holds once a stop is asked for, once a thread has ended, and once the workers are joined;
  `BoundedInv`, that a bounded queue never drops. A consumer that puts its credit back after the end would make `held` grow again:
  `StaysEmpty` shows that it cannot, because its message is still in the size.

### Only model-checked

- All liveness (`SendersWake`, `ReadersWake`, `CloseWakesAll`, `SendMutexIsReleased`, `SendsGetThrough`, `StoreLoopEnds`, `PopLoopEnds`,
  `ScenarioEnds`): the installed prover has no rule for fairness.
- What the hypotheses exclude: a deque whose message copies throw, circular queues after a `Close` or with an exchange
  that fails by itself, and the drop-oldest queue after a break.

## 5. Findings

1. **MPSC deadlock goes undetected** (`deque_mpsc_deadlock`). The check and the wait of
   `Send` are two critical sections. Between them another producer takes the last
   slot, and the only reader goes to sleep in `Send` although the policy is `kOnDeadlock`.
2. **The MPMC ring returns a slot nobody wrote** (`circular_mpmc_blank`). Slots are reserved in
   one order and credits released in another. Sender 1 reserves slot 0, sender 2 reserves
   slot 1 and commits; the reader's credit leads it to slot 0.

3. **Drop-oldest drops from a queue that is not full** (`drop_oldest_not_full`). Whether it is full is asked of `count_`, which is raised after
   a message is published, lowered before its slot is given back, and looked at some steps before the drop. Sender `a` has published and
   not counted; the reader takes its message and counts down below zero, which in an unsigned counter looks full; sender `b` drops from the
   empty ring, and no reader is notified of the message it stores. `src/ADR.md:373` and `421`: it is when the queue is full that the
   oldest message goes.

What follows the models show too, without a run of its own: each is the reason for a hypothesis or an
exception in a property that does hold.

**All queues.** `TryRead` returns `{message}`, a copy of a message it has already popped
(`lib/message_queue_interface.hpp:216`); when the copy throws, the message is lost, whatever `src/ADR.md:272`
says. `Read` moves it. This is why the deque's theorem `Refinement` excludes `"copy"`.

**Priority queue.** An exception in the move out of the heap breaks both the order (`isHeap`) and the
wakeups (`NoLostWakeup` fails without its hypothesis `~thrown`): `src/ADR.md:505` promises the minimum always.

**Circular queues.**
- `Close` releases no semaphore, so it wakes nobody, whatever `src/ADR.md:50` says.
- `StoreMessage` publishes a message before it adds to `count_`, so a fast reader takes the
  counter below zero and `Size()` returns 2^64 - 1 for a moment.
- An assignment that throws leaves its guard behind, and that guard *commits*, when the thread next sends or
  reads. After a store that threw, `occupied_space_` is then released for a slot nobody wrote. After a read that threw, a free slot is given
  back although the head has not moved: with `Throws = {"pop"}`, `circular_mpsc` violates `NoDataRace`, a
  sender stores into the slot the reader is at. Until that next call the credit is out of use, and a blocking call may
  wait for the one its own thread keeps. The credits still add up (`CreditsConserved`). Where the guard has locked
  a mutex it stays locked too, and the thread's next operation locks a mutex it owns: undefined, so
  throwing is run where no mutex is held across the assignment, in MPMC.
- With `CasMayFail = TRUE`, which the C++ standard permits for `compare_exchange_weak` and LL/SC
  processors do, `circular_mpsc` violates `NoBlankRead`: `ReadHead` moves from the slot a second time.

**Drop-oldest queue.** Every disjunct of `Breaks` can happen (the last needs two readers, the others
occur in the run), and each takes calls that overlap, as `ImplementsDropOldest` says:
- a sender that dropped the head stores into the slot a reader has loaded and not yet moved
  from, or has moved from; and after one round of the ring the reader's compare-and-swap succeeds on a head that
  has come round (ABA);
- between a drop and its store there is one message less than the semaphore says (the drop takes no
  credit from `occupied_space_`; `ConsumeOccupiedForOverwriteDrop` is called nowhere), so a reader let in by it reads a
  stale or a blank slot;
- `count_` lags. One behind, it lets a sender store over an unread message. Below zero it looks full, and a sender
  drops from an empty queue, and then stores a message of which no reader is notified;
- in MPMC a reader that came before the first send reads a reserved slot and never advances the
  head; and two readers can be at the same head, without any drop.

Drops that were not needed happen without a break, too: the test may be old by the time of the
compare-and-swap, and a reader that has moved the head has not counted down yet. `DropOldestFifo` allows them to calls that overlap another. After a break
credits drift: in the instance of the run `free + occupied` stays within `Capacity` to `Capacity + 2` before one, and not after.
The queue inherits the deadlock check of the bounded queue, so under `kOnDeadlock` a thread on both sides is refused on
a full queue although a send would not have waited.

**Michael-Scott queue.**
- *Lost wakeups.* Neither `SendPostwork` nor `ReadPostwork` nor `Close` takes `mtx_`. A notify that falls between a
  sleeper's test and its sleep is lost, `Close`'s `notify_all` included: `src/ADR.md:50` says that `Close`
  unblocks all threads. And a size that is below zero (a reader counts down before the
  sender has counted up) looks full; when it comes back nobody notifies the sender that went to
  sleep on it. `NoLostWakeup` says that there is no third way.
- *Capacity.* Senders that pass the test together exceed the capacity, by one each but the first. A
  sender that passed it before `Close` stores after it, and a `Read` can throw
  "Empty and Closed" while such a message is linked and not yet counted.
- *Spinning.* `Read` and `TryRead` that the size promised a message spin in `PopMessage` when another
  reader took it, until the next send. `PopLoopEnds` says that it is only then.
- `TryEnqueue` that runs out of attempts destroys the message it was given, also when it was given by move.
- Retired nodes are freed by the destructor only (`src/ADR.md:609`): memory grows with the messages ever sent.

**Benchmark.** The watchdog may raise `stop_requested` after the last worker has finished: a complete run is
then reported as timed out. A producer that is stopped right after an accepted `TrySend` does not
count it, so `delivered` may exceed `produced` and `lost` is clamped to 0: `lost` may be too
small, and `LossNotOverstated` says that it is never too large.

## 6. What is left out, and limits

- `try_acquire` and `try_lock` do not fail spuriously in the model. The standard allows it; the refusal it adds
  is the one `Misled` already allows under contention.
- `write_seq_` and `read_seq_` are kept modulo the capacity; this is what the code computes until
  the sequence wraps at 2^64, or for ever if the capacity divides that.
- Memory order: every step is sequentially consistent. The deque is locked, so this is no
  loss there. For the circular queues, `NoDataRace` shows conflicting accesses of a slot are
  ordered by steps, and the semaphores order them in memory as well.
- Drop-oldest queue: values whose assignments do not throw. The bounded ring has them, except under a guard that
  holds a mutex (section 5).
- Drop-oldest queue: nothing is said about a ring that overlapping calls have broken (section 5). `circular_mpsc` and the like
  have no such limit.
- Michael-Scott queue: `compare_exchange_weak` does not fail spuriously in the run (`CasMayFail`; it
  costs one more attempt). Values and allocations that throw are not modelled: `TryEnqueue` is `noexcept`.
- Priority queue: exceptions inside `push_heap` and `pop_heap` (a comparator or an assignment that throws) leave nodes
  half moved and are not modelled. The throwing copy in `TryRead` is modelled for the deque queue only; it is the same line.
- Role and guard maps across the destruction of a queue and reuse of its address are not modelled.
- Benchmark: the queue is the credits and the counter of a circular queue. Its slots and head are not modelled, so a drop may give up at
  any time, and its count is lowered in the step that moves the head. `CompleteUnlessTimedOut` is therefore about what the benchmark
  counts: a message stored over without a drop, and the stale or blank slot some reader gets in its place, leave `produced`, `delivered`
  and `lost` as if nothing had happened, and `lost` can be 0 with a message gone. Any number of readers may be inside, as in MPMC; a bounded queue holds at most its
  capacity (the overshoot of the Michael-Scott queue is left out). Backoff, latency samples, fairness ratios and environment
  variables have no behaviour to check.
- `Size` and `Empty` change nothing and are not actions.

Not modelled at all: the benchmark scripts (reports and process launching) and the tests, which are clients of the
library and were read for the behaviour they expect.

## 7. Plan

Done: the pipeline, all five queues, the guards of all categories, the benchmark scenario; and every safety property
the runs check is a theorem. Next, the most important behaviour first:

1. `CircularFifo_proofs` and the refinement of the drop-oldest queue up to `Close`, instead of without a closer.
2. The bounded MPMC ring: what holds there in place of the FIFO.
3. Life cycle: roles and guards across destruction and address reuse.
