------------------------ MODULE CircularFifo_proofs ------------------------
(***************************************************************************)
(* The bounded circular queue is a bounded FIFO: for SPSC, MPSC and SPMC,  *)
(* every set of threads, every capacity, and values whose assignments do   *)
(* not throw.  Nothing guards a slot of the ring: what keeps two threads   *)
(* from one slot is that each side lets one thread at a time past its      *)
(* lock, and that the credits the two sides hold never overlap.            *)
(***************************************************************************)
EXTENDS CircularBoundedMessageQueue_proofs

(* The queues that keep the order of their messages, while nobody closes   *)
(* them, on hardware whose compare-and-swap fails only on a difference.    *)
InOrder == Category # "MPMC" /\ Throws = {} /\ ~CasMayFail /\ Closers = {}

(* The mutex of a category belongs to one side. *)
LockOps == IF Category = "MPSC" THEN SendOps
           ELSE IF Category = "SPMC" THEN ReadOps ELSE {}

Rest(program) == {program, Tail(program), <<>>}

AcquireLabels == {"tryFull", "store", "tryEmpty", "take"}

(* What may be left to do of the program of a call at a label. *)
Programs(o, label) ==
  IF label \in AcquireLabels THEN Rest(Sync[o])
  ELSE IF label = "countUp" THEN Rest(Sync.sent)
  ELSE IF label = "return" /\ o \in SendOps THEN Rest(Sync.cancelSend)
  ELSE IF label = "return" /\ o \in ReadOps THEN Rest(Sync.read) \cup Rest(Sync.cancelRead)
  ELSE {<<>>}

Locks == {"mutex.lock", "mutex.try_lock"}
Awaits(p) == Items(p) \cap Locks # {}       \* has yet to lock
Owes(p) == "mutex.unlock" \in Items(p)      \* has yet to unlock

(* Past its lock: what is left of the call no other of its side shares. *)
Locked(t) == (pc[t] \in Working /\ ~Awaits(todo[t])) \/ Owes(todo[t])

(* A call by the label it is at. *)
Undecided == {"check", "sync", "tryFull", "store", "tryEmpty", "take", "move", "advance"}

FlowInv(t) ==
  /\ todo[t] \in Programs(op[t], pc[t])
  /\ op[t] \in SendOps => t \in Producers
  /\ op[t] \in ReadOps => t \in Consumers
  /\ op[t] # "Close" /\ pc[t] # "close"
  /\ op[t] = "none" <=> pc[t] = "idle"
  /\ pc[t] \notin {"move", "advance", "countDown", "return"} => index[t] = NoSlot
  /\ outcome[t] = "none" <=> pc[t] \in Undecided \cup {"idle"}
  /\ op[t] \in SendOps /\ outcome[t] = "none" => msg[t] \in Messages
  /\ op[t] \in ReadOps =>
       (msg[t] # NoMessage <=> pc[t] = "advance" \/ outcome[t] = "returned")
  /\ op[t] \in LockOps /\ Locked(t) => mutex = t

(* Who works on the ring. *)
Writes(t) == pc[t] \in {"tryFull", "store"} /\ Ready(t)
Reads(t) ==
  \/ pc[t] \in {"tryEmpty", "take"} /\ Ready(t)
  \/ pc[t] \in {"move", "advance", "countDown"}

(* The credits that stand for a message in the ring. *)
InRing(t) ==
  \/ "occupied.release" \in Pending(t)
  \/ op[t] \in ReadOps /\ AtWork(t) /\ pc[t] # "countDown"
RingCredits == {t \in Threads : InRing(t)}
Stored == occupied + Cardinality(RingCredits)

(* How far a slot is from the head. *)
Far(i, h) == IF i < h THEN i - h + Capacity ELSE i - h
Dist(i) == Far(i, head)

RingInv ==
  /\ ~cleared
  /\ IF Stored = Capacity THEN tail = head ELSE Dist(tail) = Stored
  /\ \A i \in Slots : Cell(i) # NoMessage <=> Dist(i) < Stored
  /\ \A t \in Threads : pc[t] \in {"move", "advance"} => index[t] = head
  /\ \A t \in Threads : pc[t] = "advance" => buffer[head] = NoMessage

FifoInv == (\A t \in Threads : FlowInv(t)) /\ RingInv
-----------------------------------------------------------------------------
(* The programs, one by one. *)
LEMMA ShortPrograms ==
  /\ \A a : /\ Tail(<<a>>) = <<>> /\ Head(<<a>>) = a
            /\ Rest(<<a>>) = {<<a>>, <<>>}
  /\ \A a, b : /\ Tail(<<a, b>>) = <<b>> /\ Head(<<a, b>>) = a
               /\ Rest(<<a, b>>) = {<<a, b>>, <<b>>, <<>>}
  /\ Items(<<>>) = {}
<1>1. \A a : Tail(<<a>>) = <<>> /\ Head(<<a>>) = a
  OBVIOUS
<1>2. \A a, b : Tail(<<a, b>>) = <<b>> /\ Head(<<a, b>>) = a
  OBVIOUS
<1>3. QED
  BY <1>1, <1>2 DEF Rest, Items

LEMMA EmptyProgram == \A o, label : <<>> \in Programs(o, label)
  BY DEF Programs, Rest

(* A program of one or two primitives. *)
Short(p) == (\E a : p = <<a>>) \/ (\E a, b : p = <<a, b>>)

LEMMA RestStep ==
  ASSUME NEW p, Short(p), NEW q \in Rest(p), q # <<>>
  PROVE  Tail(q) \in Rest(p)
<1>1. ASSUME NEW a, p = <<a>> PROVE Tail(q) \in Rest(p)
  <2>1. q = <<a>> /\ Tail(q) = <<>>
    BY <1>1, ShortPrograms
  <2>2. QED
    BY <2>1 DEF Rest
<1>2. ASSUME NEW a, NEW b, p = <<a, b>> PROVE Tail(q) \in Rest(p)
  <2>1. Rest(p) = {<<a, b>>, <<b>>, <<>>}
    BY <1>2, ShortPrograms
  <2>2. CASE q = <<a, b>>
    BY <2>1, <2>2, ShortPrograms
  <2>3. CASE q = <<b>>
    BY <2>1, <2>3, ShortPrograms
  <2>4. QED
    BY <2>1, <2>2, <2>3
<1>3. QED
  BY <1>1, <1>2 DEF Short

LEMMA AllShort ==
  ASSUME Category # "MPMC"
  PROVE  /\ \A o \in SendOps \cup ReadOps : Short(Sync[o])
         /\ Short(Sync.sent) /\ Short(Sync.cancelSend)
         /\ Short(Sync.read) /\ Short(Sync.cancelRead)
<1>1. CASE Category = "SPSC"
  BY <1>1 DEF Sync, SpscSync, Short, SendOps, ReadOps
<1>2. CASE Category = "MPSC"
  BY <1>2 DEF Sync, MpscSync, Short, SendOps, ReadOps
<1>3. CASE Category = "SPMC"
  BY <1>3 DEF Sync, SpmcSync, Short, SendOps, ReadOps
<1>4. QED
  BY <1>1, <1>2, <1>3, CategoryAssumption

(* What a primitive means for the lock. *)
LockStep(o, label, q) ==
  /\ Head(q) \notin {"write_seq.add", "read_seq.add"}
  /\ Head(q) = "mutex.unlock" =>
       o \in LockOps /\ ~Owes(Tail(q)) /\ label \notin Working
  /\ Head(q) \in Credits =>
       (Awaits(Tail(q)) <=> Awaits(q)) /\ (Owes(Tail(q)) <=> Owes(q))
  /\ Category = "SPMC" /\ Head(q) = "occupied.try_acquire" =>
       o \in ReadOps /\ ~Awaits(q) /\ label \in Working
LEMMA ReleaseSteps ==
  ASSUME NEW o, NEW label, NEW a \in Releases \cup FreeAcquires
  PROVE  LockStep(o, label, <<a>>) /\ LockStep(o, label, <<a, "mutex.unlock">>)
<1>1. a \in {"free.release", "occupied.release", "free.acquire", "free.try_acquire"}
  BY DEF Releases, FreeAcquires
<1>2. ~Awaits(<<a>>) /\ ~Owes(<<a>>) /\ ~Awaits(<<>>) /\ ~Owes(<<>>)
  BY <1>1, ItemsOf, ShortPrograms DEF Awaits, Owes, Locks
<1>3. /\ ~Awaits(<<a, "mutex.unlock">>) /\ Owes(<<a, "mutex.unlock">>)
      /\ ~Awaits(<<"mutex.unlock">>) /\ Owes(<<"mutex.unlock">>)
  BY <1>1, ItemsOf DEF Awaits, Owes, Locks
<1>4. LockStep(o, label, <<a>>)
  BY <1>1, <1>2, ShortPrograms DEF LockStep
<1>5. LockStep(o, label, <<a, "mutex.unlock">>)
  BY <1>1, <1>3, ShortPrograms DEF LockStep
<1>6. QED
  BY <1>4, <1>5

LEMMA LockSteps ==
  ASSUME Category # "MPMC", NEW o \in Ops, NEW label \in Labels,
         label \in AcquireLabels => o \in SendOps \cup ReadOps,
         label = "countUp" => o \in SendOps,
         NEW q \in Programs(o, label), q # <<>>
  PROVE  LockStep(o, label, q)
<1> USE DEF LockStep
<1>0. label \in Working => label \in AcquireLabels
  BY DEF Programs, Working, AcquireLabels
<1>1. CASE Category = "SPSC"
  <2>1. LockOps = {} /\ Sync = SpscSync
    BY <1>1 DEF LockOps, Sync
  <2>2. \E a \in Credits : q = <<a>>
    BY <2>1, ShortPrograms
       DEF Programs, SpscSync, Credits, Acquires, Releases, SendOps, ReadOps
  <2>3. PICK a \in Credits : q = <<a>>
    BY <2>2
  <2>4. Head(q) = a /\ Tail(q) = <<>> /\ Items(q) = {a} /\ Items(Tail(q)) = {}
    BY <2>3, ShortPrograms, ItemsOf
  <2>5. QED
    BY <1>1, <2>4 DEF Awaits, Owes, Locks, Credits, Acquires, Releases
<1>2. CASE Category = "MPSC"
  <2>1. LockOps = SendOps /\ Sync = MpscSync
    BY <1>2 DEF LockOps, Sync
  <2>2. CASE label \in AcquireLabels
    <3>0. /\ Programs("Send", label) = {<<"free.acquire", "mutex.lock">>, <<"mutex.lock">>, <<>>}
          /\ Programs("TrySend", label)
               = {<<"free.try_acquire", "mutex.lock">>, <<"mutex.lock">>, <<>>}
          /\ Programs("Read", label) = {<<"occupied.acquire">>, <<>>}
          /\ Programs("TryRead", label) = {<<"occupied.try_acquire">>, <<>>}
      BY <2>1, <2>2, ShortPrograms DEF Programs, MpscSync
    <3>1. \/ \E a \in Acquires : q = <<a>> \/ q = <<a, "mutex.lock">>
          \/ q = <<"mutex.lock">>
      BY <2>2, <3>0 DEF Acquires, SendOps, ReadOps
    <3>2. CASE q = <<"mutex.lock">>
      <4>1. Head(q) = "mutex.lock"
        BY <3>2, ShortPrograms
      <4>2. QED
        BY <1>2, <4>1 DEF Credits, Acquires, Releases
    <3>3. ASSUME NEW a \in Acquires, q = <<a>> \/ q = <<a, "mutex.lock">>
          PROVE  LockStep(o, label, q)
      <4>1. Head(q) = a
        BY <3>3, ShortPrograms
      <4>2. CASE q = <<a>>
        BY <1>2, <4>1, <4>2, ShortPrograms, ItemsOf DEF Awaits, Owes, Locks, Acquires
      <4>3. CASE q = <<a, "mutex.lock">>
        BY <1>2, <4>1, <4>3, ShortPrograms, ItemsOf DEF Awaits, Owes, Locks, Acquires
      <4>4. QED
        BY <3>3, <4>2, <4>3
    <3>4. QED
      BY <3>1, <3>2, <3>3
  <2>3. CASE label \notin AcquireLabels
    <3>1. \/ q \in {<<"free.release">>, <<"occupied.release">>}
          \/ /\ o \in SendOps
             /\ q \in {<<"occupied.release", "mutex.unlock">>,
                       <<"mutex.unlock", "free.release">>, <<"mutex.unlock">>}
      BY <2>1, <2>3, ShortPrograms DEF Programs, MpscSync
    <3>2. CASE q \in {<<"free.release">>, <<"occupied.release">>}
      BY <3>2, ReleaseSteps DEF Releases
    <3>3. CASE q = <<"occupied.release", "mutex.unlock">>
      BY <3>3, ReleaseSteps DEF Releases
    <3>4. CASE q = <<"mutex.unlock", "free.release">> \/ q = <<"mutex.unlock">>
      <4>1. Head(q) = "mutex.unlock" /\ ~Owes(Tail(q))
        <5>1. CASE q = <<"mutex.unlock", "free.release">>
          BY <5>1, ShortPrograms, ItemsOf DEF Owes
        <5>2. CASE q = <<"mutex.unlock">>
          BY <5>2, ShortPrograms DEF Owes
        <5>3. QED
          BY <3>4, <5>1, <5>2
      <4>2. o \in SendOps
        BY <3>1, <3>4
      <4>3. QED
        BY <1>0, <2>1, <2>3, <4>1, <4>2 DEF Credits, Acquires, Releases
    <3>5. QED
      BY <3>1, <3>2, <3>3, <3>4
  <2>4. QED
    BY <2>2, <2>3
<1>3. CASE Category = "SPMC"
  <2>1. LockOps = ReadOps /\ Sync = SpmcSync
    BY <1>3 DEF LockOps, Sync
  <2>2. CASE label \in AcquireLabels
    <3>0. /\ Programs("Send", label) = {<<"free.acquire">>, <<>>}
          /\ Programs("TrySend", label) = {<<"free.try_acquire">>, <<>>}
          /\ Programs("Read", label)
               = {<<"mutex.lock", "occupied.acquire">>, <<"occupied.acquire">>, <<>>}
          /\ Programs("TryRead", label)
               = {<<"mutex.try_lock", "occupied.try_acquire">>, <<"occupied.try_acquire">>, <<>>}
      BY <2>1, <2>2, ShortPrograms DEF Programs, SpmcSync
    <3>1. \/ q \in {<<"free.acquire">>, <<"free.try_acquire">>}
          \/ /\ o \in ReadOps
             /\ \/ \E a \in Locks, b \in {"occupied.acquire", "occupied.try_acquire"} :
                     q = <<a, b>>
                \/ \E a \in {"occupied.acquire", "occupied.try_acquire"} : q = <<a>>
      BY <2>2, <3>0 DEF Locks, SendOps, ReadOps
    <3>2. CASE q \in {<<"free.acquire">>, <<"free.try_acquire">>}
      BY <3>2, ReleaseSteps DEF Releases, FreeAcquires
    <3>3. ASSUME NEW a \in Locks, NEW b, q = <<a, b>>
          PROVE  LockStep(o, label, q)
      BY <3>3, ShortPrograms DEF Locks, Credits, Acquires, Releases
    <3>4. ASSUME o \in ReadOps, NEW a \in {"occupied.acquire", "occupied.try_acquire"}, q = <<a>>
          PROVE  LockStep(o, label, q)
      <4>1. Head(q) = a /\ Items(q) = {a} /\ Items(Tail(q)) = {} /\ label \in Working
        BY <2>2, <3>4, ShortPrograms, ItemsOf DEF AcquireLabels, Working
      <4>2. QED
        BY <3>4, <4>1 DEF Awaits, Owes, Locks
    <3>5. QED
      BY <3>1, <3>2, <3>3, <3>4
  <2>3. CASE label \notin AcquireLabels
    <3>1. \/ q \in {<<"free.release">>, <<"occupied.release">>}
          \/ /\ o \in ReadOps
             /\ q \in {<<"occupied.release", "mutex.unlock">>,
                       <<"free.release", "mutex.unlock">>, <<"mutex.unlock">>}
      BY <2>1, <2>3, ShortPrograms DEF Programs, SpmcSync
    <3>2. CASE q \in {<<"free.release">>, <<"occupied.release">>}
      BY <3>2, ReleaseSteps DEF Releases, FreeAcquires
    <3>3. CASE q \in {<<"occupied.release", "mutex.unlock">>, <<"free.release", "mutex.unlock">>}
      BY <3>3, ReleaseSteps DEF Releases
    <3>4. CASE q = <<"mutex.unlock">>
      <4>1. Head(q) = "mutex.unlock" /\ ~Owes(Tail(q))
        BY <3>4, ShortPrograms, ItemsOf DEF Owes
      <4>2. o \in ReadOps
        BY <3>1, <3>4, ShortPrograms
      <4>3. QED
        BY <1>0, <2>1, <2>3, <4>1, <4>2 DEF Credits, Acquires, Releases
    <3>5. QED
      BY <3>1, <3>2, <3>3, <3>4
  <2>4. QED
    BY <2>2, <2>3
<1>4. QED
  BY <1>1, <1>2, <1>3, CategoryAssumption
LEMMA LockFirst ==
  ASSUME NEW o \in LockOps
  PROVE  Awaits(Sync[o]) /\ ~Owes(Sync[o])
<1>1. CASE Category = "MPSC"
  <2>1. Sync = MpscSync /\ o \in {"Send", "TrySend"}
    BY <1>1 DEF Sync, LockOps, SendOps
  <2>2. \E a \in Acquires : Sync[o] = <<a, "mutex.lock">>
    BY <2>1 DEF MpscSync, Acquires
  <2>3. QED
    BY <2>2, ItemsOf DEF Awaits, Owes, Locks, Acquires
<1>2. CASE Category = "SPMC"
  <2>1. Sync = SpmcSync /\ o \in {"Read", "TryRead"}
    BY <1>2 DEF Sync, LockOps, ReadOps
  <2>2. \E a \in Locks, b \in Acquires : Sync[o] = <<a, b>>
    BY <2>1 DEF SpmcSync, Acquires, Locks
  <2>3. QED
    BY <2>2, ItemsOf DEF Awaits, Owes, Locks, Acquires
<1>3. QED
  BY <1>1, <1>2 DEF LockOps

LEMMA NothingOwed == ~Owes(<<>>) /\ ~Awaits(<<>>)
  BY ShortPrograms DEF Owes, Awaits

-----------------------------------------------------------------------------
(* What a step leaves to the others. *)
LEMMA StepOthersData ==
  ASSUME BasicTypes, NEW t \in Threads, Step(t)
  PROVE  \A s \in Threads \ {t} : msg'[s] = msg[s] /\ outcome'[s] = outcome[s]
<1> USE DEF BasicTypes, CallTypeOK, Goto, Finish, Decide, Keep, syncVars, callVars
<1>1. CASE Call(t) /\ UNCHANGED kept
  BY <1>1 DEF Call, CallSend, CallRead, CallClose, Enter, AccountThreads
<1>2. CASE Emplace(t) \/ StoreMessageThrows(t) \/ PopMessageThrows(t)
  BY <1>2 DEF Emplace, StoreMessageThrows, PopMessageThrows
<1>3. CASE SyncStep(t) /\ UNCHANGED kept
  BY <1>3 DEF SyncStep, AcquireFree, TryAcquireFreeFails, TakeFreeIfAny, ReleaseFree,
     AcquireOccupied, TryAcquireOccupiedFails, ReleaseOccupied, LockMutex,
     TryLockMutexFails, UnlockMutex, ReserveWriteSlot, ReserveReadSlot, GiveUp
<1>4. CASE /\ UNCHANGED kept
           /\ \/ CheckSendDeadlockPossibility(t) \/ CheckReadDeadlockPossibility(t)
              \/ SyncAndOverflowPrework(t) \/ ResolveSendOverflowTry(t)
              \/ SyncAndUnderflowPrework(t, Sync[op[t]]) \/ ResolveReadUnderflowTry(t)
  BY <1>4 DEF CheckSendDeadlockPossibility, CheckReadDeadlockPossibility, AfterCheck,
     HandleDeadlock, SyncAndOverflowPrework, ResolveSendOverflowTry,
     SyncAndUnderflowPrework, ResolveReadUnderflowTry
<1>5. CASE /\ UNCHANGED kept
           /\ \/ WriteTail(t, "store", Sync.sent) \/ CountUp(t) \/ ReadReserved(t)
              \/ LoadHead(t) \/ MoveHead(t) \/ AdvanceHead(t) \/ CountDown(t)
              \/ Close(t) \/ Leave(t)
  BY <1>5 DEF WriteTail, CountUp, ReadReserved, LoadHead, MoveHead, MoveOut, AdvanceHead,
     CountDown, Close, Leave, Return
<1>6. QED
  BY <1>1, <1>2, <1>3, <1>4, <1>5 DEF Step, Run, Proceed

LEMMA FlowKept ==
  ASSUME NEW s, FlowInv(s), mutex' = mutex \/ mutex # s,
         pc'[s] = pc[s], op'[s] = op[s], todo'[s] = todo[s], index'[s] = index[s],
         msg'[s] = msg[s], outcome'[s] = outcome[s]
  PROVE  FlowInv(s)'
  BY DEF FlowInv, Locked

(* What the programs of a thread are, as the lemmas about them take it. *)
LEMMA ProgramOf ==
  ASSUME Category # "MPMC", BasicTypes, NEW t \in Threads, OpInv(t), FlowInv(t), ~Ready(t)
  PROVE  /\ LockStep(op[t], pc[t], todo[t])
         /\ Tail(todo[t]) \in Programs(op[t], pc[t])
<1>1. /\ op[t] \in Ops /\ pc[t] \in Labels /\ todo[t] # <<>>
      /\ todo[t] \in Programs(op[t], pc[t])
  BY DEF BasicTypes, CallTypeOK, FlowInv, Ready
<1>2. /\ pc[t] \in AcquireLabels => op[t] \in SendOps \cup ReadOps
      /\ pc[t] = "countUp" => op[t] \in SendOps
  BY DEF OpInv, AcquireLabels
<1>3. LockStep(op[t], pc[t], todo[t])
  BY <1>1, <1>2, LockSteps
<1>4. \E p : Short(p) /\ todo[t] \in Rest(p) /\ Rest(p) \subseteq Programs(op[t], pc[t])
  BY <1>1, <1>2, AllShort DEF Programs
<1>5. Tail(todo[t]) \in Programs(op[t], pc[t])
  BY <1>1, <1>4, RestStep
<1>6. QED
  BY <1>3, <1>5

(* A primitive of a program that goes on. *)
LEMMA PrimitiveFlow ==
  ASSUME Category # "MPMC", BasicTypes, NEW t \in Threads, TodoInv(t), OpInv(t), FlowInv(t),
         ~Ready(t), Perform(t, Tail(todo[t])), UNCHANGED <<callVars, index>>,
         op[t] \in LockOps /\ Locked(t)' => mutex' = t
  PROVE  FlowInv(t)'
<1>1. todo[t] \in Seq(Primitives) /\ Sound(todo[t]) /\ todo[t] # <<>>
  BY DEF BasicTypes, TodoInv, Ready
<1>2. todo'[t] = Tail(todo[t])
  BY <1>1, SoundTail, PerformTyped
<1>3. todo'[t] \in Programs(op[t], pc[t])
  BY <1>2, ProgramOf
<1>4. QED
  BY <1>3 DEF FlowInv, callVars

(* A call that is decided and only has to release. *)
LEMMA ReturnFlow ==
  ASSUME NEW t, pc'[t] = "return", todo'[t] \in Programs(op'[t], "return"),
         outcome'[t] # "none", op'[t] \notin {"none", "Close"},
         op'[t] \in SendOps => t \in Producers,
         op'[t] \in ReadOps => t \in Consumers,
         op'[t] \in ReadOps => (msg'[t] # NoMessage <=> outcome'[t] = "returned"),
         op'[t] \in LockOps /\ Locked(t)' => mutex' = t
  PROVE  FlowInv(t)'
<1>1. pc'[t] \notin Undecided \cup {"idle", "close", "advance"}
  BY DEF Undecided
<1>2. todo'[t] \in Programs(op'[t], pc'[t])
  OBVIOUS
<1>3. QED
  BY <1>1, <1>2 DEF FlowInv

(* A call that gives up has nothing left to do, but for a reader that has  *)
(* locked read_mutex_.                                                     *)
LEMMA GiveUpFlow ==
  ASSUME Category # "MPMC", BasicTypes, NEW t \in Threads, TodoInv(t), OpInv(t), FlowInv(t),
         ~Ready(t), GiveUp(t), UNCHANGED <<role, op, msg, mutex, index>>,
         Head(todo[t]) \in {"free.try_acquire", "occupied.try_acquire", "mutex.try_lock"}
  PROVE  FlowInv(t)'
<1>1. /\ Pending(t) \cap Acquires # {} /\ pc'[t] = "return" /\ pc[t] \in AcquireLabels
      /\ outcome'[t] = "false"
  BY GivingUp DEF TodoInv, AcquireLabels, GiveUp, Finish, Decide, BasicTypes, CallTypeOK
<1>2. op[t] \in SendOps \cup ReadOps /\ outcome[t] = "none" /\ index[t] = NoSlot
  BY <1>1 DEF OpInv, FlowInv, AcquireLabels, Undecided
<1>3. CASE Category = "SPMC" /\ Head(todo[t]) = "occupied.try_acquire"
  <2>1. op[t] \in ReadOps /\ ~Awaits(todo[t]) /\ pc[t] \in Working
    BY <1>3, ProgramOf DEF LockStep
  <2>2. mutex = t
    BY <1>3, <2>1 DEF FlowInv, LockOps, Locked
  <2>3. todo'[t] = <<"mutex.unlock">>
    BY <1>3, FreePrograms, PerformTyped DEF GiveUp
  <2>4. <<"mutex.unlock">> \in Rest(Sync.read)
    BY <1>3, ShortPrograms DEF Sync, SpmcSync
  <2>5. todo'[t] \in Programs(op[t], "return")
    BY <2>1, <2>3, <2>4, Sides DEF Programs, AcquireLabels
  <2>6. msg[t] = NoMessage
    BY <1>1, <1>2, <2>1 DEF FlowInv, AcquireLabels
  <2>7. op'[t] = op[t] /\ msg'[t] = msg[t] /\ index'[t] = index[t] /\ mutex' = mutex
    OBVIOUS
  <2>8. op[t] \notin SendOps /\ op[t] # "none" /\ op[t] # "Close" /\ t \in Consumers
    BY <2>1 DEF FlowInv, SendOps, ReadOps
  <2>9. QED
    BY <1>1, <2>2, <2>5, <2>6, <2>7, <2>8, ReturnFlow
<1>4. CASE ~(Category = "SPMC" /\ Head(todo[t]) = "occupied.try_acquire")
  <2>1. todo'[t] = <<>>
    BY <1>4, FreePrograms, PerformTyped DEF GiveUp
  <2>2. ~Locked(t)'
    BY <1>1, <2>1, NothingOwed DEF Locked, Working
  <2>3. todo'[t] \in Programs(op[t], "return")
    BY <2>1, EmptyProgram
  <2>4. op[t] \in ReadOps => msg[t] = NoMessage
    BY <1>1, <1>2 DEF FlowInv, AcquireLabels
  <2>5. /\ op'[t] = op[t] /\ msg'[t] = msg[t] /\ op[t] \notin {"none", "Close"}
        /\ op[t] \in SendOps => t \in Producers
        /\ op[t] \in ReadOps => t \in Consumers
    BY <1>2 DEF FlowInv, SendOps, ReadOps
  <2>6. QED
    BY <1>1, <2>2, <2>3, <2>4, <2>5, ReturnFlow
<1>5. QED
  BY <1>3, <1>4

LEMMA SyncStepFlow ==
  ASSUME Category # "MPMC", BasicTypes, NEW t \in Threads, TodoInv(t), OpInv(t), FlowInv(t),
         SyncStep(t)
  PROVE  FlowInv(t)' /\ (mutex' = mutex \/ mutex \in {t, NoThread})
<1> DEFINE H == Head(todo[t])
<1>1. ~Ready(t)
  BY DEF SyncStep, AcquireFree, TryAcquireFreeFails, TakeFreeIfAny, ReleaseFree,
     AcquireOccupied, TryAcquireOccupiedFails, ReleaseOccupied, LockMutex,
     TryLockMutexFails, UnlockMutex, ReserveWriteSlot, ReserveReadSlot, Doing
<1>2. LockStep(op[t], pc[t], todo[t])
  BY <1>1, ProgramOf
<1>3. CASE TryAcquireFreeFails(t) \/ TryAcquireOccupiedFails(t) \/ TryLockMutexFails(t)
  <2>1. /\ GiveUp(t) /\ UNCHANGED <<role, op, msg, mutex, index>>
        /\ H \in {"free.try_acquire", "occupied.try_acquire", "mutex.try_lock"}
    BY <1>3 DEF TryAcquireFreeFails, TryAcquireOccupiedFails, TryLockMutexFails
  <2>2. QED
    BY <1>1, <2>1, GiveUpFlow
<1>4. CASE AcquireFree(t) \/ ReleaseFree(t) \/ AcquireOccupied(t) \/ ReleaseOccupied(t)
  <2>1. /\ Perform(t, Tail(todo[t])) /\ UNCHANGED <<callVars, index, mutex>> /\ H \in Credits
    BY <1>4 DEF AcquireFree, ReleaseFree, AcquireOccupied, ReleaseOccupied, Doing,
       Credits, Acquires, Releases
  <2>2. todo'[t] = Tail(todo[t])
    BY <1>1, <2>1, SoundTail, PerformTyped DEF TodoInv, BasicTypes, Ready
  <2>3. Locked(t)' => Locked(t)
    BY <1>2, <2>1, <2>2 DEF LockStep, Locked, callVars
  <2>4. op[t] \in LockOps /\ Locked(t)' => mutex' = t
    BY <2>1, <2>3 DEF FlowInv
  <2>5. QED
    BY <1>1, <2>1, <2>4, PrimitiveFlow
<1>5. CASE LockMutex(t)
  <2>1. /\ Perform(t, Tail(todo[t])) /\ UNCHANGED <<callVars, index>>
        /\ mutex = NoThread /\ mutex' = t
    BY <1>5 DEF LockMutex, Doing
  <2>2. QED
    BY <1>1, <2>1, PrimitiveFlow
<1>6. CASE UnlockMutex(t)
  <2>1. /\ Perform(t, Tail(todo[t])) /\ UNCHANGED <<callVars, index>> /\ H = "mutex.unlock"
    BY <1>6 DEF UnlockMutex, Doing
  <2>2. todo'[t] = Tail(todo[t]) /\ H \in Items(todo[t])
    BY <1>1, <2>1, SoundTail, PerformTyped DEF TodoInv, BasicTypes, Ready
  <2>3. Locked(t) /\ ~Locked(t)' /\ op[t] \in LockOps
    BY <1>2, <2>1, <2>2 DEF LockStep, Locked, Owes, callVars
  <2>4. mutex = t
    BY <2>3 DEF FlowInv
  <2>5. QED
    BY <1>1, <2>1, <2>3, <2>4, PrimitiveFlow
<1>7. CASE ReserveWriteSlot(t) \/ ReserveReadSlot(t)
  BY <1>2, <1>7 DEF ReserveWriteSlot, ReserveReadSlot, Doing, LockStep
<1>8. CASE TakeFreeIfAny(t)
  <2>1. H = "free.take_if_any" /\ H \in Items(todo[t])
    BY <1>1, <1>8, SoundTail DEF TakeFreeIfAny, Doing, TodoInv, BasicTypes, Ready
  <2>2. QED
    BY <2>1 DEF TodoInv, Sound
<1>9. QED
  BY <1>3, <1>4, <1>5, <1>6, <1>7, <1>8 DEF SyncStep

(* A call that is still undecided, without a slot it has loaded. *)
LEMMA CallFlow ==
  ASSUME NEW t, pc'[t] \in {"check", "sync", "tryFull", "store", "tryEmpty", "take"},
         todo'[t] \in Programs(op'[t], pc'[t]), op'[t] \in SendOps \cup ReadOps,
         outcome'[t] = "none", index'[t] = NoSlot,
         op'[t] \in SendOps => t \in Producers /\ msg'[t] \in Messages,
         op'[t] \in ReadOps => t \in Consumers /\ msg'[t] = NoMessage,
         op'[t] \in LockOps /\ Locked(t)' => mutex' = t
  PROVE  FlowInv(t)'
<1>1. pc'[t] \in Undecided /\ pc'[t] \notin {"idle", "close", "advance"}
  BY DEF Undecided
<1>2. op'[t] \notin {"none", "Close"}
  BY DEF SendOps, ReadOps
<1>3. QED
  BY <1>1, <1>2 DEF FlowInv

LEMMA EnterFlow ==
  ASSUME InOrder, BasicTypes, BasicTypes', NEW t \in Threads, TodoInv(t), FlowInv(t), Call(t)
  PROVE  FlowInv(t)'
<1>1. /\ pc[t] = "idle" /\ outcome[t] = "none" /\ todo'[t] = <<>> /\ index'[t] = NoSlot
      /\ CallSend(t) \/ CallRead(t)
  <2>1. CallSend(t) \/ CallRead(t)
    BY DEF Call, CallClose, InOrder
  <2>2. pc[t] = "idle"
    BY <2>1 DEF CallSend, CallRead, Enter
  <2>3. QED
    BY <2>1, <2>2 DEF FlowInv, TodoInv, Ready, Call, syncVars
<1>2. /\ op'[t] \in SendOps \cup ReadOps
      /\ op'[t] \in SendOps => t \in Producers /\ msg'[t] \in Messages
      /\ op'[t] \in ReadOps => t \in Consumers /\ msg'[t] = NoMessage
  <2>1. CASE CallSend(t)
    BY <2>1, Sides DEF CallSend, Enter, BasicTypes, CallTypeOK
  <2>2. CASE CallRead(t)
    BY <2>2, Sides DEF CallRead, Enter, BasicTypes, CallTypeOK
  <2>3. QED
    BY <1>1, <2>1, <2>2
<1>3. \/ pc'[t] = "check" /\ outcome'[t] = "none"
      \/ pc'[t] = "return" /\ outcome'[t] = "roleChange"
  BY <1>1 DEF CallSend, CallRead, AccountThreads, Finish, Goto, Decide, BasicTypes, CallTypeOK
<1>4. ~Locked(t)'
  BY <1>1, <1>3, NothingOwed DEF Locked, Working
<1>5. todo'[t] \in Programs(op'[t], pc'[t])
  BY <1>1, EmptyProgram
<1>6. CASE pc'[t] = "check" /\ outcome'[t] = "none"
  BY <1>1, <1>2, <1>4, <1>5, <1>6, CallFlow
<1>7. CASE pc'[t] = "return" /\ outcome'[t] = "roleChange"
  <2>1. op'[t] \notin {"none", "Close"}
    BY <1>2 DEF SendOps, ReadOps
  <2>2. QED
    BY <1>2, <1>4, <1>5, <1>7, <2>1, ReturnFlow
<1>8. QED
  BY <1>3, <1>6, <1>7

LEMMA CheckFlow ==
  ASSUME BasicTypes, BasicTypes', NEW t \in Threads, TodoInv(t), FlowInv(t),
         CheckSendDeadlockPossibility(t) \/ CheckReadDeadlockPossibility(t)
  PROVE  FlowInv(t)'
<1>1. /\ pc[t] = "check" /\ op[t] \in SendOps \cup ReadOps
      /\ UNCHANGED <<op, msg, todo, index, mutex>>
  BY DEF CheckSendDeadlockPossibility, CheckReadDeadlockPossibility, AfterCheck, syncVars
<1>2. /\ todo'[t] = <<>> /\ index'[t] = NoSlot /\ outcome[t] = "none"
      /\ op[t] \in SendOps => t \in Producers /\ msg[t] \in Messages
      /\ op[t] \in ReadOps => t \in Consumers /\ msg[t] = NoMessage
  BY <1>1 DEF FlowInv, TodoInv, Ready, Undecided
<1>3. \/ pc'[t] = "sync" /\ outcome'[t] = outcome[t]
      \/ pc'[t] = "return" /\ outcome'[t] \in {"false", "deadlock"}
  BY DEF CheckSendDeadlockPossibility, CheckReadDeadlockPossibility, AfterCheck,
     HandleDeadlock, Finish, Goto, Decide, BasicTypes, CallTypeOK
<1>4. ~Locked(t)'
  BY <1>2, <1>3, NothingOwed DEF Locked, Working
<1>5. todo'[t] \in Programs(op'[t], pc'[t])
  BY <1>2, EmptyProgram
<1>6. CASE pc'[t] = "sync" /\ outcome'[t] = outcome[t]
  BY <1>1, <1>2, <1>4, <1>5, <1>6, CallFlow
<1>7. CASE pc'[t] = "return" /\ outcome'[t] \in {"false", "deadlock"}
  <2>1. op'[t] \notin {"none", "Close"}
    BY <1>1 DEF SendOps, ReadOps
  <2>2. QED
    BY <1>1, <1>2, <1>4, <1>5, <1>7, <2>1, ReturnFlow
<1>8. QED
  BY <1>3, <1>6, <1>7

LEMMA PreworkFlow ==
  ASSUME BasicTypes, BasicTypes', NEW t \in Threads, TodoInv(t), FlowInv(t),
         SyncAndOverflowPrework(t) \/ SyncAndUnderflowPrework(t, Sync[op[t]])
  PROVE  FlowInv(t)'
<1>1. /\ pc[t] = "sync" /\ op[t] \in SendOps \cup ReadOps /\ Perform(t, Sync[op[t]])
      /\ UNCHANGED <<op, msg, outcome, index, mutex>> /\ pc'[t] \in AcquireLabels
  BY DEF SyncAndOverflowPrework, SyncAndUnderflowPrework, Goto, BasicTypes, CallTypeOK,
     AcquireLabels
<1>2. /\ index[t] = NoSlot /\ outcome[t] = "none"
      /\ op[t] \in SendOps => t \in Producers /\ msg[t] \in Messages
      /\ op[t] \in ReadOps => t \in Consumers /\ msg[t] = NoMessage
  BY <1>1 DEF FlowInv, Undecided
<1>3. todo'[t] = Sync[op[t]]
  BY <1>1, PerformTyped, ProgramsTyped
<1>4. todo'[t] \in Programs(op'[t], pc'[t])
  BY <1>1, <1>3 DEF Programs, Rest
<1>5. ~(op[t] \in LockOps /\ Locked(t)')
  BY <1>3, LockFirst DEF Locked
<1>6. QED
  BY <1>1, <1>2, <1>4, <1>5, CallFlow DEF AcquireLabels

LEMMA ResolveFlow ==
  ASSUME BasicTypes, BasicTypes', NEW t \in Threads, TodoInv(t), OpInv(t), FlowInv(t),
         ResolveSendOverflowTry(t) \/ ResolveReadUnderflowTry(t)
  PROVE  FlowInv(t)'
<1>1. /\ pc[t] \in {"tryFull", "tryEmpty"} /\ todo[t] = <<>>
      /\ op[t] \in SendOps => pc[t] = "tryFull"
      /\ op[t] \in ReadOps => pc[t] = "tryEmpty"
      /\ op[t] \in SendOps \cup ReadOps
      /\ UNCHANGED <<op, msg, index, mutex>>
  BY Sides DEF ResolveSendOverflowTry, ResolveReadUnderflowTry, OpInv, Ready
<1>2. /\ index[t] = NoSlot /\ outcome[t] = "none"
      /\ op[t] \in SendOps => t \in Producers /\ msg[t] \in Messages
      /\ op[t] \in ReadOps => t \in Consumers /\ msg[t] = NoMessage
      /\ op[t] \in LockOps => mutex = t
  BY <1>1, NothingOwed DEF FlowInv, Undecided, Locked, Working
<1>3. \/ pc'[t] \in {"store", "take"} /\ outcome'[t] = outcome[t] /\ todo' = todo
      \/ /\ pc'[t] = "return" /\ outcome'[t] = "false"
         /\ op[t] \in SendOps => Perform(t, Sync.cancelSend)
         /\ op[t] \in ReadOps => Perform(t, Sync.cancelRead)
  BY <1>1 DEF ResolveSendOverflowTry, ResolveReadUnderflowTry, Finish, Goto, Decide,
     BasicTypes, CallTypeOK
<1>4. CASE pc'[t] \in {"store", "take"} /\ outcome'[t] = outcome[t] /\ todo' = todo
  <2>1. todo'[t] \in Programs(op'[t], pc'[t])
    BY <1>1, <1>4, EmptyProgram
  <2>2. QED
    BY <1>1, <1>2, <1>4, <2>1, CallFlow
<1>5. CASE /\ pc'[t] = "return" /\ outcome'[t] = "false"
           /\ op[t] \in SendOps => Perform(t, Sync.cancelSend)
           /\ op[t] \in ReadOps => Perform(t, Sync.cancelRead)
  <2>1. todo'[t] \in Programs(op'[t], "return")
    <3>1. /\ op[t] \in SendOps => todo'[t] = Sync.cancelSend
          /\ op[t] \in ReadOps => todo'[t] = Sync.cancelRead
      BY <1>5, PerformTyped, ProgramsTyped
    <3>2. QED
      BY <1>1, <3>1, Sides DEF Programs, Rest, AcquireLabels
  <2>2. op'[t] \notin {"none", "Close"}
    BY <1>1 DEF SendOps, ReadOps
  <2>3. QED
    BY <1>1, <1>2, <1>5, <2>1, <2>2, ReturnFlow
<1>6. QED
  BY <1>3, <1>4, <1>5

LEMMA SendFlow ==
  ASSUME BasicTypes, BasicTypes', NEW t \in Threads, TodoInv(t), OpInv(t), FlowInv(t),
         WriteTail(t, "store", Sync.sent) \/ CountUp(t)
  PROVE  FlowInv(t)'
<1>1. /\ op[t] \in SendOps /\ op[t] \notin ReadOps /\ op[t] \notin {"none", "Close"}
      /\ t \in Producers /\ todo[t] = <<>> /\ UNCHANGED <<op, index, mutex>>
  BY Sides DEF WriteTail, CountUp, OpInv, FlowInv, SendOps, Ready, syncVars
<1>2. CASE WriteTail(t, "store", Sync.sent)
  <2>1. /\ pc[t] = "store" /\ pc'[t] = "countUp" /\ outcome'[t] = "returned"
        /\ Perform(t, Sync.sent)
    BY <1>2 DEF WriteTail, Goto, Decide, BasicTypes, CallTypeOK
  <2>2. todo'[t] \in Programs(op'[t], pc'[t])
    <3>1. todo'[t] = Sync.sent
      BY <2>1, PerformTyped, ProgramsTyped
    <3>2. QED
      BY <2>1, <3>1 DEF Programs, Rest, AcquireLabels
  <2>3. op[t] \in LockOps => mutex = t
    BY <1>1, <2>1, NothingOwed DEF FlowInv, Locked, Working
  <2>4. index[t] = NoSlot /\ pc'[t] \notin Undecided \cup {"idle", "close", "advance"}
    BY <2>1 DEF FlowInv, Undecided
  <2>5. QED
    BY <1>1, <2>1, <2>2, <2>3, <2>4 DEF FlowInv
<1>3. CASE CountUp(t)
  <2>1. /\ pc[t] = "countUp" /\ pc'[t] = "return" /\ outcome'[t] = outcome[t]
        /\ todo'[t] = <<>>
    BY <1>1, <1>3 DEF CountUp, Goto, BasicTypes, CallTypeOK, syncVars
  <2>2. outcome[t] # "none"
    BY <2>1 DEF FlowInv, Undecided
  <2>3. ~Locked(t)' /\ todo'[t] \in Programs(op'[t], "return")
    BY <2>1, NothingOwed, EmptyProgram DEF Locked, Working
  <2>4. QED
    BY <1>1, <2>1, <2>2, <2>3, ReturnFlow
<1>4. QED
  BY <1>2, <1>3

LEMMA ReadFlow ==
  ASSUME InOrder, BasicTypes, BasicTypes', NEW t \in Threads, TodoInv(t), OpInv(t), FlowInv(t),
         pc[t] = "move" => buffer[index[t]] # NoMessage,
         pc[t] = "advance" => index[t] = head,
         LoadHead(t) \/ MoveHead(t) \/ AdvanceHead(t) \/ CountDown(t)
  PROVE  FlowInv(t)'
<1>1. /\ op[t] \in ReadOps /\ op[t] \notin SendOps /\ op[t] \notin {"none", "Close"}
      /\ t \in Consumers /\ todo[t] = <<>> /\ UNCHANGED <<op, mutex>>
      /\ pc[t] \in {"take", "move", "advance", "countDown"}
  BY Sides DEF LoadHead, MoveHead, AdvanceHead, CountDown, OpInv, FlowInv, ReadOps, Ready,
     TodoInv, syncVars
<1>2. op[t] \in LockOps => mutex = t
  BY <1>1, NothingOwed DEF FlowInv, Locked, Working
<1>3. /\ outcome[t] = "none" <=> pc[t] # "countDown"
      /\ msg[t] # NoMessage <=> pc[t] = "advance" \/ outcome[t] = "returned"
  BY <1>1 DEF FlowInv, Undecided
<1>4. CASE LoadHead(t) \/ MoveHead(t) \/ AdvanceHead(t)
  <2>1. /\ \/ pc[t] = "take" /\ pc'[t] = "move" /\ msg' = msg /\ outcome' = outcome
           \/ /\ pc[t] = "move" /\ pc'[t] = "advance" /\ outcome' = outcome
              /\ msg'[t] = buffer[index[t]]
           \/ /\ pc[t] = "advance" /\ pc'[t] = "countDown" /\ outcome'[t] = "returned"
              /\ msg' = msg
        /\ todo'[t] = <<>>
    <3>1. CASE LoadHead(t)
      BY <1>1, <3>1 DEF LoadHead, Goto, BasicTypes, CallTypeOK
    <3>2. CASE MoveHead(t)
      BY <1>1, <3>2 DEF MoveHead, MoveOut, Goto, BasicTypes, CallTypeOK, syncVars
    <3>3. CASE AdvanceHead(t)
      BY <1>1, <3>3 DEF AdvanceHead, Goto, Decide, BasicTypes, CallTypeOK, InOrder
    <3>4. QED
      BY <1>4, <3>1, <3>2, <3>3
  <2>2. /\ outcome'[t] = "none" <=> pc'[t] # "countDown"
        /\ msg'[t] # NoMessage <=> pc'[t] = "advance" \/ outcome'[t] = "returned"
    BY <1>3, <2>1
  <2>3. todo'[t] \in Programs(op'[t], pc'[t])
    BY <2>1, EmptyProgram
  <2>4. /\ pc'[t] \in {"move", "advance", "countDown"}
        /\ pc'[t] \in Undecided \cup {"idle"} <=> pc'[t] # "countDown"
    BY <2>1 DEF Undecided
  <2>5. QED
    BY <1>1, <1>2, <2>2, <2>3, <2>4 DEF FlowInv
<1>5. CASE CountDown(t)
  <2>1. /\ pc[t] = "countDown" /\ pc'[t] = "return" /\ UNCHANGED <<msg, outcome>>
        /\ Perform(t, Sync.read)
    BY <1>5 DEF CountDown, Goto, BasicTypes, CallTypeOK
  <2>2. todo'[t] \in Programs(op'[t], "return")
    <3>1. todo'[t] = Sync.read
      BY <2>1, PerformTyped, ProgramsTyped
    <3>2. QED
      BY <1>1, <3>1 DEF Programs, Rest, AcquireLabels
  <2>3. QED
    BY <1>1, <1>2, <1>3, <2>1, <2>2, ReturnFlow
<1>6. QED
  BY <1>4, <1>5

LEMMA LeaveFlow ==
  ASSUME BasicTypes, BasicTypes', NEW t \in Threads, TodoInv(t), FlowInv(t), Leave(t)
  PROVE  FlowInv(t)'
<1>1. /\ pc'[t] = "idle" /\ op'[t] = "none" /\ outcome'[t] = "none" /\ index'[t] = NoSlot
      /\ todo'[t] = <<>>
  BY DEF Leave, Return, Goto, Decide, BasicTypes, CallTypeOK, Ready
<1>2. ~Locked(t)'
  BY <1>1, NothingOwed DEF Locked, Working
<1>3. todo'[t] \in Programs(op'[t], pc'[t])
  BY <1>1, EmptyProgram
<1>4. op'[t] \notin SendOps \cup ReadOps
  BY <1>1 DEF SendOps, ReadOps
<1>5. QED
  BY <1>1, <1>2, <1>3, <1>4 DEF FlowInv

(* The call of the thread that moves, and the mutex of its side. *)
LEMMA StepFlow ==
  ASSUME InOrder, BasicTypes, BasicTypes', NEW t \in Threads, TodoInv(t), OpInv(t), FlowInv(t),
         Step(t),
         pc[t] = "move" => buffer[index[t]] # NoMessage,
         pc[t] = "advance" => index[t] = head
  PROVE  FlowInv(t)' /\ (mutex' = mutex \/ mutex \in {t, NoThread})
<1>1. CASE SyncStep(t)
  BY <1>1, SyncStepFlow DEF InOrder
<1>2. CASE Emplace(t) \/ StoreMessageThrows(t) \/ PopMessageThrows(t)
  BY <1>2 DEF Emplace, Replaced, StoreMessageThrows, PopMessageThrows, OpInv, InOrder
<1>3. CASE Call(t)
  BY <1>3, EnterFlow DEF Call, syncVars
<1>4. CASE CheckSendDeadlockPossibility(t) \/ CheckReadDeadlockPossibility(t)
  BY <1>4, CheckFlow DEF CheckSendDeadlockPossibility, CheckReadDeadlockPossibility, syncVars
<1>5. CASE SyncAndOverflowPrework(t) \/ SyncAndUnderflowPrework(t, Sync[op[t]])
  BY <1>5, PreworkFlow DEF SyncAndOverflowPrework, SyncAndUnderflowPrework
<1>6. CASE ResolveSendOverflowTry(t) \/ ResolveReadUnderflowTry(t)
  BY <1>6, ResolveFlow DEF ResolveSendOverflowTry, ResolveReadUnderflowTry
<1>7. CASE WriteTail(t, "store", Sync.sent) \/ CountUp(t)
  BY <1>7, SendFlow DEF WriteTail, CountUp, syncVars
<1>8. CASE LoadHead(t) \/ MoveHead(t) \/ AdvanceHead(t) \/ CountDown(t)
  BY <1>8, ReadFlow DEF LoadHead, MoveHead, AdvanceHead, CountDown, syncVars
<1>9. CASE ReadReserved(t) \/ Close(t)
  BY <1>9 DEF ReadReserved, HasReserved, Close, FlowInv
<1>10. CASE Leave(t)
  BY <1>10, LeaveFlow DEF Leave
<1>11. QED
  BY <1>1, <1>2, <1>3, <1>4, <1>5, <1>6, <1>7, <1>8, <1>9, <1>10 DEF Step, Run, Proceed

-----------------------------------------------------------------------------
(* One thread of each side works on the ring: the only one of its side, or *)
(* the one that holds the mutex.                                           *)
LEMMA OneReader ==
  ASSUME Category # "MPMC", NEW s \in Threads, NEW t \in Threads,
         TodoInv(s), OpInv(s), FlowInv(s), TodoInv(t), OpInv(t), FlowInv(t),
         Reads(s), Reads(t)
  PROVE  s = t
<1>1. ASSUME NEW u \in Threads, TodoInv(u), OpInv(u), FlowInv(u), Reads(u)
      PROVE  u \in Consumers /\ op[u] \in ReadOps /\ Locked(u)
  <2>1. todo[u] = <<>> /\ pc[u] \in {"tryEmpty", "take", "move", "advance", "countDown"}
    BY <1>1 DEF Reads, TodoInv, Ready
  <2>2. QED
    BY <1>1, <2>1, NothingOwed DEF OpInv, FlowInv, Locked, Working
<1>2. /\ s \in Consumers /\ op[s] \in ReadOps /\ Locked(s)
      /\ t \in Consumers /\ op[t] \in ReadOps /\ Locked(t)
  BY <1>1
<1>3. CASE Category = "SPMC"
  <2>1. LockOps = ReadOps
    BY <1>3 DEF LockOps
  <2>2. QED
    BY <1>2, <2>1 DEF FlowInv
<1>4. CASE Category # "SPMC"
  BY <1>2, <1>4, CategoryAssumption, CategoryContract DEF SingleConsumer
<1>5. QED
  BY <1>3, <1>4

LEMMA OneWriter ==
  ASSUME Category # "MPMC", NEW s \in Threads, NEW t \in Threads,
         OpInv(s), FlowInv(s), OpInv(t), FlowInv(t), Writes(s), Writes(t)
  PROVE  s = t
<1>1. ASSUME NEW u \in Threads, OpInv(u), FlowInv(u), Writes(u)
      PROVE  u \in Producers /\ op[u] \in SendOps /\ Locked(u)
  <2>1. todo[u] = <<>> /\ pc[u] \in {"tryFull", "store"}
    BY <1>1 DEF Writes, Ready
  <2>2. QED
    BY <1>1, <2>1, NothingOwed DEF OpInv, FlowInv, Locked, Working
<1>2. /\ s \in Producers /\ op[s] \in SendOps /\ Locked(s)
      /\ t \in Producers /\ op[t] \in SendOps /\ Locked(t)
  BY <1>1
<1>3. CASE Category = "MPSC"
  <2>1. LockOps = SendOps
    BY <1>3 DEF LockOps
  <2>2. QED
    BY <1>2, <2>1 DEF FlowInv
<1>4. CASE Category # "MPSC"
  BY <1>2, <1>4, CategoryAssumption, CategoryContract DEF SingleProducer
<1>5. QED
  BY <1>3, <1>4

-----------------------------------------------------------------------------
(* The messages in the ring are bounded by the credits that stand for them.*)
LEMMA RingFinite ==
  /\ IsFiniteSet(RingCredits) /\ Cardinality(RingCredits) \in Nat
  /\ occupied \in Nat => Stored \in Nat
<1>1. RingCredits \subseteq Threads
  BY DEF RingCredits
<1>2. IsFiniteSet(RingCredits) /\ Cardinality(RingCredits) \in Nat
  BY <1>1, ThreadsAssumption, FS_Subset, FS_CardinalityType
<1>3. QED
  BY <1>2 DEF Stored

RingCredit(t) ==
  <<t, IF "occupied.release" \in Pending(t) THEN "occupied.release" ELSE "operation">>

LEMMA RingHolds ==
  ASSUME NEW t \in Threads, InRing(t)
  PROVE  /\ RingCredit(t) \in Held
         /\ Writes(t) /\ OpInv(t) => FALSE
<1>1. RingCredit(t) \in Held
  <2>1. CASE "occupied.release" \in Pending(t)
    BY <2>1, HeldElements, HoldsOf, Disjoint DEF RingCredit
  <2>2. CASE "occupied.release" \notin Pending(t)
    <3>1. AtWork(t)
      BY <2>2 DEF InRing
    <3>2. QED
      BY <2>2, <3>1, HeldElements, HoldsOf DEF RingCredit
  <2>3. QED
    BY <2>1, <2>2
<1>2. ASSUME Writes(t), OpInv(t) PROVE FALSE
  BY <1>2, PendingItems, Sides DEF Writes, OpInv, InRing
<1>3. QED
  BY <1>1, <1>2

LEMMA StoredBounds ==
  ASSUME BasicTypes, free + occupied + Cardinality(Held) = Capacity,
         \A t \in Threads : OpInv(t)
  PROVE  /\ Stored \in 0..Capacity
         /\ \A t \in Threads : Writes(t) => Stored < Capacity
         /\ \A t \in Threads : InRing(t) => Stored > 0
<1>1. /\ free \in Nat /\ occupied \in Nat /\ Capacity \in Nat /\ Cardinality(Held) \in Nat
      /\ IsFiniteSet(Held) /\ Stored \in Nat
      /\ Cardinality(RingCredits) \in Nat /\ IsFiniteSet(RingCredits)
      /\ Stored = occupied + Cardinality(RingCredits)
  BY RingFinite, HeldFinite, CapacityAssumption DEF BasicTypes, Stored
<1>2. ASSUME NEW T, IsFiniteSet(T), \A t \in RingCredits : RingCredit(t) \in T
      PROVE  Cardinality(RingCredits) <= Cardinality(T)
  <2> DEFINE f == [t \in RingCredits |-> RingCredit(t)]
  <2>1. f \in [RingCredits -> T]
    BY <1>2
  <2>2. \A s, t \in RingCredits : f[s] = f[t] => s = t
    BY DEF RingCredit
  <2>3. f \in Injection(RingCredits, T)
    BY <2>1, <2>2 DEF Injection, IsInjective
  <2> HIDE DEF f
  <2>4. QED
    BY <1>2, <2>3, FS_Injection
<1>3. Cardinality(RingCredits) <= Cardinality(Held)
  BY <1>1, <1>2, RingHolds DEF RingCredits
<1>4. ASSUME NEW t \in Threads, Writes(t) PROVE Stored < Capacity
  <2> DEFINE e == <<t, "operation">>
  <2>1. e \in Held
    <3>1. AtWork(t)
      BY <1>4, PendingItems DEF Writes, AtWork, Working
    <3>2. QED
      BY <3>1, HeldElements, HoldsOf
  <2>2. IsFiniteSet(Held \ {e}) /\ Cardinality(Held \ {e}) = Cardinality(Held) - 1
    BY <1>1, <2>1, FS_RemoveElement
  <2>3. \A s \in RingCredits : RingCredit(s) \in Held \ {e}
    <3>1. \A s \in RingCredits : s # t
      BY <1>4, RingHolds DEF RingCredits
    <3>2. QED
      BY <3>1, RingHolds DEF RingCredits, RingCredit
  <2>4. Cardinality(RingCredits) <= Cardinality(Held) - 1
    BY <1>2, <2>2, <2>3
  <2>5. QED
    BY <1>1, <2>4
<1>5. ASSUME NEW t \in Threads, InRing(t) PROVE Stored > 0
  <2>1. t \in RingCredits
    BY <1>5 DEF RingCredits
  <2>2. Cardinality(RingCredits) # 0
    BY <1>1, <2>1, FS_EmptySet
  <2>3. QED
    BY <1>1, <2>2
<1>6. Stored \in 0..Capacity
  BY <1>1, <1>3
<1>7. QED
  BY <1>4, <1>5, <1>6

-----------------------------------------------------------------------------
(* What a step does to the messages in the ring. *)
SameStored(t) ==
  \/ occupied' = occupied /\ (InRing(t)' <=> InRing(t))
  \/ occupied' = occupied + 1 /\ InRing(t) /\ ~InRing(t)'
  \/ occupied' = occupied - 1 /\ ~InRing(t) /\ InRing(t)'
OneMore(t) == occupied' = occupied /\ ~InRing(t) /\ InRing(t)'
OneLess(t) == occupied' = occupied /\ InRing(t) /\ ~InRing(t)'

LEMMA RingWhenReady ==
  ASSUME NEW t
  PROVE  /\ Ready(t) => (InRing(t) <=> op[t] \in ReadOps /\ pc[t] \in Working \ {"countDown"})
         /\ Ready(t)' =>
              (InRing(t)' <=> op'[t] \in ReadOps /\ pc'[t] \in Working \ {"countDown"})
  BY PendingItems DEF InRing, AtWork

(* In terms of the counter that lags behind. *)
LEMMA RingAndCount ==
  ASSUME NEW t
  PROVE  /\ OpInv(t) /\ pc[t] # "countDown" =>
              /\ op[t] \in ReadOps => (InRing(t) <=> StillCounts(t)) /\ ~Uncounts(t)
              /\ op[t] \notin ReadOps =>
                   (InRing(t) <=> pc[t] = "countUp" /\ ~Uncounts(t)) /\ ~StillCounts(t)
         /\ OpInv(t)' /\ pc'[t] # "countDown" =>
              /\ op'[t] \in ReadOps => (InRing(t)' <=> StillCounts(t)') /\ ~Uncounts(t)'
              /\ op'[t] \notin ReadOps =>
                   (InRing(t)' <=> pc'[t] = "countUp" /\ ~Uncounts(t)') /\ ~StillCounts(t)'
  BY Sides DEF OpInv, InRing, StillCounts, Uncounts

LEMMA SyncStepRing ==
  ASSUME BasicTypes, BasicTypes', NEW t \in Threads, TodoInv(t), OpInv(t), SyncStep(t),
         UNCHANGED <<ringVars, kept>>
  PROVE  SameStored(t)
<1>1. OpInv(t)' /\ Effect(t)
  BY SyncStepCounts
<1>2. /\ op'[t] = op[t] /\ count' = count /\ ~Ready(t) /\ pc[t] # "countDown"
      /\ pc'[t] = pc[t] \/ (pc'[t] = "return" /\ pc[t] # "countUp")
  <2>1. op'[t] = op[t] /\ count' = count /\ ~Ready(t)
    BY DEF SyncStep, AcquireFree, TryAcquireFreeFails, TakeFreeIfAny, ReleaseFree,
       AcquireOccupied, TryAcquireOccupiedFails, ReleaseOccupied, LockMutex,
       TryLockMutexFails, UnlockMutex, ReserveWriteSlot, ReserveReadSlot, Doing,
       callVars, ringVars
  <2>2. CASE TryAcquireFreeFails(t) \/ TryAcquireOccupiedFails(t) \/ TryLockMutexFails(t)
    <3>1. /\ GiveUp(t)
          /\ Head(todo[t]) \in {"free.try_acquire", "occupied.try_acquire", "mutex.try_lock"}
      BY <2>2 DEF TryAcquireFreeFails, TryAcquireOccupiedFails, TryLockMutexFails
    <3>2. Pending(t) \cap Acquires # {} /\ pc'[t] = "return"
      BY <2>1, <3>1, GivingUp
    <3>3. QED
      BY <2>1, <3>2 DEF TodoInv
  <2>3. CASE ~(TryAcquireFreeFails(t) \/ TryAcquireOccupiedFails(t) \/ TryLockMutexFails(t))
    <3>1. pc' = pc
      BY <2>3 DEF SyncStep, AcquireFree, TakeFreeIfAny, ReleaseFree,
         AcquireOccupied, ReleaseOccupied, LockMutex, UnlockMutex,
         ReserveWriteSlot, ReserveReadSlot, callVars
    <3>2. QED
      BY <2>1, <3>1 DEF TodoInv
  <2>4. QED
    BY <2>2, <2>3
<1>3. count \in Nat /\ count # (count + 1) % CountModulus /\ count # (count - 1) % CountModulus
  <2>1. CountModulus \in Nat /\ CountModulus > 1 /\ count \in 0..(CountModulus - 1)
    BY CountIn DEF BasicTypes, RingTypeOK
  <2>2. QED
    BY <2>1
<1>4. SameCounts(t) \/ Publishes(t) \/ TakesCredit(t)
  BY <1>1, <1>2, <1>3 DEF Effect, CountsUp, CountsDown
<1>5. /\ op[t] \in ReadOps => /\ InRing(t) <=> StillCounts(t)
                              /\ InRing(t)' <=> StillCounts(t)'
                              /\ ~Uncounts(t) /\ ~Uncounts(t)'
      /\ op[t] \notin ReadOps => /\ InRing(t) <=> pc[t] = "countUp" /\ ~Uncounts(t)
                                 /\ InRing(t)' <=> pc'[t] = "countUp" /\ ~Uncounts(t)'
                                 /\ ~StillCounts(t) /\ ~StillCounts(t)'
  <2>1. pc'[t] # "countDown"
    BY <1>2
  <2>2. QED
    BY <1>1, <1>2, <2>1, RingAndCount
<1>6. Uncounts(t) => pc[t] = "countUp"
  BY DEF Uncounts
<1>7. Uncounts(t)' => pc'[t] = "countUp"
  BY DEF Uncounts
<1>8. QED
  BY <1>2, <1>4, <1>5, <1>6, <1>7 DEF SameStored, SameCounts, Publishes, TakesCredit

(* A step that leaves the ring and those who read it alone. *)
QuietRing(t) ==
  /\ UNCHANGED <<buffer, head, tail, cleared>>
  /\ pc[t] \notin {"move", "advance"} /\ pc'[t] # "advance"
  /\ pc'[t] = "move" => index'[t] = head
  /\ pc[t] = "store" => ~Ready(t)

RingKinds(t) ==
  \/ SameStored(t) /\ QuietRing(t)
  \/ OneMore(t) /\ WriteTail(t, "store", Sync.sent)
  \/ SameStored(t) /\ MoveHead(t)
  \/ OneLess(t) /\ AdvanceHead(t)

LEMMA StepRing ==
  ASSUME InOrder, BasicTypes, BasicTypes', NEW t \in Threads,
         TodoInv(t), OpInv(t), OpInv(t)', FlowInv(t),
         pc[t] = "advance" => index[t] = head, Step(t)
  PROVE  RingKinds(t)
<1> USE DEF RingKinds
<1>1. CASE SyncStep(t) /\ UNCHANGED <<ringVars, kept>>
  <2>1. SameStored(t)
    BY <1>1, SyncStepRing
  <2>2. /\ pc[t] \notin {"move", "advance"} /\ (pc'[t] = pc[t] \/ pc'[t] = "return")
        /\ ~Ready(t)
    <3>1. ~Ready(t) /\ (pc' = pc \/ GiveUp(t))
      BY <1>1 DEF SyncStep, AcquireFree, TryAcquireFreeFails, TakeFreeIfAny, ReleaseFree,
       AcquireOccupied, TryAcquireOccupiedFails, ReleaseOccupied, LockMutex,
       TryLockMutexFails, UnlockMutex, ReserveWriteSlot, ReserveReadSlot, Doing, callVars
    <3>2. QED
      BY <3>1 DEF TodoInv, GiveUp, Finish, Goto, BasicTypes, CallTypeOK
  <2>3. QED
    BY <1>1, <2>1, <2>2 DEF QuietRing, ringVars
<1>2. CASE Emplace(t) \/ StoreMessageThrows(t) \/ PopMessageThrows(t)
  BY <1>2 DEF Emplace, Replaced, StoreMessageThrows, PopMessageThrows, OpInv, InOrder
<1>3. CASE Close(t)
  BY <1>3 DEF Close, FlowInv
<1>4. CASE ReadReserved(t)
  BY <1>4 DEF ReadReserved, HasReserved, FlowInv
\* A call that is neither at work nor about to count.
<1>5. CASE \/ Call(t) \/ CheckSendDeadlockPossibility(t) \/ CheckReadDeadlockPossibility(t)
           \/ Leave(t)
  <2>1. /\ pc[t] \in {"idle", "check", "return"}
        /\ pc'[t] \in {"check", "return", "close", "sync", "idle"}
        /\ todo' = todo /\ occupied' = occupied /\ UNCHANGED <<buffer, head, tail, cleared>>
    BY <1>5 DEF Call, CallSend, CallRead, CallClose, Enter, AccountThreads,
       CheckSendDeadlockPossibility, CheckReadDeadlockPossibility, AfterCheck,
       HandleDeadlock, Leave, Return, Finish, Goto, BasicTypes, CallTypeOK, syncVars, ringVars
  <2>2. Ready(t)
    BY <1>5, <2>1 DEF TodoInv, Leave, Call, CallSend, CallRead, CallClose, Enter,
       CheckSendDeadlockPossibility, CheckReadDeadlockPossibility, AfterCheck
  <2>3. Ready(t)'
    BY <2>1, <2>2 DEF Ready
  <2>4. ~InRing(t) /\ ~InRing(t)'
    BY <2>1, <2>2, <2>3, RingWhenReady DEF Working
  <2>5. QED
    BY <2>1, <2>4 DEF SameStored, QuietRing
<1>6. CASE SyncAndOverflowPrework(t) \/ SyncAndUnderflowPrework(t, Sync[op[t]])
  <2>1. /\ Perform(t, Sync[op[t]]) /\ pc[t] = "sync" /\ op[t] \in SendOps \cup ReadOps
        /\ occupied' = occupied /\ pc'[t] \in AcquireLabels
        /\ UNCHANGED <<buffer, head, tail, cleared>>
    BY <1>6 DEF SyncAndOverflowPrework, SyncAndUnderflowPrework, ringVars, Goto,
       BasicTypes, CallTypeOK, AcquireLabels
  <2>2. todo'[t] = Sync[op[t]] /\ Acquiring(todo'[t])
    BY <2>1, PerformTyped, ProgramsTyped, SyncTable
  <2>3. Pending(t)' \cap Releases = {} /\ Pending(t)' \cap Acquires # {}
    BY <2>2, PendingItems DEF Acquiring
  <2>4. ~InRing(t)'
    BY <2>3, Disjoint DEF InRing, AtWork
  <2>5. ~InRing(t)
    BY <2>1, RingWhenReady DEF TodoInv, Working
  <2>6. QED
    BY <2>1, <2>4, <2>5 DEF SameStored, QuietRing, AcquireLabels
<1>7. CASE ResolveSendOverflowTry(t) \/ CountUp(t)
  <2>1. /\ Ready(t) /\ pc[t] \in {"tryFull", "countUp"} /\ op'[t] = op[t]
        /\ occupied' = occupied /\ UNCHANGED <<buffer, head, tail, cleared>>
        /\ pc'[t] \in {"store", "return"}
    BY <1>7 DEF ResolveSendOverflowTry, CountUp, ringVars, syncVars, Finish, Goto,
       BasicTypes, CallTypeOK
  <2>2. op[t] \in SendOps
    BY <2>1 DEF OpInv
  <2>3. ~InRing(t)
    BY <2>1, <2>2, RingWhenReady, Sides
  <2>4. "occupied.release" \notin Pending(t)'
    BY <2>1, <2>2, Sides DEF OpInv
  <2>5. ~InRing(t)'
    BY <2>1, <2>2, <2>4, Sides DEF InRing
  <2>6. QED
    BY <2>1, <2>3, <2>5 DEF SameStored, QuietRing
<1>8. CASE ResolveReadUnderflowTry(t)
  <2>1. /\ Ready(t) /\ pc[t] = "tryEmpty" /\ op'[t] = op[t]
        /\ occupied' = occupied /\ UNCHANGED <<buffer, head, tail, cleared>>
        /\ \/ todo' = todo /\ pc'[t] = "take"
           \/ pc'[t] = "return" /\ Perform(t, Sync.cancelRead)
    BY <1>8 DEF ResolveReadUnderflowTry, ringVars, Finish, Goto, BasicTypes, CallTypeOK
  <2>2. op[t] \in ReadOps
    BY <2>1 DEF OpInv
  <2>3. InRing(t)
    BY <2>1, <2>2, RingWhenReady DEF Working
  <2>4. InRing(t)'
    <3>1. CASE todo' = todo /\ pc'[t] = "take"
      BY <2>1, <2>2, <3>1, RingWhenReady DEF Working, Ready
    <3>2. CASE pc'[t] = "return" /\ Perform(t, Sync.cancelRead)
      BY <3>2, SyncTable, PerformsReleasing, Disjoint DEF InRing
    <3>3. QED
      BY <2>1, <3>1, <3>2
  <2>5. QED
    BY <2>1, <2>3, <2>4 DEF SameStored, QuietRing
<1>9. CASE WriteTail(t, "store", Sync.sent)
  <2>1. Ready(t) /\ pc[t] = "store" /\ occupied' = occupied /\ Perform(t, Sync.sent)
    BY <1>9 DEF WriteTail
  <2>2. ~InRing(t)
    BY <2>1, RingWhenReady, Sides DEF OpInv
  <2>3. InRing(t)'
    BY <2>1, SyncTable, PerformsReleasing, Disjoint DEF InRing
  <2>4. QED
    BY <1>9, <2>1, <2>2, <2>3 DEF OneMore
<1>10. CASE LoadHead(t) \/ MoveHead(t) \/ AdvanceHead(t) \/ CountDown(t)
  <2>1. /\ Ready(t) /\ pc[t] \in {"take", "move", "advance", "countDown"}
        /\ op'[t] = op[t] /\ occupied' = occupied
    BY <1>10 DEF LoadHead, MoveHead, AdvanceHead, CountDown, TodoInv, syncVars
  <2>2. op[t] \in ReadOps
    BY <2>1 DEF OpInv
  <2>3. pc[t] # "countDown" => InRing(t)
    BY <2>1, <2>2, RingWhenReady DEF Working
  <2>4. CASE LoadHead(t)
    <3>1. /\ pc[t] = "take" /\ pc'[t] = "move" /\ index'[t] = head /\ todo' = todo
          /\ UNCHANGED <<buffer, head, tail, cleared>>
      BY <2>4 DEF LoadHead, LoadIndex, Goto, BasicTypes, CallTypeOK, ringVars
    <3>2. InRing(t)'
      BY <2>1, <2>2, <3>1, RingWhenReady DEF Working, Ready
    <3>3. QED
      BY <2>1, <2>3, <3>1, <3>2 DEF SameStored, QuietRing
  <2>5. CASE MoveHead(t)
    <3>1. pc[t] = "move" /\ pc'[t] = "advance" /\ todo' = todo
      BY <2>5 DEF MoveHead, Goto, BasicTypes, CallTypeOK, syncVars
    <3>2. InRing(t)'
      BY <2>1, <2>2, <3>1, RingWhenReady DEF Working, Ready
    <3>3. QED
      BY <2>1, <2>3, <2>5, <3>1, <3>2 DEF SameStored
  <2>6. CASE AdvanceHead(t)
    <3>1. pc[t] = "advance" /\ pc'[t] = "countDown" /\ todo' = todo
      BY <2>6 DEF AdvanceHead, Goto, BasicTypes, CallTypeOK, InOrder
    <3>2. ~InRing(t)'
      BY <2>1, <3>1, RingWhenReady DEF Ready
    <3>3. QED
      BY <2>1, <2>3, <2>6, <3>1, <3>2 DEF OneLess
  <2>7. CASE CountDown(t)
    <3>1. /\ pc[t] = "countDown" /\ pc'[t] = "return" /\ Perform(t, Sync.read)
          /\ UNCHANGED <<buffer, head, tail, cleared>>
      BY <2>7 DEF CountDown, Goto, BasicTypes, CallTypeOK
    <3>2. ~InRing(t)
      BY <2>1, <3>1, RingWhenReady
    <3>3. ~InRing(t)'
      BY <3>1, SyncTable, PerformsReleasing, Disjoint DEF InRing, AtWork, Working
    <3>4. QED
      BY <2>1, <3>1, <3>2, <3>3 DEF SameStored, QuietRing
  <2>8. QED
    BY <1>10, <2>4, <2>5, <2>6, <2>7
<1>11. QED
  BY <1>1, <1>2, <1>3, <1>4, <1>5, <1>6, <1>7, <1>8, <1>9, <1>10 DEF Step, Run, Proceed

LEMMA StoredMoves ==
  ASSUME NEW t \in Threads, Others(t), occupied \in Nat, occupied' \in Nat
  PROVE  /\ SameStored(t) => Stored' = Stored
         /\ OneMore(t) => Stored' = Stored + 1
         /\ OneLess(t) => Stored' = Stored - 1
<1>1. /\ \A s : s # t => (s \in RingCredits' <=> s \in RingCredits)
      /\ t \in RingCredits <=> InRing(t)
      /\ t \in RingCredits' <=> InRing(t)'
  <2>1. \A s \in Threads \ {t} : InRing(s)' <=> InRing(s)
    BY DEF Others, InRing, AtWork, Pending
  <2>2. QED
    BY <2>1 DEF RingCredits
<1>2. /\ (InRing(t)' <=> InRing(t)) => Cardinality(RingCredits') = Cardinality(RingCredits)
      /\ ~InRing(t) /\ InRing(t)' => Cardinality(RingCredits') = Cardinality(RingCredits) + 1
      /\ InRing(t) /\ ~InRing(t)' => Cardinality(RingCredits') = Cardinality(RingCredits) - 1
  BY <1>1, RingFinite, SetStays, SetGains, SetLoses
<1>3. /\ Stored = occupied + Cardinality(RingCredits)
      /\ Stored' = occupied' + Cardinality(RingCredits')
      /\ Cardinality(RingCredits) \in Nat
  BY RingFinite DEF Stored
<1>4. QED
  BY <1>2, <1>3 DEF SameStored, OneMore, OneLess

-----------------------------------------------------------------------------
(* The slots, and what a step does to them. *)
LEMMA SoleReader ==
  ASSUME Category # "MPMC", Inv, CountInv, FifoInv, NEW s \in Threads, NEW t \in Threads,
         pc[s] \in {"move", "advance"}, pc[t] \in {"move", "advance"}
  PROVE  s = t
  BY OneReader DEF Inv, CountInv, FifoInv, Reads

(* A reader that has moved the message out of slot i, and not yet advanced. *)
MovedFrom(t, i) == pc[t] = "advance" /\ index[t] = i /\ head = i

LEMMA CellOf ==
  ASSUME NEW i
  PROVE  /\ (\A t \in Threads : ~MovedFrom(t, i)) => Cell(i) = buffer[i]
         /\ \A t \in Threads :
              MovedFrom(t, i) /\ (\A s \in Threads : MovedFrom(s, i) => s = t) => Cell(i) = msg[t]
         /\ (\A t \in Threads : ~MovedFrom(t, i)') => Cell(i)' = buffer'[i]
         /\ \A t \in Threads :
              MovedFrom(t, i)' /\ (\A s \in Threads : MovedFrom(s, i)' => s = t) => Cell(i)' = msg'[t]
<1> DEFINE M == {t \in Threads : MovedFrom(t, i)}
<1>1. /\ Cell(i) = IF M = {} THEN buffer[i] ELSE msg[CHOOSE t \in M : TRUE]
      /\ Cell(i)' = IF M' = {} THEN buffer'[i] ELSE msg'[CHOOSE t \in M' : TRUE]
  BY DEF Cell, Content, MovedFrom
<1>2. \A t \in Threads :
        /\ MovedFrom(t, i) /\ (\A s \in Threads : MovedFrom(s, i) => s = t) => M = {t}
        /\ MovedFrom(t, i)' /\ (\A s \in Threads : MovedFrom(s, i)' => s = t) => M' = {t}
  OBVIOUS
<1>3. /\ (\A t \in Threads : ~MovedFrom(t, i)) => M = {}
      /\ (\A t \in Threads : ~MovedFrom(t, i)') => M' = {}
  OBVIOUS
<1>4. \A t : (CHOOSE x \in {t} : TRUE) = t
  OBVIOUS
<1> HIDE DEF M
<1>5. QED
  BY <1>1, <1>2, <1>3, <1>4

(* A cell is the slot, but for a message on its way out. *)
LEMMA CellIs ==
  ASSUME Category # "MPMC", Inv, CountInv, FifoInv, NEW i \in Slots
  PROVE  /\ (i # head \/ \A t \in Threads : pc[t] # "advance") => Cell(i) = buffer[i]
         /\ \A t \in Threads : pc[t] = "advance" => Cell(head) = msg[t]
<1>1. \A s, t \in Threads : MovedFrom(s, head) /\ MovedFrom(t, head) => s = t
  BY SoleReader DEF MovedFrom
<1>2. \A t \in Threads : pc[t] = "advance" => MovedFrom(t, head)
  BY DEF FifoInv, RingInv, MovedFrom
<1>3. (i # head \/ \A t \in Threads : pc[t] # "advance") => \A t \in Threads : ~MovedFrom(t, i)
  BY DEF MovedFrom
<1>4. QED
  BY <1>1, <1>2, <1>3, CellOf

(* The same after a step. *)
LEMMA CellIsThen ==
  ASSUME NEW i
  PROVE  /\ (\A t \in Threads : ~(pc'[t] = "advance" /\ index'[t] = i /\ head' = i)) =>
              Cell(i)' = buffer'[i]
         /\ \A t \in Threads :
              /\ pc'[t] = "advance" /\ index'[t] = i /\ head' = i
              /\ \A s \in Threads : pc'[s] = "advance" => s = t
              => Cell(i)' = msg'[t]
<1>1. \A t : MovedFrom(t, i)' <=> pc'[t] = "advance" /\ index'[t] = i /\ head' = i
  BY DEF MovedFrom
<1>2. QED
  BY <1>1, CellOf

(* Distances around the ring. *)
LEMMA FarMath ==
  /\ \A i, h \in Slots : Far(i, h) \in Slots /\ (Far(i, h) = 0 <=> i = h)
  /\ \A i, j, h \in Slots : Far(i, h) = Far(j, h) => i = j
  /\ \A i, h \in Slots :
       Far(i, Succ(h)) = IF i = h THEN Capacity - 1 ELSE Far(i, h) - 1
  /\ \A i, h \in Slots :
       IF Far(i, h) = Capacity - 1 THEN Succ(i) = h ELSE Far(Succ(i), h) = Far(i, h) + 1
<1>1. Capacity \in Nat /\ Capacity > 0
  BY CapacityAssumption
<1>2. \A i \in Slots : Succ(i) = IF i = Capacity - 1 THEN 0 ELSE i + 1
  BY <1>1 DEF Slots, Succ
<1>3. \A i, h \in Slots : Far(i, h) \in Slots /\ (Far(i, h) = 0 <=> i = h)
  BY <1>1 DEF Slots, Far
<1>4. \A i, j, h \in Slots : Far(i, h) = Far(j, h) => i = j
  BY <1>1 DEF Slots, Far
<1>5. ASSUME NEW i \in Slots, NEW h \in Slots
      PROVE  Far(i, Succ(h)) = IF i = h THEN Capacity - 1 ELSE Far(i, h) - 1
  <2>1. CASE h = Capacity - 1
    BY <1>1, <1>2, <2>1 DEF Slots, Far
  <2>2. CASE h # Capacity - 1
    BY <1>1, <1>2, <2>2 DEF Slots, Far
  <2>3. QED
    BY <2>1, <2>2
<1>6. ASSUME NEW i \in Slots, NEW h \in Slots
      PROVE  IF Far(i, h) = Capacity - 1 THEN Succ(i) = h ELSE Far(Succ(i), h) = Far(i, h) + 1
  <2>1. CASE i = Capacity - 1
    BY <1>1, <1>2, <2>1 DEF Slots, Far
  <2>2. CASE i # Capacity - 1
    BY <1>1, <1>2, <2>2 DEF Slots, Far
  <2>3. QED
    BY <2>1, <2>2
<1>7. QED
  BY <1>3, <1>4, <1>5, <1>6

(* The readers that are between the move and the advance. *)
Between ==
  /\ \A t \in Threads : pc[t] \in {"move", "advance"} => index[t] = head
  /\ \A t \in Threads : pc[t] = "advance" => buffer[head] = NoMessage

(* The messages of the cells are contiguous from the head on. *)
Contiguous ==
  /\ IF Stored = Capacity THEN tail = head ELSE Dist(tail) = Stored
  /\ \A i \in Slots : Cell(i) # NoMessage <=> Dist(i) < Stored

LEMMA RingParts ==
  /\ RingInv <=> ~cleared /\ Between /\ Contiguous
  /\ RingInv' <=> ~cleared' /\ Between' /\ Contiguous'
  BY DEF RingInv, Between, Contiguous

Bounds ==
  /\ Stored \in 0..Capacity
  /\ \A t \in Threads : Writes(t) => Stored < Capacity
  /\ \A t \in Threads : InRing(t) => Stored > 0

(* What the ring step of a thread does to the cells. *)
Stays ==
  /\ head' = head /\ tail' = tail
  /\ \A i \in Slots : Cell(i)' = Cell(i)
StoredAt(m) ==
  /\ head' = head /\ tail' = Succ(tail) /\ m # NoMessage
  /\ \A i \in Slots : Cell(i)' = IF i = tail THEN m ELSE Cell(i)
TakenFrom ==
  /\ head' = Succ(head) /\ tail' = tail
  /\ \A i \in Slots : Cell(i)' = IF i = head THEN NoMessage ELSE Cell(i)

LEMMA ContiguousKept ==
  ASSUME head \in Slots, tail \in Slots, Bounds, Contiguous
  PROVE  /\ Stays /\ Stored' = Stored => Contiguous'
         /\ \A m : StoredAt(m) /\ Stored < Capacity /\ Stored' = Stored + 1 => Contiguous'
         /\ TakenFrom /\ Stored > 0 /\ Stored' = Stored - 1 => Contiguous'
<1>1. Capacity \in Nat /\ Capacity > 0 /\ Stored \in 0..Capacity
  BY CapacityAssumption DEF Bounds
<1>2. ASSUME Stays, Stored' = Stored PROVE Contiguous'
  BY <1>2 DEF Stays, Contiguous, Dist
<1>3. ASSUME NEW m, StoredAt(m), Stored < Capacity, Stored' = Stored + 1 PROVE Contiguous'
  <2>1. Far(tail, head) = Stored /\ head' = head /\ tail' = Succ(tail)
    BY <1>1, <1>3 DEF Contiguous, StoredAt, Dist
  <2>2. IF Stored = Capacity - 1 THEN tail' = head' ELSE Far(tail', head') = Stored + 1
    BY <2>1, FarMath
  <2>3. IF Stored' = Capacity THEN tail' = head' ELSE Far(tail', head') = Stored'
    BY <1>1, <1>3, <2>2
  <2>4. ASSUME NEW i \in Slots
        PROVE  Cell(i)' # NoMessage <=> Far(i, head') < Stored'
    <3>1. Far(i, head) \in Nat /\ (Far(i, head) = Stored => i = tail)
      BY <2>1, FarMath DEF Slots
    <3>2. Cell(i) # NoMessage <=> Far(i, head) < Stored
      BY DEF Contiguous, Dist
    <3>3. Cell(i)' = (IF i = tail THEN m ELSE Cell(i)) /\ m # NoMessage
      BY <1>3 DEF StoredAt
    <3>4. QED
      BY <1>1, <1>3, <2>1, <3>1, <3>2, <3>3
  <2>5. QED
    BY <2>3, <2>4 DEF Contiguous, Dist
<1>4. ASSUME TakenFrom, Stored > 0, Stored' = Stored - 1 PROVE Contiguous'
  <2>1. head' = Succ(head) /\ tail' = tail
    BY <1>4 DEF TakenFrom
  <2>2. Far(tail, Succ(head)) = Stored - 1
    <3>1. CASE Stored = Capacity
      <4>1. tail = head
        BY <3>1 DEF Contiguous
      <4>2. QED
        BY <3>1, <4>1, FarMath
    <3>2. CASE Stored # Capacity
      <4>1. Far(tail, head) = Stored
        BY <3>2 DEF Contiguous, Dist
      <4>2. tail # head
        BY <1>4, <4>1, FarMath
      <4>3. QED
        BY <4>1, <4>2, FarMath
    <3>3. QED
      BY <3>1, <3>2
  <2>3. IF Stored' = Capacity THEN tail' = head' ELSE Far(tail', head') = Stored'
    BY <1>1, <1>4, <2>1, <2>2
  <2>4. ASSUME NEW i \in Slots
        PROVE  Cell(i)' # NoMessage <=> Far(i, head') < Stored'
    <3>1. /\ Far(i, head) \in Nat
          /\ Far(i, head') = IF i = head THEN Capacity - 1 ELSE Far(i, head) - 1
      <4>1. /\ Far(i, head) \in Slots
            /\ Far(i, Succ(head)) = IF i = head THEN Capacity - 1 ELSE Far(i, head) - 1
        BY FarMath
      <4>2. Slots \subseteq Nat
        BY <1>1 DEF Slots
      <4>3. QED
        BY <2>1, <4>1, <4>2
    <3>2. Cell(i) # NoMessage <=> Far(i, head) < Stored
      BY DEF Contiguous, Dist
    <3>3. Cell(i)' = IF i = head THEN NoMessage ELSE Cell(i)
      BY <1>4 DEF TakenFrom
    <3>4. CASE i = head
      <4>1. Far(i, head') = Capacity - 1 /\ Cell(i)' = NoMessage
        BY <3>1, <3>3, <3>4
      <4>2. ~(Capacity - 1 < Stored')
        BY ONLY <1>1, <1>4
      <4>3. QED
        BY <4>1, <4>2
    <3>5. CASE i # head
      <4>1. /\ Far(i, head') = Far(i, head) - 1 /\ Cell(i)' = Cell(i)
            /\ Stored \in Nat /\ Far(i, head) \in Nat
        BY <1>1, <3>1, <3>3, <3>5
      <4>2. Far(i, head) < Stored <=> Far(i, head') < Stored'
        BY ONLY <1>4, <4>1
      <4>3. QED
        BY <3>2, <4>1, <4>2
    <3>6. QED
      BY <3>4, <3>5
  <2>5. QED
    BY <2>3, <2>4 DEF Contiguous, Dist
<1>5. QED
  BY <1>2, <1>3, <1>4

LEMMA BoundsHold ==
  ASSUME Inv, CountInv
  PROVE  Bounds
<1>1. BasicTypes /\ free + occupied + Cardinality(Held) = Capacity
      /\ \A t \in Threads : OpInv(t)
  BY DEF Inv, CreditsConserved, Held, CountInv
<1>2. QED
  BY <1>1, StoredBounds DEF Bounds

(* What the invariants say of the thread that moves. *)
LEMMA AtTheRing ==
  ASSUME Inv, CountInv, FifoInv, NEW t \in Threads
  PROVE  /\ pc[t] = "store" =>
              op[t] \in SendOps /\ index[t] = NoSlot /\ msg[t] \in Messages /\ msg[t] # NoMessage
         /\ pc[t] \in {"move", "advance"} =>
              op[t] \in ReadOps /\ index[t] = head /\ InRing(t) /\ head \in Slots
         /\ pc[t] = "advance" => msg[t] # NoMessage /\ buffer[head] = NoMessage
<1>1. TodoInv(t) /\ OpInv(t) /\ FlowInv(t) /\ RingInv /\ BasicTypes
  BY DEF Inv, CountInv, FifoInv
<1>2. ASSUME pc[t] = "store"
      PROVE  op[t] \in SendOps /\ index[t] = NoSlot /\ msg[t] \in Messages /\ msg[t] # NoMessage
  <2>1. op[t] \in SendOps /\ index[t] = NoSlot /\ outcome[t] = "none"
    BY <1>1, <1>2 DEF OpInv, FlowInv, Undecided
  <2>2. QED
    BY <1>1, <2>1, MessagesAssumption DEF FlowInv
<1>3. ASSUME pc[t] \in {"move", "advance"}
      PROVE  op[t] \in ReadOps /\ index[t] = head /\ InRing(t) /\ head \in Slots
  <2>1. op[t] \in ReadOps /\ index[t] = head /\ Ready(t) /\ head \in Slots
    BY <1>1, <1>3 DEF OpInv, TodoInv, RingInv, BasicTypes, RingTypeOK
  <2>2. QED
    BY <1>3, <2>1, RingWhenReady DEF Working
<1>4. ASSUME pc[t] = "advance" PROVE msg[t] # NoMessage /\ buffer[head] = NoMessage
  <2>1. op[t] \in ReadOps
    BY <1>3, <1>4
  <2>2. QED
    BY <1>1, <1>4, <2>1 DEF FlowInv, RingInv
<1>5. QED
  BY <1>2, <1>3, <1>4

LEMMA QuietCells ==
  ASSUME Inv, CountInv, FifoInv, NEW t \in Threads, Others(t), QuietRing(t),
         \A s \in Threads \ {t} : msg'[s] = msg[s]
  PROVE  Stays /\ Between'
<1>1. UNCHANGED <<buffer, head, tail>>
  BY DEF QuietRing
<1>2. ASSUME NEW i \in Slots PROVE Cell(i)' = Cell(i)
  <2> DEFINE M == {s \in Threads : MovedFrom(s, i)}
  <2>1. /\ Cell(i) = IF M = {} THEN buffer[i] ELSE msg[CHOOSE s \in M : TRUE]
        /\ Cell(i)' = IF M' = {} THEN buffer'[i] ELSE msg'[CHOOSE s \in M' : TRUE]
    BY DEF Cell, Content, MovedFrom
  <2>2. \A s \in Threads : MovedFrom(s, i)' <=> MovedFrom(s, i)
    BY <1>1 DEF MovedFrom, Others, QuietRing
  <2>3. M' = M /\ t \notin M
    BY <2>2 DEF QuietRing, MovedFrom
  <2>4. M # {} => (CHOOSE s \in M : TRUE) \in Threads \ {t}
    BY <2>3
  <2> HIDE DEF M
  <2>5. QED
    BY <1>1, <2>1, <2>3, <2>4
<1>3. \A s \in Threads : pc'[s] \in {"move", "advance"} => index'[s] = head'
  BY <1>1 DEF Others, QuietRing, FifoInv, RingInv
<1>4. \A s \in Threads : pc'[s] = "advance" => buffer'[head'] = NoMessage
  BY <1>1 DEF Others, QuietRing, FifoInv, RingInv
<1>5. QED
  BY <1>1, <1>2, <1>3, <1>4 DEF Stays, Between

LEMMA StoreCells ==
  ASSUME Category # "MPMC", Inv, CountInv, FifoInv, NEW t \in Threads, Others(t),
         WriteTail(t, "store", Sync.sent), \A s \in Threads \ {t} : msg'[s] = msg[s]
  PROVE  /\ StoredAt(msg[t]) /\ Stored < Capacity /\ Between'
         /\ msg[t] \in Messages /\ op[t] \in SendOps
<1>1. /\ pc[t] = "store" /\ Ready(t) /\ head' = head
      /\ buffer' = [buffer EXCEPT ![WriteIndex(t)] = msg[t]]
      /\ tail' = IF HasReserved(t) THEN tail ELSE Succ(tail)
      /\ pc'[t] = "countUp"
  BY DEF WriteTail, Goto, Inv, BasicTypes, CallTypeOK
<1>2. op[t] \in SendOps /\ index[t] = NoSlot /\ msg[t] \in Messages /\ msg[t] # NoMessage
  BY <1>1, AtTheRing
<1>3. /\ tail' = Succ(tail) /\ buffer' = [buffer EXCEPT ![tail] = msg[t]]
      /\ buffer \in [Slots -> Messages \cup {NoMessage}] /\ head \in Slots /\ tail \in Slots
  BY <1>1, <1>2 DEF HasReserved, WriteIndex, Inv, BasicTypes, RingTypeOK
<1>4. Stored < Capacity /\ Stored \in 0..Capacity /\ (\A s \in Threads : InRing(s) => Stored > 0)
  BY <1>1, BoundsHold DEF Bounds, Writes
<1>5. \A s \in Threads : pc[s] = "advance" => tail # head
  <2>1. Stored # Capacity /\ Capacity \in Nat
    BY <1>4, CapacityAssumption
  <2>2. Far(tail, head) = Stored
    BY <2>1 DEF FifoInv, RingInv, Dist
  <2>3. SUFFICES ASSUME NEW s \in Threads, pc[s] = "advance" PROVE tail # head
    OBVIOUS
  <2>4. Stored > 0
    BY <1>4, <2>3, AtTheRing
  <2>5. QED
    BY <1>3, <1>4, <2>2, <2>4, FarMath
<1>6. \A s \in Threads : pc'[s] = "advance" => s # t /\ pc[s] = "advance"
  BY <1>1 DEF Others
<1>7. ASSUME NEW i \in Slots PROVE Cell(i)' = IF i = tail THEN msg[t] ELSE Cell(i)
  <2>1. CASE i = head /\ \E s \in Threads : pc[s] = "advance"
    <3>1. PICK s \in Threads : pc[s] = "advance"
      BY <2>1
    <3>2. s # t /\ index[s] = head
      BY <1>1, <3>1, AtTheRing
    <3>3. pc'[s] = "advance" /\ index'[s] = head' /\ msg'[s] = msg[s]
      BY <1>1, <3>1, <3>2 DEF Others
    <3>4. \A u \in Threads : pc'[u] = "advance" => u = s
      BY <1>6, <3>1, SoleReader
    <3>5. Cell(i)' = msg'[s]
      BY <1>1, <2>1, <3>3, <3>4, CellIsThen
    <3>6. Cell(i) = msg[s] /\ i # tail
      BY <1>5, <2>1, <3>1, CellIs
    <3>7. QED
      BY <3>3, <3>5, <3>6
  <2>2. CASE i # head \/ ~\E s \in Threads : pc[s] = "advance"
    <3>1. Cell(i) = buffer[i]
      BY <2>2, CellIs
    <3>2. \A s \in Threads : ~(pc'[s] = "advance" /\ index'[s] = i /\ head' = i)
      BY <1>1, <1>6, <2>2
    <3>3. Cell(i)' = buffer'[i]
      BY <3>2, CellIsThen
    <3>4. QED
      BY <1>3, <3>1, <3>3
  <2>3. QED
    BY <2>1, <2>2
<1>8. StoredAt(msg[t])
  BY <1>1, <1>2, <1>3, <1>7 DEF StoredAt
<1>9. ASSUME NEW s \in Threads, pc'[s] \in {"move", "advance"}
      PROVE  index'[s] = head' /\ (pc'[s] = "advance" => buffer'[head'] = NoMessage)
  <2>1. s # t
    BY <1>1, <1>9
  <2>2. pc[s] = pc'[s] /\ index'[s] = index[s]
    BY <2>1 DEF Others
  <2>3. index[s] = head /\ (pc[s] = "advance" => buffer[head] = NoMessage)
    BY <1>9, <2>2, AtTheRing
  <2>4. pc[s] = "advance" => buffer'[head] = buffer[head]
    BY <1>3, <1>5
  <2>5. QED
    BY <1>1, <2>2, <2>3, <2>4
<1>10. Between'
  BY <1>9 DEF Between
<1>11. QED
  BY <1>2, <1>4, <1>8, <1>10

LEMMA MoveCells ==
  ASSUME Category # "MPMC", Inv, CountInv, FifoInv, NEW t \in Threads, Others(t), MoveHead(t)
  PROVE  Stays /\ Between'
<1>1. /\ pc[t] = "move" /\ pc'[t] = "advance" /\ index' = index
      /\ head' = head /\ tail' = tail
  BY DEF MoveHead, Goto, Inv, BasicTypes, CallTypeOK, syncVars
<1>2. index[t] = head /\ head \in Slots
  BY <1>1, AtTheRing
<1>3. /\ msg'[t] = buffer[head] /\ buffer' = [buffer EXCEPT ![head] = NoMessage]
      /\ buffer \in [Slots -> Messages \cup {NoMessage}]
  BY <1>2 DEF MoveHead, MoveOut, Inv, BasicTypes, CallTypeOK, RingTypeOK
<1>4. \A s \in Threads : pc[s] \in {"move", "advance"} => s = t
  BY <1>1, SoleReader
<1>5. \A s \in Threads : pc'[s] \in {"move", "advance"} => s = t
  BY <1>4 DEF Others
<1>6. ASSUME NEW i \in Slots PROVE Cell(i)' = Cell(i)
  <2>1. Cell(i) = buffer[i]
    <3>1. \A s \in Threads : pc[s] # "advance"
      BY <1>1, <1>4
    <3>2. QED
      BY <3>1, CellIs
  <2>2. CASE i = head
    <3>1. Cell(i)' = msg'[t]
      BY <1>1, <1>2, <1>5, <2>2, CellIsThen
    <3>2. QED
      BY <1>3, <2>1, <2>2, <3>1
  <2>3. CASE i # head
    <3>1. Cell(i)' = buffer'[i]
      BY <1>1, <2>3, CellIsThen
    <3>2. QED
      BY <1>3, <2>1, <2>3, <3>1
  <2>4. QED
    BY <2>2, <2>3
<1>7. Between'
  <2>1. \A s \in Threads : pc'[s] \in {"move", "advance"} => index'[s] = head'
    BY <1>1, <1>2, <1>5
  <2>2. buffer'[head'] = NoMessage
    BY <1>1, <1>2, <1>3
  <2>3. QED
    BY <2>1, <2>2 DEF Between
<1>8. QED
  BY <1>1, <1>6, <1>7 DEF Stays

LEMMA AdvanceCells ==
  ASSUME InOrder, Inv, CountInv, FifoInv, NEW t \in Threads, Others(t), AdvanceHead(t)
  PROVE  TakenFrom /\ Stored > 0 /\ Between' /\ Cell(head) = msg[t] /\ msg[t] # NoMessage
         /\ op[t] \in ReadOps
<1>1. pc[t] = "advance" /\ index[t] = head /\ head \in Slots /\ InRing(t) /\ op[t] \in ReadOps
      /\ msg[t] # NoMessage /\ buffer[head] = NoMessage
  BY AtTheRing DEF AdvanceHead
<1>2. /\ head' = Succ(head) /\ tail' = tail /\ buffer' = buffer /\ pc'[t] = "countDown"
  BY <1>1 DEF AdvanceHead, Goto, Inv, BasicTypes, CallTypeOK, InOrder
<1>3. \A s \in Threads : pc[s] \in {"move", "advance"} => s = t
  BY <1>1, SoleReader DEF InOrder
<1>4. \A s \in Threads : pc'[s] \notin {"move", "advance"}
  BY <1>2, <1>3 DEF Others
<1>5. Cell(head) = msg[t]
  BY <1>1, CellIs DEF InOrder
<1>6. ASSUME NEW i \in Slots PROVE Cell(i)' = IF i = head THEN NoMessage ELSE Cell(i)
  <2>1. Cell(i)' = buffer[i]
    BY <1>2, <1>4, CellIsThen
  <2>2. i # head => Cell(i) = buffer[i]
    BY CellIs DEF InOrder
  <2>3. QED
    BY <1>1, <2>1, <2>2
<1>7. Stored > 0
  BY <1>1, BoundsHold DEF Bounds
<1>8. Between'
  BY <1>4 DEF Between
<1>9. QED
  BY <1>1, <1>2, <1>5, <1>6, <1>7, <1>8 DEF TakenFrom

(* The step of a thread, by what it does to the ring. *)
RingStep(t) ==
  \/ /\ Stays /\ Stored' = Stored
     /\ ~WriteTail(t, "store", Sync.sent) /\ ~AdvanceHead(t)
  \/ /\ WriteTail(t, "store", Sync.sent) /\ op[t] \in SendOps /\ msg[t] \in Messages
     /\ StoredAt(msg[t]) /\ Stored < Capacity /\ Stored' = Stored + 1
  \/ /\ AdvanceHead(t) /\ op[t] \in ReadOps
     /\ TakenFrom /\ Stored > 0 /\ Stored' = Stored - 1 /\ Cell(head) = msg[t]

LEMMA StepFifo ==
  ASSUME InOrder, Inv, Inv', CountInv, CountInv', FifoInv, NEW t \in Threads, Step(t)
  PROVE  FifoInv' /\ RingStep(t)
<1>1. /\ BasicTypes /\ BasicTypes' /\ TodoInv(t) /\ OpInv(t) /\ OpInv(t)' /\ FlowInv(t)
      /\ RingInv /\ ~cleared
  BY DEF Inv, CountInv, FifoInv, RingInv
<1>2. Others(t) /\ \A s \in Threads \ {t} : msg'[s] = msg[s] /\ outcome'[s] = outcome[s]
  BY <1>1, StepOthers, StepOthersData
<1>3. pc[t] \in {"move", "advance"} => index[t] = head
  BY AtTheRing
<1>4. RingKinds(t)
  BY <1>1, <1>3, StepRing
<1>5. /\ occupied \in Nat /\ occupied' \in Nat /\ head \in Slots /\ tail \in Slots
      /\ Bounds /\ Contiguous
  BY <1>1, BoundsHold, RingParts DEF BasicTypes, RingTypeOK
<1>6. /\ SameStored(t) => Stored' = Stored
      /\ OneMore(t) => Stored' = Stored + 1
      /\ OneLess(t) => Stored' = Stored - 1
  BY <1>2, <1>5, StoredMoves
<1>7. RingStep(t) /\ Between' /\ ~cleared'
  <2>1. CASE SameStored(t) /\ QuietRing(t)
    <3>1. ~cleared'
      BY <1>1, <2>1 DEF QuietRing
    <3>2. Stays /\ Between'
      BY <1>2, <2>1, QuietCells
    <3>3. ~WriteTail(t, "store", Sync.sent) /\ ~AdvanceHead(t)
      BY <2>1 DEF QuietRing, WriteTail, AdvanceHead
    <3>4. QED
      BY <1>6, <2>1, <3>1, <3>2, <3>3 DEF RingStep
  <2>2. CASE OneMore(t) /\ WriteTail(t, "store", Sync.sent)
    <3>1. ~cleared'
      BY <1>1, <2>2 DEF WriteTail
    <3>2. /\ StoredAt(msg[t]) /\ Stored < Capacity /\ Between'
          /\ msg[t] \in Messages /\ op[t] \in SendOps
      BY <1>2, <2>2, StoreCells DEF InOrder
    <3>3. QED
      BY <1>6, <2>2, <3>1, <3>2 DEF RingStep
  <2>3. CASE SameStored(t) /\ MoveHead(t)
    <3>1. ~cleared'
      BY <1>1, <2>3 DEF MoveHead
    <3>2. Stays /\ Between'
      BY <1>2, <2>3, MoveCells DEF InOrder
    <3>3. ~WriteTail(t, "store", Sync.sent) /\ ~AdvanceHead(t)
      BY <2>3 DEF MoveHead, WriteTail, AdvanceHead
    <3>4. QED
      BY <1>6, <2>3, <3>1, <3>2, <3>3 DEF RingStep
  <2>4. CASE OneLess(t) /\ AdvanceHead(t)
    <3>1. ~cleared'
      BY <1>1, <2>4 DEF AdvanceHead
    <3>2. TakenFrom /\ Stored > 0 /\ Between' /\ Cell(head) = msg[t] /\ op[t] \in ReadOps
      BY <1>2, <2>4, AdvanceCells
    <3>3. QED
      BY <1>6, <2>4, <3>1, <3>2 DEF RingStep
  <2>5. QED
    BY <1>4, <2>1, <2>2, <2>3, <2>4 DEF RingKinds
<1>8. Contiguous'
  BY <1>5, <1>7, ContiguousKept DEF RingStep
<1>9. RingInv'
  BY <1>7, <1>8, RingParts
<1>10. pc[t] = "move" => buffer[index[t]] # NoMessage
  <2>1. SUFFICES ASSUME pc[t] = "move" PROVE buffer[head] # NoMessage
    BY <1>3
  <2>2. \A s \in Threads : pc[s] # "advance"
    BY <2>1, SoleReader DEF InOrder
  <2>3. Cell(head) = buffer[head]
    BY <1>5, <2>2, CellIs DEF InOrder
  <2>4. Stored > 0
    BY <1>5, <2>1, AtTheRing DEF Bounds
  <2>5. Far(head, head) = 0
    BY <1>5, FarMath
  <2>6. QED
    BY <1>5, <2>3, <2>4, <2>5 DEF Contiguous, Dist
<1>11. FlowInv(t)' /\ (mutex' = mutex \/ mutex \in {t, NoThread})
  BY <1>1, <1>3, <1>10, StepFlow
<1>12. ASSUME NEW s \in Threads \ {t} PROVE FlowInv(s)'
  <2>1. FlowInv(s) /\ (mutex' = mutex \/ mutex # s)
    BY <1>11, ThreadsAssumption DEF FifoInv
  <2>2. /\ pc'[s] = pc[s] /\ op'[s] = op[s] /\ todo'[s] = todo[s] /\ index'[s] = index[s]
        /\ msg'[s] = msg[s] /\ outcome'[s] = outcome[s]
    BY <1>2 DEF Others
  <2>3. QED
    BY <2>1, <2>2, FlowKept
<1>13. FifoInv'
  BY <1>9, <1>11, <1>12 DEF FifoInv
<1>14. QED
  BY <1>7, <1>13

LEMMA InitFifo == InOrder /\ Init => FifoInv
<1> SUFFICES ASSUME InOrder, Init PROVE FifoInv
  OBVIOUS
<1>1. \A t \in Threads : /\ pc[t] = "idle" /\ op[t] = "none" /\ outcome[t] = "none"
                         /\ msg[t] = NoMessage /\ todo[t] = <<>> /\ index[t] = NoSlot
  BY DEF Init, CallInit, SyncInit
<1>2. \A t \in Threads : FlowInv(t)
  <2>1. ASSUME NEW t \in Threads PROVE FlowInv(t)
    <3>1. ~Locked(t)
      BY <1>1, NothingOwed DEF Locked, Working
    <3>2. todo[t] \in Programs(op[t], pc[t])
      BY <1>1, EmptyProgram
    <3>3. op[t] \notin SendOps \cup ReadOps
      BY <1>1 DEF SendOps, ReadOps
    <3>4. QED
      BY <1>1, <3>1, <3>2, <3>3 DEF FlowInv
  <2>2. QED
    BY <2>1
<1>3. Stored = 0
  <2>1. \A t \in Threads : ~InRing(t)
    BY <1>1, RingWhenReady DEF Ready, Working
  <2>2. RingCredits = {} /\ occupied = 0
    BY <2>1 DEF RingCredits, Init, SyncInit
  <2>3. QED
    BY <2>2, FS_EmptySet DEF Stored
<1>4. ~cleared /\ head = 0 /\ tail = 0 /\ \A i \in Slots : buffer[i] = NoMessage
  BY DEF Init, RingInit
<1>5. \A i \in Slots : Cell(i) = NoMessage
  BY <1>1, <1>4, CellOf DEF MovedFrom
<1>6. Contiguous
  <2>1. Capacity \in Nat /\ Capacity > 0 /\ 0 \in Slots
    BY CapacityAssumption, SlotsIn
  <2>2. Dist(tail) = 0 /\ Stored # Capacity
    BY <1>3, <1>4, <2>1, FarMath DEF Dist
  <2>3. \A i \in Slots : ~(Dist(i) < 0)
    <3>1. \A i \in Slots : Far(i, head) \in Slots
      BY <1>4, <2>1, FarMath
    <3>2. QED
      BY <2>1, <3>1 DEF Dist, Slots
  <2>4. QED
    BY <1>3, <1>5, <2>2, <2>3 DEF Contiguous
<1>7. Between
  BY <1>1 DEF Between
<1>8. QED
  BY <1>2, <1>4, <1>6, <1>7, RingParts DEF FifoInv

LEMMA StutterFifo ==
  ASSUME FifoInv, UNCHANGED vars
  PROVE  FifoInv'
<1>1. UNCHANGED <<role, pc, op, msg, outcome, free, occupied, mutex, index, todo,
                  buffer, head, tail, count, cleared, kept>>
  BY DEF vars, callVars, syncVars, ringVars
<1>2. \A t \in Threads : FlowInv(t)'
  BY <1>1 DEF FifoInv, FlowInv, Locked
<1>3. RingInv'
  <2>1. RingCredits' = RingCredits
    BY <1>1 DEF RingCredits, InRing, AtWork, Pending
  <2>2. Stored' = Stored
    BY <1>1, <2>1 DEF Stored
  <2>3. \A i : Cell(i)' = Cell(i)
    BY <1>1 DEF Cell, Content
  <2>4. QED
    BY <1>1, <2>2, <2>3 DEF FifoInv, RingInv, Dist
<1>4. QED
  BY <1>2, <1>3 DEF FifoInv

LEMMA FifoAlways == InOrder => (Spec => [](Inv /\ CountInv /\ FifoInv))
<1> SUFFICES ASSUME InOrder PROVE Spec => [](Inv /\ CountInv /\ FifoInv)
  OBVIOUS
<1>1. Spec => [](Inv /\ CountInv)
  BY CountAlways DEF InOrder
<1>2. Init => FifoInv
  BY InitFifo
<1>3. Inv /\ CountInv /\ (Inv /\ CountInv)' /\ FifoInv /\ [Next]_vars => FifoInv'
  BY StepFifo, StutterFifo DEF Next, Step
<1>4. QED
  BY <1>1, <1>2, <1>3, PTL DEF Spec

(* For SPSC, MPSC and SPMC no two threads ever access one slot of the ring *)
(* at a time, although no lock of WriteTail and ReadHead is about a slot.  *)
THEOREM NoDataRaceCorrect == InOrder => (Spec => []NoDataRace)
<1>1. ASSUME InOrder, Inv, CountInv, FifoInv PROVE NoDataRace
  <2>1. ASSUME NEW t \in Threads, NEW i, Accessing(t, i)
        PROVE  \/ pc[t] = "store" /\ Writes(t) /\ tail = i
               \/ pc[t] = "move" /\ head = i
    <3>1. CASE Ready(t) /\ pc[t] = "store" /\ WriteIndex(t) = i
      <4>1. index[t] = NoSlot
        BY <1>1, <3>1, AtTheRing
      <4>2. QED
        BY <3>1, <4>1 DEF WriteIndex, HasReserved, Writes
    <3>2. CASE Ready(t) /\ pc[t] = "move" /\ index[t] = i
      BY <1>1, <3>2, AtTheRing
    <3>3. CASE pc[t] = "take" /\ HasReserved(t)
      BY <1>1, <3>3 DEF FifoInv, FlowInv, HasReserved
    <3>4. QED
      BY <2>1, <3>1, <3>2, <3>3 DEF Accessing
  <2>2. ASSUME NEW s \in Threads, NEW t \in Threads, Writes(s), pc[t] = "move", tail = head
        PROVE  FALSE
    <3>1. Stored < Capacity /\ Stored > 0 /\ Stored \in 0..Capacity /\ Capacity \in Nat
      BY <1>1, <2>2, BoundsHold, AtTheRing, CapacityAssumption DEF Bounds
    <3>2. Far(tail, head) = Stored
      BY <1>1, <3>1 DEF FifoInv, RingInv, Dist
    <3>3. head \in Slots /\ tail \in Slots
      BY <1>1 DEF Inv, BasicTypes, RingTypeOK
    <3>4. QED
      BY <2>2, <3>1, <3>2, <3>3, FarMath
  <2>3. ASSUME NEW s \in Threads, NEW t \in Threads, Writes(s), Writes(t) PROVE s = t
    BY <1>1, <2>3, OneWriter DEF InOrder, CountInv, FifoInv
  <2>4. ASSUME NEW s \in Threads, NEW t \in Threads, pc[s] = "move", pc[t] = "move"
        PROVE  s = t
    BY <1>1, <2>4, SoleReader DEF InOrder
  <2>5. QED
    BY <2>1, <2>2, <2>3, <2>4 DEF NoDataRace
<1>2. SUFFICES ASSUME InOrder PROVE Spec => []NoDataRace
  OBVIOUS
<1>3. Spec => [](Inv /\ CountInv /\ FifoInv)
  BY <1>2, FifoAlways
<1>4. Inv /\ CountInv /\ FifoInv => NoDataRace
  BY <1>1, <1>2
<1>5. QED
  BY <1>3, <1>4, PTL

(* ... and what a read returns is always a message some send stored, never *)
(* the value of a slot that is empty or already moved from.                *)
THEOREM NoBlankReadCorrect == InOrder => (Spec => []NoBlankRead)
<1>1. FifoInv => NoBlankRead
  BY DEF FifoInv, FlowInv, NoBlankRead
<1>2. SUFFICES ASSUME InOrder PROVE Spec => []NoBlankRead
  OBVIOUS
<1>3. Spec => [](Inv /\ CountInv /\ FifoInv)
  BY <1>2, FifoAlways
<1>4. QED
  BY <1>1, <1>3, PTL

-----------------------------------------------------------------------------
(***************************************************************************)
(* Refinement of BoundedFifo.                                              *)
(***************************************************************************)
(* The k-th slot from the head on. *)
Ahead(h, k) == (h + k - 1) % Capacity

LEMMA AheadMath ==
  ASSUME NEW h \in Slots
  PROVE  /\ \A k \in 1..Capacity : Ahead(h, k) \in Slots /\ Far(Ahead(h, k), h) = k - 1
         /\ \A i \in Slots : (i - h) % Capacity = Far(i, h)
<1>1. Capacity \in Nat /\ Capacity > 0
  BY CapacityAssumption
<1>2. ASSUME NEW k \in 1..Capacity
      PROVE  Ahead(h, k) \in Slots /\ Far(Ahead(h, k), h) = k - 1
  <2>1. CASE h + k - 1 < Capacity
    <3>1. Ahead(h, k) = h + k - 1
      BY <1>1, <2>1 DEF Slots, Ahead
    <3>2. QED
      BY <1>1, <2>1, <3>1 DEF Slots, Far
  <2>2. CASE h + k - 1 >= Capacity
    <3>1. Ahead(h, k) = h + k - 1 - Capacity
      BY <1>1, <2>2 DEF Slots, Ahead
    <3>2. QED
      BY <1>1, <2>2, <3>1 DEF Slots, Far
  <2>3. QED
    BY <1>1, <2>1, <2>2 DEF Slots
<1>3. ASSUME NEW i \in Slots PROVE (i - h) % Capacity = Far(i, h)
  <2>1. CASE i < h
    BY <1>1, <2>1 DEF Slots, Far
  <2>2. CASE ~(i < h)
    BY <1>1, <2>2 DEF Slots, Far
  <2>3. QED
    BY <2>1, <2>2
<1>4. QED
  BY <1>2, <1>3

(* The messages from the head on are those the credits stand for. *)
LEMMA QueueIs ==
  /\ head \in Slots /\ tail \in Slots /\ Stored \in 0..Capacity /\ Contiguous =>
       Queue = [k \in 1..Stored |-> Cell(Ahead(head, k))]
  /\ head' \in Slots /\ tail' \in Slots /\ Stored' \in 0..Capacity /\ Contiguous' =>
       Queue' = [k \in 1..Stored' |-> Cell(Ahead(head, k))']
<1>1. Capacity \in Nat /\ Capacity > 0
  BY CapacityAssumption
<1>2. ASSUME head \in Slots, tail \in Slots, Stored \in 0..Capacity, Contiguous
      PROVE  Size = Stored
  <2>1. (tail - head) % Capacity = Far(tail, head)
    BY <1>2, AheadMath
  <2>2. Far(head, head) = 0 /\ (Far(tail, head) = 0 <=> tail = head)
    BY <1>2, FarMath
  <2>3. Cell(head) # NoMessage <=> 0 < Stored
    BY <1>2, <2>2 DEF Contiguous, Dist
  <2>4. IF Stored = Capacity THEN tail = head ELSE Far(tail, head) = Stored
    BY <1>2 DEF Contiguous, Dist
  <2>5. QED
    BY <1>1, <1>2, <2>1, <2>2, <2>3, <2>4 DEF Size
<1>3. ASSUME head' \in Slots, tail' \in Slots, Stored' \in 0..Capacity, Contiguous'
      PROVE  Size' = Stored'
  <2>1. (tail' - head') % Capacity = Far(tail', head')
    BY <1>3, AheadMath
  <2>2. Far(head', head') = 0 /\ (Far(tail', head') = 0 <=> tail' = head')
    BY <1>3, FarMath
  <2>3. Cell(head)' # NoMessage <=> 0 < Stored'
    BY <1>3, <2>2 DEF Contiguous, Dist
  <2>4. IF Stored' = Capacity THEN tail' = head' ELSE Far(tail', head') = Stored'
    BY <1>3 DEF Contiguous, Dist
  <2>5. QED
    BY <1>1, <1>3, <2>1, <2>2, <2>3, <2>4 DEF Size
<1>4. Size = Stored => Queue = [k \in 1..Stored |-> Cell(Ahead(head, k))]
  BY DEF Queue, Ahead
<1>5. Size' = Stored' => Queue' = [k \in 1..Stored' |-> Cell(Ahead(head, k))']
  BY DEF Queue, Ahead
<1>6. QED
  BY <1>2, <1>3, <1>4, <1>5

(* The k-th message, before and after a step. *)
LEMMA QueueParts ==
  ASSUME Inv, CountInv, FifoInv, Inv', CountInv', FifoInv'
  PROVE  /\ Queue = [k \in 1..Stored |-> Cell(Ahead(head, k))]
         /\ Queue' = [k \in 1..Stored' |-> Cell(Ahead(head, k))']
         /\ head \in Slots /\ tail \in Slots /\ head' \in Slots /\ tail' \in Slots
         /\ Stored \in Nat /\ Stored <= Capacity /\ Capacity \in Nat /\ Capacity > 0
         /\ Contiguous
<1>1. Capacity \in Nat /\ Capacity > 0
  BY CapacityAssumption
<1>2. /\ head \in Slots /\ tail \in Slots /\ Stored \in 0..Capacity /\ Contiguous
  BY BoundsHold, RingParts DEF Inv, BasicTypes, RingTypeOK, Bounds, FifoInv
<1>3. /\ head' \in Slots /\ tail' \in Slots /\ Stored' \in 0..Capacity /\ Contiguous'
  <2>1. Bounds'
    BY BoundsHold, PTL
  <2>2. QED
    BY <2>1, RingParts DEF Inv, BasicTypes, RingTypeOK, Bounds, FifoInv
<1>4. QED
  BY <1>1, <1>2, <1>3, QueueIs

LEMMA QueueStays ==
  ASSUME Inv, CountInv, FifoInv, Inv', CountInv', FifoInv', Stays, Stored' = Stored
  PROVE  Queue' = Queue
<1>1. ASSUME NEW k \in 1..Stored PROVE Cell(Ahead(head, k))' = Cell(Ahead(head, k))
  <2>1. Ahead(head, k) \in Slots /\ head' = head
    BY QueueParts, AheadMath DEF Stays
  <2>2. PICK i \in Slots : i = Ahead(head, k)
    BY <2>1
  <2>3. Cell(i)' = Cell(i)
    BY DEF Stays
  <2>4. QED
    BY <2>1, <2>2, <2>3
<1>2. QED
  BY <1>1, QueueParts

LEMMA QueueGrows ==
  ASSUME Inv, CountInv, FifoInv, Inv', CountInv', FifoInv', NEW m, StoredAt(m),
         Stored < Capacity, Stored' = Stored + 1
  PROVE  Queue' = Append(Queue, m)
<1>1. /\ head' = head /\ Stored \in Nat /\ Stored # Capacity /\ Contiguous /\ head \in Slots
      /\ tail \in Slots
  BY QueueParts DEF StoredAt
<1>2. Far(tail, head) = Stored
  BY <1>1 DEF Contiguous, Dist
<1>3. ASSUME NEW k \in 1..(Stored + 1)
      PROVE  Cell(Ahead(head, k))' = IF k = Stored + 1 THEN m ELSE Cell(Ahead(head, k))
  <2>1. k \in 1..Capacity
    BY <1>1, QueueParts
  <2>2. PICK i \in Slots : i = Ahead(head, k)
    BY <1>1, <2>1, AheadMath
  <2>3. Far(i, head) = k - 1
    BY <1>1, <2>1, <2>2, AheadMath
  <2>4. i = tail <=> k = Stored + 1
    <3>1. i = tail <=> Far(i, head) = Stored
      <4>1. Far(i, head) = Far(tail, head) => i = tail
        BY <1>1, FarMath
      <4>2. QED
        BY <1>2, <4>1
    <3>2. k - 1 = Stored <=> k = Stored + 1
      BY <1>1
    <3>3. QED
      BY <2>3, <3>1, <3>2
  <2>5. Cell(i)' = IF i = tail THEN m ELSE Cell(i)
    BY DEF StoredAt
  <2>6. QED
    BY <1>1, <2>2, <2>4, <2>5
<1>4. /\ Queue = [k \in 1..Stored |-> Cell(Ahead(head, k))]
      /\ Queue' = [k \in 1..(Stored + 1) |-> Cell(Ahead(head, k))']
  BY QueueParts
<1>5. Queue' = [k \in 1..(Stored + 1) |-> IF k = Stored + 1 THEN m ELSE Cell(Ahead(head, k))]
  BY <1>3, <1>4
<1>6. QED
  BY <1>1, <1>4, <1>5

LEMMA QueueShrinks ==
  ASSUME Inv, CountInv, FifoInv, Inv', CountInv', FifoInv', TakenFrom,
         Stored > 0, Stored' = Stored - 1
  PROVE  Queue # <<>> /\ Head(Queue) = Cell(head) /\ Queue' = Tail(Queue)
<1>1. /\ head' = Succ(head) /\ Stored \in Nat /\ head \in Slots /\ head' \in Slots
      /\ Stored <= Capacity /\ Capacity \in Nat
  BY QueueParts DEF TakenFrom
<1>2. ASSUME NEW k \in 1..(Stored - 1)
      PROVE  Cell(Ahead(head, k))' = Cell(Ahead(head, k + 1))
  <2>1. k \in 1..Capacity /\ k + 1 \in 1..Capacity /\ k # 0
    BY <1>1
  <2>2. PICK i \in Slots : i = Ahead(head, k + 1)
    BY <1>1, <2>1, AheadMath
  <2>3. Far(i, head) = k
    BY <1>1, <2>1, <2>2, AheadMath
  <2>4. i # head
    BY <1>1, <2>1, <2>3, FarMath
  <2>5. Far(i, head') = k - 1
    BY <1>1, <2>3, <2>4, FarMath
  <2>6. Ahead(head', k) \in Slots /\ Far(Ahead(head', k), head') = k - 1
    BY <1>1, <2>1, AheadMath
  <2>7. i = Ahead(head', k)
    BY <1>1, <2>5, <2>6, FarMath
  <2>8. Cell(i)' = Cell(i)
    BY <2>4 DEF TakenFrom
  <2>9. QED
    BY <2>2, <2>7, <2>8
<1>3. Cell(Ahead(head, 1)) = Cell(head)
  <2>1. Ahead(head, 1) \in Slots /\ Far(Ahead(head, 1), head) = 0
    BY <1>1, AheadMath
  <2>2. QED
    BY <1>1, <2>1, FarMath
<1>4. /\ Queue = [k \in 1..Stored |-> Cell(Ahead(head, k))]
      /\ Queue' = [k \in 1..(Stored - 1) |-> Cell(Ahead(head, k))']
  BY QueueParts
<1>5. Queue' = [k \in 1..(Stored - 1) |-> Cell(Ahead(head, k + 1))]
  BY <1>2, <1>4
<1>6. Len(Queue) = Stored /\ Queue # <<>> /\ Head(Queue) = Cell(Ahead(head, 1))
  BY <1>1, <1>4
<1>7. Tail(Queue) = [k \in 1..(Stored - 1) |-> Cell(Ahead(head, k + 1))]
  BY <1>1, <1>4
<1>8. QED
  BY <1>3, <1>5, <1>6, <1>7

-----------------------------------------------------------------------------
(* Refusals need more: who holds the mutex is in a call, and every try     *)
(* belongs to a Try call.                                                  *)
CallerInv(t) ==
  /\ mutex = t => op[t] \in LockOps /\ Locked(t)
  /\ pc[t] = "idle" => msg[t] = NoMessage
  /\ pc[t] = "tryFull" => op[t] = "TrySend"
  /\ pc[t] = "tryEmpty" => op[t] = "TryRead"

OwnStep(o, label, q) ==
  /\ Head(q) \in Locks => o \in LockOps /\ label \in Working /\ ~Awaits(Tail(q))
  /\ Head(q) = "free.try_acquire" =>
       o = "TrySend" /\ (o \in LockOps => Awaits(q) /\ ~Owes(q))
  /\ Head(q) = "occupied.try_acquire" =>
       o = "TryRead" /\ (o \in LockOps => Category = "SPMC")
  /\ Head(q) = "mutex.try_lock" => o = "TryRead" /\ Awaits(q) /\ ~Owes(q)

LEMMA ReleasesOwn ==
  ASSUME NEW o, NEW label, NEW a \in Releases \cup {"mutex.unlock"}
  PROVE  OwnStep(o, label, <<a>>) /\ \A b : OwnStep(o, label, <<a, b>>)
<1>1. a \in {"free.release", "occupied.release", "mutex.unlock"}
  BY DEF Releases
<1>2. Head(<<a>>) = a /\ \A b : Head(<<a, b>>) = a
  BY ShortPrograms
<1>3. QED
  BY <1>1, <1>2 DEF OwnStep, Locks

LEMMA CommitsOwn ==
  ASSUME Category # "MPMC"
  PROVE  \A p \in {Sync.sent, Sync.cancelSend, Sync.read, Sync.cancelRead} :
           \A q \in Rest(p) \ {<<>>} :
             \E a \in Releases \cup {"mutex.unlock"} : q = <<a>> \/ \E b : q = <<a, b>>
<1>1. CASE Category = "SPSC"
  <2>1. Sync = SpscSync
    BY <1>1 DEF Sync
  <2>2. QED
    BY <2>1, ShortPrograms DEF SpscSync, Releases
<1>2. CASE Category = "MPSC"
  <2>1. Sync = MpscSync
    BY <1>2 DEF Sync
  <2>2. QED
    BY <2>1, ShortPrograms DEF MpscSync, Releases
<1>3. CASE Category = "SPMC"
  <2>1. Sync = SpmcSync
    BY <1>3 DEF Sync
  <2>2. QED
    BY <2>1, ShortPrograms DEF SpmcSync, Releases
<1>4. QED
  BY <1>1, <1>2, <1>3, CategoryAssumption

LEMMA AcquiresOwn ==
  ASSUME Category # "MPMC", NEW o \in SendOps \cup ReadOps, NEW label \in AcquireLabels,
         NEW q \in Rest(Sync[o]), q # <<>>
  PROVE  OwnStep(o, label, q)
<1>0. label \in Working /\ o \in {"Send", "TrySend", "Read", "TryRead"}
  BY DEF AcquireLabels, Working, SendOps, ReadOps
<1>1. CASE Category = "SPSC"
  <2>1. LockOps = {} /\ Sync = SpscSync
    BY <1>1 DEF LockOps, Sync
  <2>2. \/ q \in {<<"free.acquire">>, <<"occupied.acquire">>}
        \/ o = "TrySend" /\ q = <<"free.try_acquire">>
        \/ o = "TryRead" /\ q = <<"occupied.try_acquire">>
    BY <1>0, <2>1, ShortPrograms DEF SpscSync
  <2>3. QED
    BY <2>1, <2>2, ShortPrograms DEF OwnStep, Locks
<1>2. CASE Category = "MPSC"
  <2>1. LockOps = SendOps /\ Sync = MpscSync
    BY <1>2 DEF LockOps, Sync
  <2>2. \/ q = <<"occupied.acquire">> \/ q = <<"free.acquire", "mutex.lock">>
        \/ o \in SendOps /\ q = <<"mutex.lock">>
        \/ o = "TrySend" /\ q = <<"free.try_acquire", "mutex.lock">>
        \/ o = "TryRead" /\ q = <<"occupied.try_acquire">>
    BY <1>0, <2>1, ShortPrograms DEF MpscSync, SendOps
  <2>3. CASE q = <<"occupied.acquire">> \/ q = <<"free.acquire", "mutex.lock">>
    <3>1. Head(q) \in {"occupied.acquire", "free.acquire"}
      BY <2>3, ShortPrograms
    <3>2. QED
      BY <3>1 DEF OwnStep, Locks
  <2>4. CASE o \in SendOps /\ q = <<"mutex.lock">>
    <3>1. Head(q) = "mutex.lock" /\ Tail(q) = <<>>
      BY <2>4, ShortPrograms
    <3>2. QED
      BY <1>0, <2>1, <2>4, <3>1, NothingOwed DEF OwnStep
  <2>5. CASE o = "TrySend" /\ q = <<"free.try_acquire", "mutex.lock">>
    <3>1. Head(q) = "free.try_acquire" /\ Items(q) = {"free.try_acquire", "mutex.lock"}
      BY <2>5, ShortPrograms, ItemsOf
    <3>2. QED
      BY <2>5, <3>1 DEF OwnStep, Locks, Awaits, Owes
  <2>6. CASE o = "TryRead" /\ q = <<"occupied.try_acquire">>
    <3>1. Head(q) = "occupied.try_acquire" /\ o \notin LockOps
      BY <2>1, <2>6, ShortPrograms DEF SendOps
    <3>2. QED
      BY <2>6, <3>1 DEF OwnStep, Locks
  <2>7. QED
    BY <2>2, <2>3, <2>4, <2>5, <2>6
<1>3. CASE Category = "SPMC"
  <2>1. LockOps = ReadOps /\ Sync = SpmcSync
    BY <1>3 DEF LockOps, Sync
  <2>2. \/ q \in {<<"free.acquire">>, <<"occupied.acquire">>}
        \/ o = "Read" /\ q = <<"mutex.lock", "occupied.acquire">>
        \/ o = "TryRead" /\ q = <<"mutex.try_lock", "occupied.try_acquire">>
        \/ o = "TrySend" /\ q = <<"free.try_acquire">>
        \/ o = "TryRead" /\ q = <<"occupied.try_acquire">>
    BY <1>0, <2>1, ShortPrograms DEF SpmcSync
  <2>3. CASE q \in {<<"free.acquire">>, <<"occupied.acquire">>}
    <3>1. Head(q) \in {"occupied.acquire", "free.acquire"}
      BY <2>3, ShortPrograms
    <3>2. QED
      BY <3>1 DEF OwnStep, Locks
  <2>4. CASE o = "Read" /\ q = <<"mutex.lock", "occupied.acquire">>
    <3>1. Head(q) = "mutex.lock" /\ Tail(q) = <<"occupied.acquire">>
      BY <2>4, ShortPrograms
    <3>2. ~Awaits(Tail(q)) /\ o \in LockOps
      BY <2>1, <2>4, <3>1, ItemsOf DEF Awaits, Locks, ReadOps
    <3>3. QED
      BY <1>0, <3>1, <3>2 DEF OwnStep
  <2>5. CASE o = "TryRead" /\ q = <<"mutex.try_lock", "occupied.try_acquire">>
    <3>1. /\ Head(q) = "mutex.try_lock" /\ Tail(q) = <<"occupied.try_acquire">>
          /\ Items(q) = {"mutex.try_lock", "occupied.try_acquire"}
      BY <2>5, ShortPrograms, ItemsOf
    <3>2. ~Awaits(Tail(q)) /\ o \in LockOps /\ Awaits(q) /\ ~Owes(q)
      BY <2>1, <2>5, <3>1, ItemsOf DEF Awaits, Locks, ReadOps, Owes
    <3>3. QED
      BY <1>0, <2>5, <3>1, <3>2 DEF OwnStep
  <2>6. CASE o = "TrySend" /\ q = <<"free.try_acquire">>
    <3>1. Head(q) = "free.try_acquire" /\ o \notin LockOps
      BY <2>1, <2>6, ShortPrograms DEF ReadOps
    <3>2. QED
      BY <2>6, <3>1 DEF OwnStep, Locks
  <2>7. CASE o = "TryRead" /\ q = <<"occupied.try_acquire">>
    <3>1. Head(q) = "occupied.try_acquire"
      BY <2>7, ShortPrograms
    <3>2. QED
      BY <1>3, <2>7, <3>1 DEF OwnStep, Locks
  <2>8. QED
    BY <2>2, <2>3, <2>4, <2>5, <2>6, <2>7
<1>4. QED
  BY <1>1, <1>2, <1>3, CategoryAssumption

LEMMA OwnSteps ==
  ASSUME Category # "MPMC", BasicTypes, NEW t \in Threads, OpInv(t), FlowInv(t), ~Ready(t)
  PROVE  OwnStep(op[t], pc[t], todo[t])
<1>1. todo[t] # <<>> /\ todo[t] \in Programs(op[t], pc[t])
  BY DEF FlowInv, Ready
<1>2. CASE pc[t] \in AcquireLabels
  <2>1. op[t] \in SendOps \cup ReadOps
    BY <1>2 DEF OpInv, AcquireLabels
  <2>2. QED
    BY <1>1, <1>2, <2>1, AcquiresOwn DEF Programs
<1>3. CASE pc[t] \notin AcquireLabels
  <2>1. PICK p \in {Sync.sent, Sync.cancelSend, Sync.read, Sync.cancelRead} : todo[t] \in Rest(p)
    BY <1>1, <1>3 DEF Programs
  <2>2. PICK a \in Releases \cup {"mutex.unlock"} :
          todo[t] = <<a>> \/ \E b : todo[t] = <<a, b>>
    BY <1>1, <2>1, CommitsOwn
  <2>3. QED
    BY <2>2, ReleasesOwn
<1>4. QED
  BY <1>2, <1>3

(* The commits and cancels of the side that locks unlock.                  *)
LEMMA CommitsUnlock ==
  /\ \A o \in SendOps \cap LockOps : Owes(Sync.sent) /\ Owes(Sync.cancelSend)
  /\ \A o \in ReadOps \cap LockOps : Owes(Sync.read) /\ Owes(Sync.cancelRead)
<1>1. CASE Category = "MPSC"
  <2>1. LockOps = SendOps /\ Sync = MpscSync
    BY <1>1 DEF LockOps, Sync
  <2>2. Owes(MpscSync.sent) /\ Owes(MpscSync.cancelSend)
    BY ItemsOf DEF MpscSync, Owes
  <2>3. QED
    BY <2>1, <2>2, Sides
<1>2. CASE Category = "SPMC"
  <2>1. LockOps = ReadOps /\ Sync = SpmcSync
    BY <1>2 DEF LockOps, Sync
  <2>2. Owes(SpmcSync.read) /\ Owes(SpmcSync.cancelRead)
    BY ItemsOf DEF SpmcSync, Owes
  <2>3. QED
    BY <2>1, <2>2, Sides
<1>3. QED
  BY <1>1, <1>2 DEF LockOps

(* What one primitive does to the mutex. *)
LEMMA SyncStepCaller ==
  ASSUME Category # "MPMC", BasicTypes, BasicTypes', NEW t \in Threads, TodoInv(t), OpInv(t),
         FlowInv(t), CallerInv(t), SyncStep(t)
  PROVE  /\ mutex' = t => op'[t] \in LockOps /\ Locked(t)'
         /\ mutex' \in {mutex, t, NoThread}
         /\ pc'[t] # "idle" /\ pc'[t] \in {pc[t], "return"} /\ op'[t] = op[t]
<1> DEFINE H == Head(todo[t])
<1>1. ~Ready(t) /\ pc[t] # "idle" /\ t # NoThread
  BY ThreadsAssumption DEF TodoInv, SyncStep, AcquireFree, TryAcquireFreeFails, TakeFreeIfAny,
     ReleaseFree, AcquireOccupied, TryAcquireOccupiedFails, ReleaseOccupied, LockMutex,
     TryLockMutexFails, UnlockMutex, ReserveWriteSlot, ReserveReadSlot, Doing
<1>2. LockStep(op[t], pc[t], todo[t]) /\ OwnStep(op[t], pc[t], todo[t])
  BY <1>1, ProgramOf, OwnSteps
<1>3. ASSUME Perform(t, Tail(todo[t])) PROVE todo'[t] = Tail(todo[t])
  BY <1>1, <1>3, SoundTail, PerformTyped DEF TodoInv, BasicTypes, Ready
<1>4. CASE TryAcquireFreeFails(t) \/ TryAcquireOccupiedFails(t) \/ TryLockMutexFails(t)
  <2>1. /\ GiveUp(t) /\ UNCHANGED <<op, mutex>>
        /\ H \in {"free.try_acquire", "occupied.try_acquire", "mutex.try_lock"}
    BY <1>4 DEF TryAcquireFreeFails, TryAcquireOccupiedFails, TryLockMutexFails
  <2>2. pc'[t] = "return"
    BY <2>1 DEF GiveUp, Finish, Goto, BasicTypes, CallTypeOK
  <2>3. ASSUME mutex = t PROVE Locked(t)'
    <3>1. op[t] \in LockOps /\ (Awaits(todo[t]) => Owes(todo[t]))
      BY <2>3 DEF CallerInv, Locked
    <3>2. Category = "SPMC" /\ H = "occupied.try_acquire"
      BY <1>2, <2>1, <3>1 DEF OwnStep
    <3>3. todo'[t] = <<"mutex.unlock">>
      BY <2>1, <3>2, FreePrograms, PerformTyped DEF GiveUp
    <3>4. QED
      BY <3>3, ItemsOf DEF Locked, Owes
  <2>4. QED
    BY <2>1, <2>2, <2>3 DEF CallerInv
<1>5. CASE AcquireFree(t) \/ ReleaseFree(t) \/ AcquireOccupied(t) \/ ReleaseOccupied(t)
  <2>1. /\ Perform(t, Tail(todo[t])) /\ UNCHANGED <<callVars, mutex>> /\ H \in Credits
    BY <1>5 DEF AcquireFree, ReleaseFree, AcquireOccupied, ReleaseOccupied, Doing,
       Credits, Acquires, Releases
  <2>2. Locked(t) => Locked(t)'
    BY <1>2, <1>3, <2>1 DEF LockStep, Locked, callVars
  <2>3. QED
    BY <1>1, <2>1, <2>2 DEF CallerInv, callVars
<1>6. CASE LockMutex(t)
  <2>1. /\ Perform(t, Tail(todo[t])) /\ UNCHANGED callVars /\ mutex' = t
        /\ H \in Locks
    BY <1>6 DEF LockMutex, Doing, Locks
  <2>2. QED
    BY <1>1, <1>2, <1>3, <2>1 DEF OwnStep, Locked, callVars
<1>7. CASE UnlockMutex(t)
  BY <1>1, <1>7 DEF UnlockMutex, callVars
<1>8. CASE ReserveWriteSlot(t) \/ ReserveReadSlot(t)
  BY <1>2, <1>8 DEF ReserveWriteSlot, ReserveReadSlot, Doing, LockStep
<1>9. CASE TakeFreeIfAny(t)
  <2>1. H = "free.take_if_any" /\ H \in Items(todo[t])
    BY <1>1, <1>9, SoundTail DEF TakeFreeIfAny, Doing, TodoInv, BasicTypes, Ready
  <2>2. QED
    BY <2>1 DEF TodoInv, Sound
<1>10. QED
  BY <1>4, <1>5, <1>6, <1>7, <1>8, <1>9 DEF SyncStep

(* A step between two programs. *)
LEMMA WorkCaller ==
  ASSUME BasicTypes, BasicTypes', NEW t \in Threads, TodoInv(t), OpInv(t), CallerInv(t),
         Ready(t), UNCHANGED <<op, mutex>>,
         \/ pc[t] \notin Working
         \/ pc'[t] \in Working /\ todo' = todo
         \/ op[t] \in SendOps /\ (Perform(t, Sync.sent) \/ Perform(t, Sync.cancelSend))
         \/ op[t] \in ReadOps /\ (Perform(t, Sync.read) \/ Perform(t, Sync.cancelRead))
  PROVE  mutex' = t => op'[t] \in LockOps /\ Locked(t)'
<1> SUFFICES ASSUME mutex = t PROVE op[t] \in LockOps /\ Locked(t)'
  OBVIOUS
<1>1. op[t] \in LockOps /\ Locked(t) /\ todo[t] = <<>>
  BY DEF CallerInv, Ready
<1>2. pc[t] \in Working
  BY <1>1, NothingOwed DEF Locked
<1>3. CASE pc'[t] \in Working /\ todo' = todo
  BY <1>1, <1>3, NothingOwed DEF Locked
<1>4. CASE op[t] \in SendOps /\ (Perform(t, Sync.sent) \/ Perform(t, Sync.cancelSend))
  <2>1. todo'[t] \in {Sync.sent, Sync.cancelSend}
    BY <1>4, PerformTyped, ProgramsTyped
  <2>2. QED
    BY <1>1, <1>4, <2>1, CommitsUnlock DEF Locked
<1>5. CASE op[t] \in ReadOps /\ (Perform(t, Sync.read) \/ Perform(t, Sync.cancelRead))
  <2>1. todo'[t] \in {Sync.read, Sync.cancelRead}
    BY <1>5, PerformTyped, ProgramsTyped
  <2>2. QED
    BY <1>1, <1>5, <2>1, CommitsUnlock DEF Locked
<1>6. QED
  BY <1>1, <1>2, <1>3, <1>4, <1>5

LEMMA StepCaller ==
  ASSUME InOrder, BasicTypes, BasicTypes', NEW t \in Threads, TodoInv(t), OpInv(t),
         FlowInv(t), CallerInv(t), pc[t] = "advance" => index[t] = head, Step(t)
  PROVE  CallerInv(t)' /\ mutex' \in {mutex, t, NoThread}
<1> USE DEF Goto, Finish, Decide, BasicTypes, CallTypeOK
<1>1. CASE SyncStep(t)
  BY <1>1, SyncStepCaller DEF InOrder, CallerInv
<1>2. CASE Emplace(t) \/ StoreMessageThrows(t) \/ PopMessageThrows(t)
  BY <1>2 DEF Emplace, Replaced, StoreMessageThrows, PopMessageThrows, OpInv, InOrder
<1>3. CASE \/ Call(t) \/ CheckSendDeadlockPossibility(t) \/ CheckReadDeadlockPossibility(t)
           \/ SyncAndOverflowPrework(t) \/ SyncAndUnderflowPrework(t, Sync[op[t]])
           \/ CountUp(t) \/ Leave(t)
  <2>1. /\ pc[t] \in {"idle", "check", "sync", "countUp", "return"} /\ Ready(t)
        /\ mutex' = mutex
    BY <1>3 DEF Call, CallSend, CallRead, CallClose, Enter, TodoInv,
       CheckSendDeadlockPossibility, CheckReadDeadlockPossibility, AfterCheck,
       SyncAndOverflowPrework, SyncAndUnderflowPrework, CountUp, Leave, Return, syncVars
  <2>2. mutex # t
    BY <2>1, NothingOwed DEF CallerInv, Locked, Working, Ready
  <2>3. pc'[t] = "idle" => msg'[t] = NoMessage
    <3>1. CASE Leave(t)
      BY <3>1 DEF Leave, Return
    <3>2. CASE ~Leave(t)
      BY <1>3, <3>2 DEF Call, CallSend, CallRead, CallClose, Enter, AccountThreads,
         CheckSendDeadlockPossibility, CheckReadDeadlockPossibility, AfterCheck,
         HandleDeadlock, SyncAndOverflowPrework, SyncAndUnderflowPrework, CountUp
    <3>3. QED
      BY <3>1, <3>2
  <2>4. /\ pc'[t] = "tryFull" => op'[t] = "TrySend"
        /\ pc'[t] = "tryEmpty" => op'[t] = "TryRead"
    BY <1>3 DEF Call, CallSend, CallRead, CallClose, AccountThreads,
       CheckSendDeadlockPossibility, CheckReadDeadlockPossibility, AfterCheck,
       HandleDeadlock, SyncAndOverflowPrework, SyncAndUnderflowPrework, CountUp, Leave,
       Return, SendOps, ReadOps
  <2>5. QED
    BY <2>1, <2>2, <2>3, <2>4 DEF CallerInv
<1>4. CASE Close(t) \/ ReadReserved(t)
  BY <1>4 DEF Close, ReadReserved, HasReserved, FlowInv
<1>5. CASE ResolveSendOverflowTry(t) \/ ResolveReadUnderflowTry(t)
  <2>1. /\ Ready(t) /\ UNCHANGED <<op, mutex>> /\ pc'[t] \notin {"idle", "tryFull", "tryEmpty"}
        /\ op[t] \in SendOps \/ op[t] \in ReadOps
        /\ \/ pc'[t] \in Working /\ todo' = todo
           \/ op[t] \in SendOps /\ Perform(t, Sync.cancelSend)
           \/ op[t] \in ReadOps /\ Perform(t, Sync.cancelRead)
    BY <1>5 DEF ResolveSendOverflowTry, ResolveReadUnderflowTry, OpInv, Working
  <2>2. QED
    BY <2>1, WorkCaller DEF CallerInv
<1>6. CASE WriteTail(t, "store", Sync.sent)
  <2>1. /\ Ready(t) /\ UNCHANGED <<op, mutex>> /\ pc'[t] = "countUp"
        /\ op[t] \in SendOps /\ Perform(t, Sync.sent)
    BY <1>6 DEF WriteTail, OpInv
  <2>2. QED
    BY <2>1, WorkCaller DEF CallerInv
<1>7. CASE LoadHead(t) \/ MoveHead(t) \/ AdvanceHead(t)
  <2>1. /\ Ready(t) /\ UNCHANGED <<op, mutex, todo>> /\ pc'[t] \in {"move", "advance", "countDown"}
    BY <1>7 DEF LoadHead, MoveHead, AdvanceHead, TodoInv, syncVars
  <2>2. QED
    BY <2>1, WorkCaller DEF CallerInv, Working
<1>8. CASE CountDown(t)
  <2>1. /\ Ready(t) /\ UNCHANGED <<op, mutex>> /\ pc'[t] = "return"
        /\ op[t] \in ReadOps /\ Perform(t, Sync.read)
    BY <1>8 DEF CountDown, OpInv, TodoInv
  <2>2. QED
    BY <2>1, WorkCaller DEF CallerInv
<1>9. QED
  BY <1>1, <1>2, <1>3, <1>4, <1>5, <1>6, <1>7, <1>8 DEF Step, Run, Proceed

FullInv == Inv /\ CountInv /\ FifoInv /\ \A t \in Threads : CallerInv(t)

LEMMA StepFull ==
  ASSUME InOrder, FullInv, Inv', CountInv', FifoInv', NEW t \in Threads, Step(t)
  PROVE  \A s \in Threads : CallerInv(s)'
<1>1. /\ BasicTypes /\ BasicTypes' /\ TodoInv(t) /\ OpInv(t) /\ FlowInv(t) /\ CallerInv(t)
      /\ pc[t] = "advance" => index[t] = head
  BY AtTheRing DEF FullInv, Inv, CountInv, FifoInv
<1>2. CallerInv(t)' /\ mutex' \in {mutex, t, NoThread}
  BY <1>1, StepCaller
<1>3. Others(t) /\ \A s \in Threads \ {t} : msg'[s] = msg[s]
  BY <1>1, StepOthers, StepOthersData
<1>4. ASSUME NEW s \in Threads \ {t} PROVE CallerInv(s)'
  <2>1. CallerInv(s) /\ s # NoThread /\ (mutex' = s => mutex = s)
    BY <1>2, ThreadsAssumption DEF FullInv
  <2>2. pc'[s] = pc[s] /\ op'[s] = op[s] /\ todo'[s] = todo[s] /\ msg'[s] = msg[s]
    BY <1>3 DEF Others
  <2>3. QED
    BY <2>1, <2>2 DEF CallerInv, Locked
<1>5. QED
  BY <1>2, <1>4

LEMMA FullAlways == InOrder => (Spec => []FullInv)
<1> SUFFICES ASSUME InOrder PROVE Spec => []FullInv
  OBVIOUS
<1> DEFINE Callers == \A t \in Threads : CallerInv(t)
<1>1. Spec => [](Inv /\ CountInv /\ FifoInv)
  BY FifoAlways
<1>2. Init => Callers
  BY ThreadsAssumption DEF Init, CallInit, SyncInit, CallerInv
<1>3. /\ Inv /\ CountInv /\ FifoInv /\ (Inv /\ CountInv /\ FifoInv)' /\ Callers /\ [Next]_vars
      => Callers'
  <2> SUFFICES ASSUME Inv, CountInv, FifoInv, Inv', CountInv', FifoInv', Callers, [Next]_vars
               PROVE  Callers'
    OBVIOUS
  <2>1. ASSUME NEW t \in Threads, Step(t) PROVE Callers'
    BY <2>1, StepFull DEF FullInv
  <2>2. CASE UNCHANGED vars
    BY <2>2 DEF CallerInv, Locked, vars, callVars, syncVars
  <2>3. QED
    BY <2>1, <2>2 DEF Next, Step
<1>4. QED
  BY <1>1, <1>2, <1>3, PTL DEF Spec, FullInv

-----------------------------------------------------------------------------
(* What the counter and the semaphores say when a call is alone. *)
LEMMA QueueLength ==
  ASSUME FullInv
  PROVE  /\ Len(Queue) = Stored /\ Stored \in Nat /\ Stored <= Capacity /\ Capacity \in Nat
         /\ Stored = 0 => Queue = <<>>
<1>1. /\ head \in Slots /\ tail \in Slots /\ Stored \in 0..Capacity /\ Contiguous
      /\ Capacity \in Nat
  BY BoundsHold, RingParts, CapacityAssumption
     DEF FullInv, Inv, BasicTypes, RingTypeOK, Bounds, FifoInv
<1>2. Queue = [k \in 1..Stored |-> Cell(Ahead(head, k))] /\ Stored \in Nat
  BY <1>1, QueueIs
<1>3. QED
  BY <1>1, <1>2

LEMMA Alone ==
  ASSUME FullInv, NEW t \in Threads, ~Fifo!Misled(t)
  PROVE  \A u \in Threads \ {t} :
           /\ pc[u] = "idle" /\ Pending(u) = {} /\ Holds(u) = {}
           /\ ~InRing(u) /\ ~Uncounts(u) /\ ~StillCounts(u)
<1> SUFFICES ASSUME NEW u \in Threads \ {t}
             PROVE  /\ pc[u] = "idle" /\ Pending(u) = {} /\ Holds(u) = {}
                    /\ ~InRing(u) /\ ~Uncounts(u) /\ ~StillCounts(u)
  OBVIOUS
<1>1. op[u] = "none" /\ FlowInv(u) /\ TodoInv(u) /\ OpInv(u)
  BY DEF Fifo!Misled, FullInv, Inv, CountInv, FifoInv
<1>2. pc[u] = "idle" /\ Ready(u) /\ kept[u] = {}
  BY <1>1 DEF FlowInv, TodoInv, OpInv
<1>3. Pending(u) = {} /\ ~AtWork(u)
  BY <1>2, PendingItems DEF AtWork, Working
<1>4. QED
  BY <1>2, <1>3, HoldsOf DEF InRing, Uncounts, StillCounts, AtWork

LEMMA CountWhenAlone ==
  ASSUME FullInv, NEW t \in Threads, pc[t] \notin {"countUp", "countDown"}, ~Fifo!Misled(t)
  PROVE  count = Stored
<1>1. InRing(t) <=> StillCounts(t)
  BY RingAndCount DEF FullInv, CountInv
<1>2. RingCredits = StillCounted
  BY <1>1, Alone DEF RingCredits, StillCounted
<1>3. Uncounted = {}
  BY Alone DEF Uncounted, Uncounts
<1>4. Counted = Stored /\ Stored \in Nat
  <2>1. Cardinality(Uncounted) = 0 /\ occupied \in Nat /\ Cardinality(StillCounted) \in Nat
    BY <1>3, FS_EmptySet, SetsFinite DEF FullInv, Inv, BasicTypes
  <2>2. QED
    BY <1>2, <2>1 DEF Counted, Stored
<1>5. QED
  BY <1>4 DEF FullInv, CountInv, FifoInv, RingInv

(* A thread that is still to acquire its credit. *)
LEMMA SemaphoresWhenAlone ==
  ASSUME FullInv, NEW t \in Threads, Pending(t) \cap Acquires # {},
         Pending(t) \cap Releases = {}, ~Fifo!Misled(t)
  PROVE  /\ free = 0 => Stored = Capacity
         /\ occupied = 0 => Stored = 0
<1>1. kept[t] = {} /\ ~AtWork(t) /\ ~InRing(t) /\ Holds(t) = {}
  <2>1. kept[t] = {} /\ ~AtWork(t)
    BY DEF FullInv, CountInv, OpInv, AtWork
  <2>2. QED
    BY <2>1, HoldsOf, Disjoint DEF InRing
<1>2. Held = {} /\ RingCredits = {}
  BY <1>1, Alone, HeldElements DEF RingCredits
<1>3. free + occupied + 0 = Capacity /\ Stored = occupied + 0 /\ occupied \in Nat /\ free \in Nat
  BY <1>2, FS_EmptySet DEF FullInv, Inv, BasicTypes, CreditsConserved, Held, Stored
<1>4. QED
  BY <1>3, CapacityAssumption

LEMMA FullOrMisled ==
  ASSUME FullInv, NEW t \in Threads,
         \/ pc[t] \notin {"countUp", "countDown"} /\ IsFull
         \/ Pending(t) \cap Acquires # {} /\ Pending(t) \cap Releases = {} /\ free = 0
  PROVE  Fifo!Full \/ Fifo!Misled(t)
<1> SUFFICES ASSUME ~Fifo!Misled(t) PROVE Fifo!Full
  OBVIOUS
<1>1. CASE pc[t] \notin {"countUp", "countDown"} /\ IsFull
  <2>1. count = Stored
    BY <1>1, CountWhenAlone
  <2>2. QED
    BY <1>1, <2>1, QueueLength DEF IsFull, Fifo!Full
<1>2. CASE Pending(t) \cap Acquires # {} /\ Pending(t) \cap Releases = {} /\ free = 0
  BY <1>2, SemaphoresWhenAlone, QueueLength DEF Fifo!Full
<1>3. QED
  BY <1>1, <1>2

LEMMA EmptyOrMisled ==
  ASSUME FullInv, NEW t \in Threads,
         \/ pc[t] \notin {"countUp", "countDown"} /\ IsEmpty
         \/ Pending(t) \cap Acquires # {} /\ Pending(t) \cap Releases = {} /\ occupied = 0
  PROVE  Fifo!Empty \/ Fifo!Misled(t)
<1> SUFFICES ASSUME ~Fifo!Misled(t) PROVE Fifo!Empty
  OBVIOUS
<1>1. CASE pc[t] \notin {"countUp", "countDown"} /\ IsEmpty
  <2>1. count = Stored
    BY <1>1, CountWhenAlone
  <2>2. QED
    BY <1>1, <2>1, QueueLength DEF IsEmpty, Fifo!Empty
<1>2. CASE Pending(t) \cap Acquires # {} /\ Pending(t) \cap Releases = {} /\ occupied = 0
  BY <1>2, SemaphoresWhenAlone, QueueLength DEF Fifo!Empty
<1>3. QED
  BY <1>1, <1>2

(* A try_lock that fails meets another read. *)
LEMMA LockedByAnother ==
  ASSUME FullInv, NEW t \in Threads, OwnStep(op[t], pc[t], todo[t]),
         Head(todo[t]) = "mutex.try_lock", mutex # NoThread
  PROVE  Fifo!Misled(t)
<1>1. Awaits(todo[t]) /\ ~Owes(todo[t])
  BY DEF OwnStep
<1>2. mutex # t
  BY <1>1 DEF FullInv, CallerInv, Locked
<1>3. mutex \in Threads \ {t} /\ op[mutex] \in LockOps
  BY <1>2 DEF FullInv, Inv, BasicTypes, CallerInv
<1>4. op[mutex] # "none"
  BY <1>3 DEF LockOps, SendOps, ReadOps
<1>5. QED
  BY <1>3, <1>4 DEF Fifo!Misled

-----------------------------------------------------------------------------
(* The steps of BoundedFifo, in terms of this module's variables. *)
LEMMA HandsMove ==
  ASSUME NEW t \in Threads, Others(t), \A s \in Threads \ {t} : msg'[s] = msg[s]
  PROVE  /\ InHand' = [InHand EXCEPT ![t] = InHand'[t]]
         /\ InHand[t] = IF pc[t] \in {"move", "advance"} THEN NoMessage ELSE msg[t]
         /\ InHand'[t] = IF pc'[t] \in {"move", "advance"} THEN NoMessage ELSE msg'[t]
         /\ InHand'[t] = InHand[t] => InHand' = InHand
<1>1. \A s \in Threads \ {t} : InHand'[s] = InHand[s]
  BY DEF InHand, Unadvanced, Others
<1>2. /\ InHand[t] = IF pc[t] \in {"move", "advance"} THEN NoMessage ELSE msg[t]
      /\ InHand'[t] = IF pc'[t] \in {"move", "advance"} THEN NoMessage ELSE msg'[t]
  BY DEF InHand, Unadvanced
<1>3. /\ InHand = [s \in Threads |-> InHand[s]]
      /\ InHand' = [s \in Threads |-> InHand'[s]]
  BY DEF InHand
<1> HIDE DEF InHand
<1>4. QED
  BY <1>1, <1>2, <1>3

LEMMA Stutters ==
  ASSUME Queue' = Queue, InHand' = InHand, UNCHANGED <<op, outcome>>
  PROVE  UNCHANGED Fifo!vars
  BY DEF Fifo!vars

LEMMA Refuses ==
  ASSUME NEW t \in Threads, NEW why \in {"false", "deadlock"},
         op[t] # "none", outcome[t] = "none", Fifo!MayRefuse(t, why), Decide(t, why),
         Queue' = Queue, InHand' = InHand, UNCHANGED op
  PROVE  Fifo!Step(t)
  BY DEF Fifo!Step, Fifo!Refuse, Fifo!Running, Fifo!Decide, Decide

(* Storing a message is the moment a send takes effect.                    *)
LEMMA StorePuts ==
  ASSUME FullInv, Inv', CountInv', FifoInv', NEW t \in Threads, Step(t),
         WriteTail(t, "store", Sync.sent), op[t] \in SendOps, msg[t] \in Messages,
         StoredAt(msg[t]), Stored < Capacity, Stored' = Stored + 1
  PROVE  Fifo!Step(t)
<1>1. Inv /\ CountInv /\ FifoInv /\ BasicTypes
  BY DEF FullInv, Inv
<1>2. Queue' = Append(Queue, msg[t])
  BY <1>1, QueueGrows
<1>3. /\ pc[t] = "store" /\ pc'[t] = "countUp" /\ msg'[t] = NoMessage
      /\ Decide(t, "returned") /\ op' = op
  BY <1>1 DEF WriteTail, Goto, BasicTypes, CallTypeOK
<1>4. InHand[t] = msg[t] /\ InHand' = [InHand EXCEPT ![t] = NoMessage]
  BY <1>1, <1>3, StepOthers, StepOthersData, HandsMove
<1>5. op[t] # "none" /\ outcome[t] = "none"
  BY <1>1, <1>3 DEF FifoInv, FlowInv, Undecided, SendOps
<1>6. ~Fifo!Full
  BY QueueLength DEF Fifo!Full
<1>7. QED
  BY <1>2, <1>3, <1>4, <1>5, <1>6
     DEF Fifo!Step, Fifo!Put, Fifo!Running, Fifo!Decide, Fifo!SendOps, SendOps, Decide

(* ... and advancing the head the moment a read does.                      *)
LEMMA AdvanceTakes ==
  ASSUME InOrder, FullInv, Inv', CountInv', FifoInv', NEW t \in Threads, Step(t),
         AdvanceHead(t), op[t] \in ReadOps, TakenFrom, Stored > 0, Stored' = Stored - 1,
         Cell(head) = msg[t]
  PROVE  Fifo!Step(t)
<1>1. Inv /\ CountInv /\ FifoInv /\ BasicTypes
  BY DEF FullInv, Inv
<1>2. Queue # <<>> /\ Head(Queue) = msg[t] /\ Queue' = Tail(Queue)
  BY <1>1, QueueShrinks
<1>3. pc[t] = "advance" /\ index[t] = head
  BY <1>1, AtTheRing DEF AdvanceHead
<1>4. pc'[t] = "countDown" /\ msg' = msg /\ Decide(t, "returned") /\ op' = op
  BY <1>1, <1>3 DEF AdvanceHead, Goto, BasicTypes, CallTypeOK, InOrder
<1>5. InHand' = [InHand EXCEPT ![t] = msg[t]]
  BY <1>1, <1>4, StepOthers, StepOthersData, HandsMove
<1>6. op[t] # "none" /\ outcome[t] = "none"
  BY <1>1, <1>3 DEF FifoInv, FlowInv, Undecided, ReadOps
<1>7. QED
  BY <1>2, <1>4, <1>5, <1>6
     DEF Fifo!Step, Fifo!Take, Fifo!Running, Fifo!Empty, Fifo!Decide, Fifo!ReadOps, ReadOps,
         Decide

LEMMA CallInvokes ==
  ASSUME InOrder, FullInv, NEW t \in Threads, Step(t), Call(t), Queue' = Queue
  PROVE  Fifo!Step(t)
<1>1. BasicTypes /\ FlowInv(t) /\ CallerInv(t)
  BY DEF FullInv, Inv, FifoInv
<1>2. CallSend(t) \/ CallRead(t)
  BY DEF Call, CallClose, InOrder
<1>3. /\ pc[t] = "idle" /\ pc'[t] \in {"check", "return"}
      /\ UNCHANGED outcome \/ (Policy = "kOnThreadRoleChange" /\ Decide(t, "roleChange"))
  BY <1>1, <1>2 DEF CallSend, CallRead, Enter, AccountThreads, RoleAccepted, Finish, Goto,
     BasicTypes, CallTypeOK
<1>4. op[t] = "none" /\ InHand[t] = NoMessage /\ InHand' = [InHand EXCEPT ![t] = msg'[t]]
  <2>1. op[t] = "none" /\ msg[t] = NoMessage
    BY <1>1, <1>3 DEF FlowInv, CallerInv
  <2>2. Others(t) /\ \A s \in Threads \ {t} : msg'[s] = msg[s]
    BY <1>1, StepOthers, StepOthersData
  <2>3. /\ InHand' = [InHand EXCEPT ![t] = InHand'[t]]
        /\ InHand[t] = msg[t] /\ InHand'[t] = msg'[t]
    BY <1>3, <2>2, HandsMove
  <2>4. QED
    BY <2>1, <2>3
<1>5. CASE CallSend(t)
  <2>1. PICK o \in SendOps, m \in Messages : Enter(t, o, m)
    BY <1>5 DEF CallSend
  <2>2. InHand' = [InHand EXCEPT ![t] = m] /\ op' = [op EXCEPT ![t] = o]
    BY <1>1, <1>4, <2>1 DEF Enter, BasicTypes, CallTypeOK
  <2>3. QED
    BY <1>3, <1>4, <2>1, <2>2
       DEF Fifo!Step, Fifo!Invoke, Fifo!Decide, Fifo!SendOps, SendOps, Decide
<1>6. CASE CallRead(t)
  <2>1. PICK o \in ReadOps : Enter(t, o, NoMessage)
    BY <1>6 DEF CallRead
  <2>2. InHand'[t] = InHand[t] /\ op' = [op EXCEPT ![t] = o]
    BY <1>1, <1>4, <2>1 DEF Enter, BasicTypes, CallTypeOK, InHand
  <2>3. InHand' = InHand
    BY <1>1, <2>2, StepOthers, StepOthersData, HandsMove
  <2>4. QED
    BY <1>3, <1>4, <2>1, <2>2, <2>3
       DEF Fifo!Step, Fifo!Invoke, Fifo!Decide, Fifo!ReadOps, ReadOps, Decide
<1>7. QED
  BY <1>2, <1>5, <1>6

(* A refusal for the reason of a full or of an empty queue. *)
LEMMA RefusesFull ==
  ASSUME FullInv, NEW t \in Threads, outcome[t] = "none",
         \/ pc[t] \notin {"countUp", "countDown"} /\ IsFull
         \/ Pending(t) \cap Acquires # {} /\ Pending(t) \cap Releases = {} /\ free = 0,
         \/ op[t] = "TrySend" /\ Decide(t, "false")
         \/ op[t] = "Send" /\ Policy # "kNoException" /\ Decide(t, "deadlock"),
         Queue' = Queue, InHand' = InHand, UNCHANGED op
  PROVE  Fifo!Step(t)
<1>1. Fifo!Full \/ Fifo!Misled(t)
  BY FullOrMisled
<1>2. PICK why \in {"false", "deadlock"} : Fifo!MayRefuse(t, why) /\ Decide(t, why)
  BY <1>1 DEF Fifo!MayRefuse
<1>3. QED
  BY <1>2, Refuses

LEMMA RefusesEmpty ==
  ASSUME FullInv, NEW t \in Threads, outcome[t] = "none",
         \/ Fifo!Misled(t)
         \/ pc[t] \notin {"countUp", "countDown"} /\ IsEmpty
         \/ Pending(t) \cap Acquires # {} /\ Pending(t) \cap Releases = {} /\ occupied = 0,
         \/ op[t] = "TryRead" /\ Decide(t, "false")
         \/ op[t] = "Read" /\ Policy # "kNoException" /\ Decide(t, "deadlock"),
         Queue' = Queue, InHand' = InHand, UNCHANGED op
  PROVE  Fifo!Step(t)
<1>1. Fifo!Empty \/ Fifo!Misled(t)
  BY EmptyOrMisled
<1>2. PICK why \in {"false", "deadlock"} : Fifo!MayRefuse(t, why) /\ Decide(t, why)
  BY <1>1 DEF Fifo!MayRefuse
<1>3. QED
  BY <1>2, Refuses

LEMMA SyncStepRefines ==
  ASSUME InOrder, FullInv, NEW t \in Threads, SyncStep(t), Step(t), Queue' = Queue
  PROVE  Fifo!Step(t) \/ UNCHANGED Fifo!vars
<1> DEFINE H == Head(todo[t])
<1>1. BasicTypes /\ TodoInv(t) /\ OpInv(t) /\ FlowInv(t)
  BY DEF FullInv, Inv, CountInv, FifoInv
<1>2. CASE TryAcquireFreeFails(t) \/ TryAcquireOccupiedFails(t) \/ TryLockMutexFails(t)
  <2>1. /\ ~Ready(t) /\ GiveUp(t) /\ UNCHANGED <<op, msg>> /\ Decide(t, "false")
        /\ \/ H = "free.try_acquire" /\ free = 0
           \/ H = "occupied.try_acquire" /\ occupied = 0
           \/ H = "mutex.try_lock" /\ mutex # NoThread
    BY <1>2 DEF TryAcquireFreeFails, TryAcquireOccupiedFails, TryLockMutexFails, GiveUp, Finish
  <2>2. /\ Pending(t) \cap Acquires # {} /\ Pending(t) \cap Releases = {}
        /\ pc'[t] = "return"
    BY <1>1, <2>1, GivingUp
  <2>3. pc[t] \in {"tryFull", "store", "tryEmpty", "take"}
    BY <1>1, <2>2 DEF TodoInv
  <2>4. outcome[t] = "none" /\ pc[t] \notin {"move", "advance"}
    BY <1>1, <2>3 DEF FlowInv, Undecided
  <2>5. InHand' = InHand
    BY <1>1, <2>1, <2>2, <2>4, StepOthers, StepOthersData, HandsMove
  <2>6. OwnStep(op[t], pc[t], todo[t])
    BY <1>1, <2>1, OwnSteps DEF InOrder
  <2>7. CASE H = "free.try_acquire" /\ free = 0
    <3>1. op[t] = "TrySend"
      BY <2>6, <2>7 DEF OwnStep
    <3>2. QED
      BY <2>1, <2>2, <2>4, <2>5, <2>7, <3>1, RefusesFull
  <2>8. CASE H = "occupied.try_acquire" /\ occupied = 0
    <3>1. op[t] = "TryRead"
      BY <2>6, <2>8 DEF OwnStep
    <3>2. QED
      BY <2>1, <2>2, <2>4, <2>5, <2>8, <3>1, RefusesEmpty
  <2>9. CASE H = "mutex.try_lock" /\ mutex # NoThread
    <3>1. op[t] = "TryRead" /\ Fifo!Misled(t)
      BY <2>6, <2>9, LockedByAnother DEF OwnStep
    <3>2. QED
      BY <2>1, <2>4, <2>5, <3>1, RefusesEmpty
  <2>10. QED
    BY <2>1, <2>7, <2>8, <2>9
<1>3. CASE ~(TryAcquireFreeFails(t) \/ TryAcquireOccupiedFails(t) \/ TryLockMutexFails(t))
  <2>1. UNCHANGED callVars
    BY <1>3 DEF SyncStep, AcquireFree, TakeFreeIfAny, ReleaseFree, AcquireOccupied,
       ReleaseOccupied, LockMutex, UnlockMutex, ReserveWriteSlot, ReserveReadSlot
  <2>2. InHand' = InHand
    BY <2>1 DEF callVars, InHand, Unadvanced
  <2>3. QED
    BY <2>1, <2>2, Stutters DEF callVars
<1>4. QED
  BY <1>2, <1>3

(* The other steps that leave the messages of the ring alone. *)
LEMMA StaysRefines ==
  ASSUME InOrder, FullInv, NEW t \in Threads, Step(t), Queue' = Queue,
         ~WriteTail(t, "store", Sync.sent), ~AdvanceHead(t)
  PROVE  Fifo!Step(t) \/ UNCHANGED Fifo!vars
<1>1. BasicTypes /\ TodoInv(t) /\ OpInv(t) /\ FlowInv(t)
  BY DEF FullInv, Inv, CountInv, FifoInv
<1>2. /\ InHand' = [InHand EXCEPT ![t] = InHand'[t]]
      /\ InHand[t] = IF pc[t] \in {"move", "advance"} THEN NoMessage ELSE msg[t]
      /\ InHand'[t] = IF pc'[t] \in {"move", "advance"} THEN NoMessage ELSE msg'[t]
      /\ InHand'[t] = InHand[t] => InHand' = InHand
  BY <1>1, StepOthers, StepOthersData, HandsMove
<1>3. ASSUME pc[t] \notin {"move", "advance"}, pc'[t] \notin {"move", "advance"}, msg' = msg
      PROVE  InHand' = InHand
  BY <1>2, <1>3
<1> USE DEF Goto, Finish, BasicTypes, CallTypeOK
<1>4. CASE SyncStep(t)
  BY <1>4, SyncStepRefines
<1>5. CASE Call(t)
  BY <1>5, CallInvokes
<1>6. CASE Emplace(t) \/ StoreMessageThrows(t) \/ PopMessageThrows(t)
  BY <1>1, <1>6 DEF Emplace, Replaced, StoreMessageThrows, PopMessageThrows, OpInv, InOrder
<1>7. CASE CheckSendDeadlockPossibility(t) \/ CheckReadDeadlockPossibility(t)
  <2>1. pc[t] = "check" /\ pc'[t] \in {"sync", "return"} /\ UNCHANGED <<op, msg>>
    BY <1>1, <1>7 DEF CheckSendDeadlockPossibility, CheckReadDeadlockPossibility, AfterCheck,
       HandleDeadlock
  <2>2. InHand' = InHand /\ outcome[t] = "none"
    BY <1>1, <1>3, <2>1 DEF FlowInv, Undecided
  <2>3. CASE UNCHANGED outcome
    BY <2>1, <2>2, <2>3, Stutters
  <2>4. CASE ~UNCHANGED outcome
    <3>1. \/ /\ IsFull
             /\ \/ op[t] = "TrySend" /\ Decide(t, "false")
                \/ op[t] = "Send" /\ Policy # "kNoException" /\ Decide(t, "deadlock")
          \/ /\ IsEmpty
             /\ \/ op[t] = "TryRead" /\ Decide(t, "false")
                \/ op[t] = "Read" /\ Policy # "kNoException" /\ Decide(t, "deadlock")
      BY <1>7, <2>4 DEF CheckSendDeadlockPossibility, CheckReadDeadlockPossibility, AfterCheck,
         HandleDeadlock, TryOps, SendOps, ReadOps
    <3>2. QED
      BY <2>1, <2>2, <3>1, RefusesFull, RefusesEmpty
  <2>5. QED
    BY <2>3, <2>4
<1>8. CASE ResolveSendOverflowTry(t) \/ ResolveReadUnderflowTry(t)
  <2>1. /\ pc[t] \in {"tryFull", "tryEmpty"} /\ pc'[t] \in {"store", "take", "return"}
        /\ UNCHANGED <<op, msg>>
    BY <1>1, <1>8 DEF ResolveSendOverflowTry, ResolveReadUnderflowTry
  <2>2. InHand' = InHand /\ outcome[t] = "none"
    BY <1>1, <1>3, <2>1 DEF FlowInv, Undecided
  <2>3. CASE UNCHANGED outcome
    BY <2>1, <2>2, <2>3, Stutters
  <2>4. CASE ~UNCHANGED outcome
    <3>1. \/ IsFull /\ pc[t] = "tryFull" /\ Decide(t, "false")
          \/ IsEmpty /\ pc[t] = "tryEmpty" /\ Decide(t, "false")
      BY <1>8, <2>4 DEF ResolveSendOverflowTry, ResolveReadUnderflowTry
    <3>2. /\ pc[t] = "tryFull" => op[t] = "TrySend"
          /\ pc[t] = "tryEmpty" => op[t] = "TryRead"
      BY DEF FullInv, CallerInv
    <3>3. QED
      BY <2>1, <2>2, <3>1, <3>2, RefusesFull, RefusesEmpty
  <2>5. QED
    BY <2>3, <2>4
<1>9. CASE \/ SyncAndOverflowPrework(t) \/ SyncAndUnderflowPrework(t, Sync[op[t]])
           \/ CountUp(t) \/ CountDown(t)
  <2>1. /\ pc[t] \in {"sync", "countUp", "countDown"}
        /\ pc'[t] \in {"store", "tryFull", "take", "tryEmpty", "return"}
        /\ UNCHANGED <<op, msg, outcome>>
    BY <1>1, <1>9 DEF SyncAndOverflowPrework, SyncAndUnderflowPrework, CountUp, CountDown
  <2>2. QED
    BY <1>3, <2>1, Stutters
<1>10. CASE LoadHead(t) \/ MoveHead(t)
  <2>1. /\ pc[t] \in {"take", "move"} /\ pc'[t] \in {"move", "advance"}
        /\ UNCHANGED <<op, outcome>>
    BY <1>1, <1>10 DEF LoadHead, MoveHead
  <2>2. pc[t] = "take" => msg[t] = NoMessage
    <3>1. pc[t] = "take" => op[t] \in ReadOps /\ outcome[t] = "none"
      BY <1>1 DEF OpInv, FlowInv, Undecided
    <3>2. QED
      BY <1>1, <3>1 DEF FlowInv
  <2>3. QED
    BY <1>2, <2>1, <2>2, Stutters
<1>11. CASE Close(t) \/ ReadReserved(t)
  BY <1>1, <1>11 DEF Close, ReadReserved, HasReserved, FlowInv
<1>12. CASE Leave(t)
  <2>1. /\ pc[t] = "return" /\ pc'[t] = "idle" /\ op' = [op EXCEPT ![t] = "none"]
        /\ msg'[t] = NoMessage /\ Decide(t, "none")
    BY <1>1, <1>12 DEF Leave, Return
  <2>2. InHand' = [InHand EXCEPT ![t] = NoMessage]
    BY <1>2, <2>1
  <2>3. outcome[t] # "none"
    BY <1>1, <2>1 DEF FlowInv, Undecided
  <2>4. QED
    BY <2>1, <2>2, <2>3 DEF Fifo!Step, Fifo!Return, Fifo!Decide, Decide
<1>13. QED
  BY <1>4, <1>5, <1>6, <1>7, <1>8, <1>9, <1>10, <1>11, <1>12 DEF Step, Run, Proceed

LEMMA InitRefines == InOrder /\ Init => Fifo!Init
<1> SUFFICES ASSUME InOrder, Init PROVE Fifo!Init
  OBVIOUS
<1>1. Queue = <<>>
  <2>1. Inv /\ CountInv /\ FifoInv
    BY InitInv, InitCountInv, InitFifo
  <2>2. \A t \in Threads : CallerInv(t)
    BY ThreadsAssumption DEF Init, CallInit, SyncInit, CallerInv
  <2>3. FullInv
    BY <2>1, <2>2 DEF FullInv
  <2>4. \A t \in Threads : ~InRing(t)
    <3>1. \A t \in Threads : Ready(t) /\ pc[t] = "idle"
      BY DEF Init, CallInit, SyncInit, Ready
    <3>2. QED
      BY <3>1, RingWhenReady DEF Working
  <2>5. Stored = 0
    <3>1. RingCredits = {} /\ occupied = 0
      BY <2>4 DEF RingCredits, Init, SyncInit
    <3>2. QED
      BY <3>1, FS_EmptySet DEF Stored
  <2>6. QED
    BY <2>3, <2>5, QueueLength
<1>2. InHand = [t \in Threads |-> NoMessage]
  BY DEF InHand, Unadvanced, Init, CallInit
<1>3. QED
  BY <1>1, <1>2 DEF Fifo!Init, Init, CallInit

(* Every execution of an SPSC, MPSC or SPMC circular queue is one of a     *)
(* bounded FIFO: no message is lost, duplicated, invented or overtaken,    *)
(* whatever the number of threads and the capacity, and a call that gives  *)
(* up finds the queue full or empty unless another call is under way.      *)
THEOREM Refinement == InOrder => (Spec => ImplementsFifo)
<1> SUFFICES ASSUME InOrder PROVE Spec => ImplementsFifo
  OBVIOUS
<1>1. FullInv /\ FullInv' /\ [Next]_vars => [Fifo!Next]_Fifo!vars
  <2> SUFFICES ASSUME FullInv, FullInv', [Next]_vars PROVE [Fifo!Next]_Fifo!vars
    OBVIOUS
  <2>1. Inv /\ CountInv /\ FifoInv /\ Inv' /\ CountInv' /\ FifoInv'
    BY DEF FullInv
  <2>2. ASSUME NEW t \in Threads, Step(t) PROVE Fifo!Step(t) \/ UNCHANGED Fifo!vars
    <3>1. RingStep(t)
      BY <2>1, <2>2, StepFifo
    <3>2. CASE /\ Stays /\ Stored' = Stored
               /\ ~WriteTail(t, "store", Sync.sent) /\ ~AdvanceHead(t)
      <4>1. Queue' = Queue
        BY <2>1, <3>2, QueueStays
      <4>2. QED
        BY <2>2, <3>2, <4>1, StaysRefines
    <3>3. CASE /\ WriteTail(t, "store", Sync.sent) /\ op[t] \in SendOps /\ msg[t] \in Messages
               /\ StoredAt(msg[t]) /\ Stored < Capacity /\ Stored' = Stored + 1
      BY <2>1, <2>2, <3>3, StorePuts
    <3>4. CASE /\ AdvanceHead(t) /\ op[t] \in ReadOps
               /\ TakenFrom /\ Stored > 0 /\ Stored' = Stored - 1 /\ Cell(head) = msg[t]
      BY <2>1, <2>2, <3>4, AdvanceTakes
    <3>5. QED
      BY <3>1, <3>2, <3>3, <3>4 DEF RingStep
  <2>3. CASE UNCHANGED vars
    <3>1. UNCHANGED <<pc, op, msg, outcome, index, buffer, head, tail>>
      BY <2>3 DEF vars, callVars, syncVars, ringVars
    <3>2. InHand' = InHand
      BY <3>1 DEF InHand, Unadvanced
    <3>3. \A i : Cell(i)' = Cell(i)
      BY <3>1 DEF Cell, Content
    <3>4. Size' = Size
      BY <3>1, <3>3 DEF Size
    <3>5. Queue' = Queue
      BY <3>1, <3>3, <3>4 DEF Queue
    <3>6. QED
      BY <3>1, <3>2, <3>5, Stutters
  <2>4. QED
    BY <2>2, <2>3 DEF Next, Step, Fifo!Next
<1>2. Init => Fifo!Init
  BY InitRefines
<1>3. Spec => []FullInv
  BY FullAlways
<1>4. QED
  BY <1>1, <1>2, <1>3, PTL DEF Spec, ImplementsFifo, Fifo!Spec
=============================================================================
