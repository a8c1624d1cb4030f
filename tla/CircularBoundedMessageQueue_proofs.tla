----------------- MODULE CircularBoundedMessageQueue_proofs -----------------
(***************************************************************************)
(* Proofs about the bounded circular queue, for the four thread categories *)
(* at once, every set of threads and every capacity, with assignments that *)
(* throw and with Close at any moment.  What a category does enters only   *)
(* through what its programs are made of.                                  *)
(***************************************************************************)
EXTENDS CircularBoundedMessageQueue, FiniteSetTheorems, TLAPS

Items(program) == {program[i] : i \in 1..Len(program)}

Credits == Acquires \cup Releases

(* The programs of the bounded queue, and what is left of them on the way: *)
(* at most one primitive moves a credit, and a try_lock comes right before *)
(* an acquire, so that a call that gives up there holds nothing.           *)
Sound(program) ==
  /\ Items(program) \subseteq Primitives \ {"free.take_if_any", "overwrite_mode.set"}
  /\ \A i, j \in 1..Len(program) :
       program[i] \in Credits /\ program[j] \in Credits => i = j
  /\ \A i \in 1..Len(program) :
       program[i] = "mutex.try_lock" =>
         i + 1 \in 1..Len(program) /\ program[i + 1] \in Acquires

Working == {"tryFull", "store", "tryEmpty", "take", "move", "advance", "countDown"}

(* Where the thread is in the programs its call runs. *)
TodoInv(t) ==
  /\ Sound(todo[t])
  /\ pc[t] \in {"idle", "check", "sync", "close", "move", "advance", "countDown"} => Ready(t)
  /\ Pending(t) \cap Acquires # {} => pc[t] \in {"tryFull", "store", "tryEmpty", "take"}
  /\ pc[t] \in {"move", "advance", "countDown"} => "read" \notin kept[t]
  /\ pc[t] \in {"move", "advance"} => HasReserved(t)

(* TypeOK without the bounds of the semaphores, which follow from the      *)
(* conservation of credits.                                                *)
BasicTypes ==
  /\ CallTypeOK(Labels)
  /\ free \in Nat /\ occupied \in Nat
  /\ mutex \in Threads \cup {NoThread}
  /\ writeSeq \in Slots /\ readSeq \in Slots
  /\ index \in [Threads -> Slots \cup {NoSlot}]
  /\ todo \in [Threads -> Seq(Primitives)]
  /\ RingTypeOK
  /\ kept \in [Threads -> SUBSET {"sent", "read"}]

Inv ==
  /\ BasicTypes
  /\ \A t \in Threads : TodoInv(t)
  /\ CreditsConserved

-----------------------------------------------------------------------------
(* What a primitive leaves of a program. *)
LEMMA SoundTail ==
  ASSUME NEW program \in Seq(Primitives), Sound(program), program # <<>>
  PROVE  /\ Tail(program) \in Seq(Primitives) /\ Sound(Tail(program))
         /\ Items(program) = {Head(program)} \cup Items(Tail(program))
         /\ Head(program) \in Items(program)
         /\ Head(program) \in Credits => Items(Tail(program)) \cap Credits = {}
         /\ Head(program) = "mutex.try_lock" => Items(program) \cap Acquires # {}
<1> DEFINE rest == Tail(program)
<1>1. /\ Len(program) \in Nat /\ Len(program) > 0
      /\ rest \in Seq(Primitives) /\ Len(rest) = Len(program) - 1
      /\ \A i \in 1..Len(rest) : rest[i] = program[i + 1]
      /\ Head(program) = program[1]
  OBVIOUS
<1> HIDE DEF rest
<1>2. \A i \in 1..Len(rest) : i + 1 \in 1..Len(program)
  BY <1>1
<1>3. ASSUME NEW j \in 1..Len(program), j # 1
      PROVE  j - 1 \in 1..Len(rest) /\ rest[j - 1] = program[j]
  <2>1. j - 1 \in 1..Len(rest) /\ (j - 1) + 1 = j
    BY <1>1, <1>3
  <2>2. QED
    BY <1>1, <2>1
<1>4. Items(program) = {Head(program)} \cup Items(rest) /\ Head(program) \in Items(program)
  <2>1. Head(program) \in Items(program)
    BY <1>1 DEF Items
  <2>2. Items(rest) \subseteq Items(program)
    BY <1>1, <1>2 DEF Items
  <2>3. ASSUME NEW x \in Items(program) PROVE x = Head(program) \/ x \in Items(rest)
    <3>1. PICK j \in 1..Len(program) : x = program[j]
      BY DEF Items
    <3>2. QED
      BY <1>1, <1>3, <3>1 DEF Items
  <2>4. QED
    BY <2>1, <2>2, <2>3
<1>5. Sound(rest)
  <2>1. Items(rest) \subseteq Primitives \ {"free.take_if_any", "overwrite_mode.set"}
    BY <1>4 DEF Sound
  <2>2. ASSUME NEW i \in 1..Len(rest), NEW j \in 1..Len(rest),
               rest[i] \in Credits, rest[j] \in Credits
        PROVE  i = j
    <3>1. program[i + 1] \in Credits /\ program[j + 1] \in Credits
      BY <1>1, <2>2
    <3>2. i + 1 = j + 1
      BY <1>2, <3>1 DEF Sound
    <3>3. QED
      BY <3>2
  <2>3. ASSUME NEW i \in 1..Len(rest), rest[i] = "mutex.try_lock"
        PROVE  i + 1 \in 1..Len(rest) /\ rest[i + 1] \in Acquires
    <3>1. program[i + 1] = "mutex.try_lock" /\ i + 1 \in 1..Len(program)
      BY <1>1, <1>2, <2>3
    <3>2. i + 1 + 1 \in 1..Len(program) /\ program[i + 1 + 1] \in Acquires
      BY <3>1 DEF Sound
    <3>3. i + 1 \in 1..Len(rest)
      BY <1>1, <3>2
    <3>4. QED
      BY <1>1, <3>2, <3>3
  <2>4. QED
    BY <2>1, <2>2, <2>3 DEF Sound
<1>6. Head(program) \in Credits => Items(rest) \cap Credits = {}
  BY <1>1, <1>2 DEF Sound, Items
<1>7. Head(program) = "mutex.try_lock" => Items(program) \cap Acquires # {}
  BY <1>1 DEF Sound, Items
<1>8. QED
  BY <1>1, <1>4, <1>5, <1>6, <1>7 DEF rest

(* A program moves one credit at most. *)
LEMMA OneCredit ==
  ASSUME NEW program \in Seq(Primitives), Sound(program),
         NEW x \in Items(program) \cap Credits
  PROVE  Items(program) \cap Credits = {x}
  BY DEF Sound, Items

(* The shapes of the programs of every category. *)
Neutral == {"mutex.lock", "mutex.unlock", "write_seq.add", "read_seq.add"}

Acquiring(program) ==
  /\ program \in Seq(Primitives) /\ Sound(program)
  /\ Items(program) \cap Acquires # {} /\ Items(program) \cap Releases = {}

Releasing(program, release) ==
  /\ program \in Seq(Primitives) /\ Sound(program)
  /\ Items(program) \cap Credits = {release}

LEMMA ItemsOf ==
  /\ \A a : Items(<<a>>) = {a}
  /\ \A a, b : Items(<<a, b>>) = {a, b}
  BY DEF Items

(* The programs a call is left with when it gives up. *)
LEMMA FreePrograms ==
  \A p \in {<<>>, <<"mutex.unlock">>} :
    p \in Seq(Primitives) /\ Sound(p) /\ Items(p) \cap Credits = {}
<1>1. Items(<<>>) = {} /\ Items(<<"mutex.unlock">>) = {"mutex.unlock"}
  BY ItemsOf DEF Items
<1>2. <<>> \in Seq(Primitives) /\ Sound(<<>>) /\ Items(<<>>) \cap Credits = {}
  BY <1>1 DEF Sound
<1>3. /\ <<"mutex.unlock">> \in Seq(Primitives) /\ Sound(<<"mutex.unlock">>)
      /\ Items(<<"mutex.unlock">>) \cap Credits = {}
  BY <1>1 DEF Sound, Primitives, Credits, Acquires, Releases
<1>4. QED
  BY <1>2, <1>3

LEMMA AcquiringPrograms ==
  ASSUME NEW a \in Acquires
  PROVE  /\ Acquiring(<<a>>)
         /\ \A b \in Neutral : Acquiring(<<a, b>>)
         /\ \A b \in Neutral \cup {"mutex.try_lock"} : Acquiring(<<b, a>>)
<1>1. Acquiring(<<a>>)
  BY ItemsOf DEF Acquiring, Sound, Primitives, Credits, Acquires, Releases, Neutral
<1>2. ASSUME NEW b \in Neutral PROVE Acquiring(<<a, b>>)
  BY <1>2, ItemsOf DEF Acquiring, Sound, Primitives, Credits, Acquires, Releases, Neutral
<1>3. ASSUME NEW b \in Neutral \cup {"mutex.try_lock"} PROVE Acquiring(<<b, a>>)
  BY <1>3, ItemsOf DEF Acquiring, Sound, Primitives, Credits, Acquires, Releases, Neutral
<1>4. QED
  BY <1>1, <1>2, <1>3

LEMMA ReleasingPrograms ==
  ASSUME NEW r \in Releases
  PROVE  /\ Releasing(<<r>>, r)
         /\ \A b \in Neutral : Releasing(<<r, b>>, r) /\ Releasing(<<b, r>>, r)
<1>1. Releasing(<<r>>, r)
  BY ItemsOf DEF Releasing, Sound, Primitives, Credits, Acquires, Releases, Neutral
<1>2. ASSUME NEW b \in Neutral PROVE Releasing(<<r, b>>, r)
  BY <1>2, ItemsOf DEF Releasing, Sound, Primitives, Credits, Acquires, Releases, Neutral
<1>3. ASSUME NEW b \in Neutral PROVE Releasing(<<b, r>>, r)
  <2>1. CASE r = "free.release"
    BY <1>3, <2>1, ItemsOf DEF Releasing, Sound, Primitives, Credits, Acquires, Releases, Neutral
  <2>2. CASE r = "occupied.release"
    BY <1>3, <2>2, ItemsOf DEF Releasing, Sound, Primitives, Credits, Acquires, Releases, Neutral
  <2>3. QED
    BY <2>1, <2>2 DEF Releases
<1>4. QED
  BY <1>1, <1>2, <1>3

(* What the programs of every category do with credits. *)
LEMMA SyncTable ==
  /\ \A o \in SendOps \cup ReadOps : Acquiring(Sync[o])
  /\ Releasing(Sync.sent, "occupied.release") /\ Releasing(Sync.cancelRead, "occupied.release")
  /\ Releasing(Sync.read, "free.release") /\ Releasing(Sync.cancelSend, "free.release")
<1> USE AcquiringPrograms, ReleasingPrograms
    DEF SendOps, ReadOps, Acquires, Releases, Neutral
<1>1. CASE Category = "SPSC"
  <2>1. Sync = SpscSync
    BY <1>1 DEF Sync
  <2>2. QED
    BY <2>1 DEF SpscSync
<1>2. CASE Category = "MPSC"
  <2>1. Sync = MpscSync
    BY <1>2 DEF Sync
  <2>2. QED
    BY <2>1 DEF MpscSync
<1>3. CASE Category = "SPMC"
  <2>1. Sync = SpmcSync
    BY <1>3 DEF Sync
  <2>2. QED
    BY <2>1 DEF SpmcSync
<1>4. CASE Category = "MPMC"
  <2>1. Sync = MpmcSync
    BY <1>4 DEF Sync
  <2>2. QED
    BY <2>1 DEF MpmcSync
<1>5. QED
  BY <1>1, <1>2, <1>3, <1>4, CategoryAssumption

-----------------------------------------------------------------------------
Step(t) == (Call(t) /\ UNCHANGED kept) \/ Run(t)

(* A step is one thread's; the others keep what is theirs. *)
Others(t) ==
  \A s \in Threads \ {t} :
    /\ pc'[s] = pc[s] /\ op'[s] = op[s] /\ todo'[s] = todo[s]
    /\ kept'[s] = kept[s] /\ index'[s] = index[s]

LEMMA StepOthers ==
  ASSUME BasicTypes, NEW t \in Threads, Step(t)
  PROVE  Others(t)
<1> USE DEF BasicTypes, CallTypeOK, Others, Goto, Finish, Perform, Keep, syncVars, callVars
<1>1. CASE Call(t) /\ UNCHANGED kept
  BY <1>1 DEF Call, CallSend, CallRead, CallClose, Enter, AccountThreads
<1>2. CASE Emplace(t) \/ StoreMessageThrows(t) \/ PopMessageThrows(t)
  BY <1>2 DEF Emplace, StoreMessageThrows, PopMessageThrows
<1>3. CASE SyncStep(t) /\ UNCHANGED kept
  BY <1>3 DEF SyncStep, AcquireFree, TryAcquireFreeFails, TakeFreeIfAny, ReleaseFree,
     AcquireOccupied, TryAcquireOccupiedFails, ReleaseOccupied, LockMutex,
     TryLockMutexFails, UnlockMutex, ReserveWriteSlot, ReserveReadSlot, Doing, GiveUp
<1>4. CASE /\ UNCHANGED kept
           /\ \/ CheckSendDeadlockPossibility(t) \/ CheckReadDeadlockPossibility(t)
              \/ SyncAndOverflowPrework(t) \/ ResolveSendOverflowTry(t)
              \/ SyncAndUnderflowPrework(t, Sync[op[t]]) \/ ResolveReadUnderflowTry(t)
  BY <1>4 DEF CheckSendDeadlockPossibility, CheckReadDeadlockPossibility, AfterCheck,
     HandleDeadlock, SyncAndOverflowPrework, ResolveSendOverflowTry,
     SyncAndUnderflowPrework, ResolveReadUnderflowTry
<1>5. CASE /\ UNCHANGED kept
           /\ \/ WriteTail(t, "store", Sync.sent) \/ CountUp(t) \/ ReadReserved(t)
              \/ LoadHead(t) \/ MoveHead(t) \/ AdvanceHead(t) \/ CountDown(t)
              \/ Close(t) \/ Leave(t)
  BY <1>5 DEF WriteTail, CountUp, ReadReserved, LoadHead, MoveHead, AdvanceHead,
     LoadIndex, CountDown, Close, Leave, Return
<1>6. QED
  BY <1>1, <1>2, <1>3, <1>4, <1>5 DEF Step, Run, Proceed

LEMMA SlotsIn ==
  /\ 0 \in Slots
  /\ \A i \in Slots : Succ(i) \in Slots /\ (i + 1) % Capacity \in Slots /\ i # NoSlot
  BY CapacityAssumption DEF Slots, Succ, NoSlot

LEMMA CountIn ==
  /\ CountModulus \in Nat /\ CountModulus > 2 * (Capacity + Cardinality(Threads))
  /\ CountModulus > 1 /\ 0 \in 0..(CountModulus - 1)
  /\ \A n \in 0..(CountModulus - 1) :
       /\ (n + 1) % CountModulus \in 0..(CountModulus - 1)
       /\ (n - 1) % CountModulus \in 0..(CountModulus - 1)
<1>1. Cardinality(Threads) \in Nat
  BY ThreadsAssumption, FS_CardinalityType
<1>2. CountModulus \in Nat /\ CountModulus > 2 * (Capacity + Cardinality(Threads))
      /\ CountModulus > 1
  BY <1>1, CapacityAssumption, CountAssumption
<1>3. QED
  BY <1>2

(* One primitive of a program. *)
LEMMA SyncStepBasic ==
  ASSUME BasicTypes, NEW t \in Threads, Sound(todo[t]), SyncStep(t), UNCHANGED <<ringVars, kept>>
  PROVE  BasicTypes'
<1>1. Ready(t) \/ (todo[t] # <<>> /\ Tail(todo[t]) \in Seq(Primitives))
  BY SoundTail DEF BasicTypes, Ready
<1>2. \A p \in Seq(Primitives) : [todo EXCEPT ![t] = p] \in [Threads -> Seq(Primitives)]
  BY DEF BasicTypes
<1>3. todo' \in [Threads -> Seq(Primitives)]
  <2>1. GiveUp(t) \/ (~Ready(t) /\ todo' = [todo EXCEPT ![t] = Tail(todo[t])])
    BY DEF SyncStep, AcquireFree, TryAcquireFreeFails, TakeFreeIfAny, ReleaseFree,
       AcquireOccupied, TryAcquireOccupiedFails, ReleaseOccupied, LockMutex,
       TryLockMutexFails, UnlockMutex, ReserveWriteSlot, ReserveReadSlot, Doing, Perform
  <2>2. CASE GiveUp(t)
    <3>1. \E p \in {<<>>, <<"mutex.unlock">>} : todo' = [todo EXCEPT ![t] = p]
      BY <2>2 DEF GiveUp, Perform
    <3>2. QED
      BY <1>2, <3>1, FreePrograms
  <2>3. CASE ~Ready(t) /\ todo' = [todo EXCEPT ![t] = Tail(todo[t])]
    BY <1>1, <1>2, <2>3
  <2>4. QED
    BY <2>1, <2>2, <2>3
<1> DEFINE Rest == /\ free' \in Nat /\ occupied' \in Nat
                   /\ mutex' \in Threads \cup {NoThread}
                   /\ writeSeq' \in Slots /\ readSeq' \in Slots
                   /\ index' \in [Threads -> Slots \cup {NoSlot}]
<1>4. Rest
  <2> USE SlotsIn DEF BasicTypes
  <2>1. CASE \/ AcquireFree(t) \/ TakeFreeIfAny(t) \/ ReleaseFree(t)
             \/ AcquireOccupied(t) \/ ReleaseOccupied(t)
    BY <2>1 DEF AcquireFree, TakeFreeIfAny, ReleaseFree, AcquireOccupied, ReleaseOccupied
  <2>2. CASE TryAcquireFreeFails(t) \/ TryAcquireOccupiedFails(t) \/ TryLockMutexFails(t)
    BY <2>2 DEF TryAcquireFreeFails, TryAcquireOccupiedFails, TryLockMutexFails
  <2>3. CASE LockMutex(t) \/ UnlockMutex(t)
    BY <2>3 DEF LockMutex, UnlockMutex
  <2>4. CASE ReserveWriteSlot(t) \/ ReserveReadSlot(t)
    BY <2>4 DEF ReserveWriteSlot, ReserveReadSlot
  <2>5. QED
    BY <2>1, <2>2, <2>3, <2>4 DEF SyncStep
<1>5. CallTypeOK(Labels)'
  <2>1. UNCHANGED callVars \/ (GiveUp(t) /\ UNCHANGED <<role, op, msg>>)
    BY DEF SyncStep, AcquireFree, TryAcquireFreeFails, TakeFreeIfAny, ReleaseFree,
     AcquireOccupied, TryAcquireOccupiedFails, ReleaseOccupied, LockMutex,
     TryLockMutexFails, UnlockMutex, ReserveWriteSlot, ReserveReadSlot
  <2>2. QED
    BY <2>1 DEF BasicTypes, CallTypeOK, callVars, GiveUp, Finish, Goto, Decide, Labels, Outcomes
<1>6. RingTypeOK' /\ kept' \in [Threads -> SUBSET {"sent", "read"}]
  BY DEF BasicTypes, RingTypeOK, ringVars
<1>7. QED
  BY <1>3, <1>4, <1>5, <1>6 DEF BasicTypes

(* The programs a call performs. *)
LEMMA ProgramsTyped ==
  /\ \A o \in SendOps \cup ReadOps : Sync[o] \in Seq(Primitives) /\ Sound(Sync[o])
  /\ Sync.sent \in Seq(Primitives) /\ Sound(Sync.sent)
  /\ Sync.read \in Seq(Primitives) /\ Sound(Sync.read)
  /\ Sync.cancelSend \in Seq(Primitives) /\ Sound(Sync.cancelSend)
  /\ Sync.cancelRead \in Seq(Primitives) /\ Sound(Sync.cancelRead)
  /\ Sync["sent"] = Sync.sent /\ Sync["read"] = Sync.read
  BY SyncTable DEF Acquiring, Releasing

LEMMA PerformTyped ==
  ASSUME BasicTypes, NEW t \in Threads, NEW p \in Seq(Primitives), Perform(t, p)
  PROVE  todo' \in [Threads -> Seq(Primitives)] /\ todo'[t] = p
  BY DEF BasicTypes, Perform

(* What no step but one of a program changes keeps its type. *)
LEMMA StepBasic ==
  ASSUME BasicTypes, NEW t \in Threads, TodoInv(t), Step(t)
  PROVE  BasicTypes'
<1>1. CASE SyncStep(t) /\ UNCHANGED <<ringVars, kept>>
  BY <1>1, SyncStepBasic DEF TodoInv
<1>2. CASE Call(t) /\ UNCHANGED kept
  <2>1. \E o \in Ops, m \in Messages \cup {NoMessage} : Enter(t, o, m)
    BY <1>2 DEF Call, CallSend, CallRead, CallClose, Ops
  <2>2. op' \in [Threads -> Ops] /\ msg' \in [Threads -> Messages \cup {NoMessage}]
    BY <2>1 DEF Enter, BasicTypes, CallTypeOK
  <2>3. \/ \E r \in {"kProducer", "kConsumer"} : AccountThreads(t, r)
        \/ Goto(t, "close") /\ UNCHANGED <<role, outcome>>
    BY <1>2 DEF Call, CallSend, CallRead, CallClose
  <2>4. /\ role' \in [Threads -> Roles] /\ pc' \in [Threads -> Labels]
        /\ outcome' \in [Threads -> Outcomes]
    <3>1. \E l \in Labels : Goto(t, l)
      BY <2>3 DEF AccountThreads, Finish, Labels
    <3>2. UNCHANGED role \/ \E r \in Roles : role' = [role EXCEPT ![t] = r]
      BY <2>3 DEF AccountThreads, Roles
    <3>3. UNCHANGED outcome \/ Decide(t, "roleChange")
      BY <2>3 DEF AccountThreads, Finish
    <3>4. pc' \in [Threads -> Labels]
      BY <3>1 DEF Goto, BasicTypes, CallTypeOK
    <3>5. role' \in [Threads -> Roles]
      BY <3>2 DEF BasicTypes, CallTypeOK
    <3>6. outcome' \in [Threads -> Outcomes]
      BY <3>3 DEF Decide, BasicTypes, CallTypeOK, Outcomes
    <3>7. QED
      BY <3>4, <3>5, <3>6
  <2>5. CallTypeOK(Labels)'
    BY <2>2, <2>4 DEF CallTypeOK
  <2>6. QED
    BY <1>2, <2>5 DEF BasicTypes, RingTypeOK, Call, syncVars, ringVars
<1>3. CASE Emplace(t)
  <2>1. PICK guard \in Replaced(t) : /\ kept' = [kept EXCEPT ![t] = kept[t] \ {guard}]
                                     /\ Perform(t, Sync[guard])
    BY <1>3 DEF Emplace
  <2>2. guard \in {"sent", "read"}
    BY <2>1 DEF Replaced, BasicTypes
  <2>3. todo' \in [Threads -> Seq(Primitives)]
    BY <2>1, <2>2, PerformTyped, ProgramsTyped
  <2>4. kept' \in [Threads -> SUBSET {"sent", "read"}]
    BY <2>1 DEF BasicTypes
  <2>5. QED
    BY <1>3, <2>3, <2>4 DEF Emplace, BasicTypes, CallTypeOK, RingTypeOK, callVars, ringVars
<1>4. CASE StoreMessageThrows(t) \/ PopMessageThrows(t)
  <2>1. PICK guard \in {"sent", "read"} : Keep(t, guard)
    BY <1>4 DEF StoreMessageThrows, PopMessageThrows
  <2>2. CallTypeOK(Labels)'
    BY <2>1 DEF BasicTypes, CallTypeOK, Keep, Finish, Goto, Decide, Labels, Outcomes
  <2>3. kept' \in [Threads -> SUBSET {"sent", "read"}]
    BY <2>1 DEF BasicTypes, Keep
  <2>4. QED
    BY <2>1, <2>2, <2>3 DEF BasicTypes, RingTypeOK, Keep, syncVars, ringVars
<1>5. CASE UNCHANGED kept /\ (CheckSendDeadlockPossibility(t) \/ CheckReadDeadlockPossibility(t))
  <2>1. CallTypeOK(Labels)'
    BY <1>5 DEF BasicTypes, CallTypeOK, CheckSendDeadlockPossibility,
       CheckReadDeadlockPossibility, AfterCheck, HandleDeadlock, Finish, Goto, Decide,
       Labels, Outcomes
  <2>2. QED
    BY <1>5, <2>1 DEF BasicTypes, RingTypeOK, CheckSendDeadlockPossibility,
       CheckReadDeadlockPossibility, syncVars, ringVars
<1>6. CASE UNCHANGED kept /\ (SyncAndOverflowPrework(t) \/ SyncAndUnderflowPrework(t, Sync[op[t]]))
  <2>1. Perform(t, Sync[op[t]]) /\ op[t] \in SendOps \cup ReadOps
    BY <1>6 DEF SyncAndOverflowPrework, SyncAndUnderflowPrework
  <2>2. todo' \in [Threads -> Seq(Primitives)]
    BY <2>1, PerformTyped, ProgramsTyped
  <2>3. CallTypeOK(Labels)'
    BY <1>6 DEF BasicTypes, CallTypeOK, SyncAndOverflowPrework, SyncAndUnderflowPrework,
       Goto, Labels
  <2>4. QED
    BY <1>6, <2>2, <2>3 DEF BasicTypes, RingTypeOK, SyncAndOverflowPrework,
       SyncAndUnderflowPrework, ringVars
<1>7. CASE UNCHANGED kept /\ (ResolveSendOverflowTry(t) \/ ResolveReadUnderflowTry(t))
  <2>1. \/ UNCHANGED todo \/ Perform(t, Sync.cancelSend) \/ Perform(t, Sync.cancelRead)
    BY <1>7 DEF ResolveSendOverflowTry, ResolveReadUnderflowTry
  <2>2. todo' \in [Threads -> Seq(Primitives)]
    BY <2>1, PerformTyped, ProgramsTyped DEF BasicTypes
  <2>3. CallTypeOK(Labels)'
    BY <1>7 DEF BasicTypes, CallTypeOK, ResolveSendOverflowTry, ResolveReadUnderflowTry,
       Finish, Goto, Decide, Labels, Outcomes
  <2>4. QED
    BY <1>7, <2>2, <2>3 DEF BasicTypes, RingTypeOK, ResolveSendOverflowTry,
       ResolveReadUnderflowTry, ringVars
<1>8. CASE UNCHANGED kept /\ (WriteTail(t, "store", Sync.sent) \/ ReadReserved(t) \/ MoveHead(t))
  <2>1. UNCHANGED todo \/ Perform(t, Sync.sent)
    BY <1>8 DEF WriteTail, ReadReserved, MoveHead, syncVars
  <2>2. todo' \in [Threads -> Seq(Primitives)]
    BY <2>1, PerformTyped, ProgramsTyped DEF BasicTypes
  <2>3. index[t] \in Slots \/ ~HasReserved(t)
    BY DEF BasicTypes, HasReserved
  <2>4. buffer' \in [Slots -> Messages \cup {NoMessage}]
    <3>1. \E m \in Messages \cup {NoMessage} : \E i : buffer' = [buffer EXCEPT ![i] = m]
      BY <1>8 DEF WriteTail, ReadReserved, MoveHead, MoveOut, BasicTypes, CallTypeOK
    <3>2. QED
      BY <3>1 DEF BasicTypes, RingTypeOK
  <2>5. msg' \in [Threads -> Messages \cup {NoMessage}]
    <3>1. CASE WriteTail(t, "store", Sync.sent)
      BY <3>1 DEF WriteTail, BasicTypes, CallTypeOK
    <3>2. CASE ReadReserved(t) \/ MoveHead(t)
      <4>1. index[t] \in Slots
        BY <2>3, <3>2 DEF ReadReserved, MoveHead, TodoInv
      <4>2. buffer[index[t]] \in Messages \cup {NoMessage}
        BY <4>1 DEF BasicTypes, RingTypeOK
      <4>3. QED
        BY <3>2, <4>2 DEF ReadReserved, MoveHead, MoveOut, BasicTypes, CallTypeOK
    <3>3. QED
      BY <1>8, <3>1, <3>2
  <2>6. CallTypeOK(Labels)'
    BY <1>8, <2>5 DEF BasicTypes, CallTypeOK, WriteTail, ReadReserved, MoveHead, Goto,
       Decide, Labels, Outcomes
  <2>7. RingTypeOK'
    BY <1>8, <2>4, SlotsIn DEF BasicTypes, RingTypeOK, WriteTail, ReadReserved, MoveHead
  <2>8. QED
    BY <1>8, <2>2, <2>6, <2>7 DEF BasicTypes, WriteTail, ReadReserved, MoveHead, syncVars
<1>9. CASE UNCHANGED kept /\ (LoadHead(t) \/ AdvanceHead(t))
  <2>1. index' \in [Threads -> Slots \cup {NoSlot}]
    BY <1>9 DEF BasicTypes, RingTypeOK, LoadHead, AdvanceHead, LoadIndex
  <2>2. CallTypeOK(Labels)'
    BY <1>9 DEF BasicTypes, CallTypeOK, LoadHead, AdvanceHead, Goto, Decide, Labels, Outcomes
  <2>3. RingTypeOK'
    BY <1>9, SlotsIn DEF BasicTypes, RingTypeOK, LoadHead, AdvanceHead, ringVars
  <2>4. QED
    BY <1>9, <2>1, <2>2, <2>3 DEF BasicTypes, LoadHead, AdvanceHead
<1>10. CASE UNCHANGED kept /\ (CountUp(t) \/ CountDown(t))
  <2>1. UNCHANGED todo \/ Perform(t, Sync.read)
    BY <1>10 DEF CountUp, CountDown, syncVars
  <2>2. todo' \in [Threads -> Seq(Primitives)]
    BY <2>1, PerformTyped, ProgramsTyped DEF BasicTypes
  <2>3. count' \in 0..(CountModulus - 1)
    BY <1>10, CountIn DEF BasicTypes, RingTypeOK, CountUp, CountDown
  <2>4. CallTypeOK(Labels)'
    BY <1>10 DEF BasicTypes, CallTypeOK, CountUp, CountDown, Goto, Labels
  <2>5. QED
    BY <1>10, <2>2, <2>3, <2>4 DEF BasicTypes, RingTypeOK, CountUp, CountDown, syncVars
<1>11. CASE UNCHANGED kept /\ (Close(t) \/ Leave(t))
  <2>1. CallTypeOK(Labels)'
    BY <1>11 DEF BasicTypes, CallTypeOK, Close, Leave, Return, Finish, Goto, Decide,
       Labels, Outcomes, Ops
  <2>2. index' \in [Threads -> Slots \cup {NoSlot}]
    BY <1>11 DEF BasicTypes, Close, Leave, syncVars
  <2>3. RingTypeOK'
    BY <1>11, SlotsIn, CountIn DEF BasicTypes, RingTypeOK, Close, Leave, ringVars
  <2>4. QED
    BY <1>11, <2>1, <2>2, <2>3 DEF BasicTypes, Close, Leave, syncVars
<1>12. QED
  BY <1>1, <1>2, <1>3, <1>4, <1>5, <1>6, <1>7, <1>8, <1>9, <1>10, <1>11
  DEF Step, Run, Proceed

LEMMA PendingItems ==
  ASSUME NEW t
  PROVE  /\ Pending(t) = Items(todo[t]) /\ Pending(t)' = Items(todo'[t])
         /\ Ready(t) => Pending(t) = {}
         /\ Ready(t)' => Pending(t)' = {}
  BY DEF Pending, Items, Ready

(* A call that runs on with a program that acquires nothing. *)
LEMMA TodoFrom ==
  ASSUME NEW t, Sound(todo'[t]), Items(todo'[t]) \cap Acquires = {},
         pc'[t] \notin {"idle", "check", "sync", "close", "move", "advance", "countDown"}
         \/ todo'[t] = <<>>,
         pc'[t] \in {"move", "advance", "countDown"} => "read" \notin kept'[t],
         pc'[t] \in {"move", "advance"} => index'[t] # NoSlot
  PROVE  TodoInv(t)'
  BY PendingItems DEF TodoInv, Ready, HasReserved

LEMMA TodoKept ==
  ASSUME NEW t, TodoInv(t), pc'[t] = pc[t], todo'[t] = todo[t],
         index'[t] = index[t], kept'[t] = kept[t]
  PROVE  TodoInv(t)'
  BY DEF TodoInv, Pending, Ready, HasReserved

LEMMA ReleasingClean ==
  /\ \A p, r : Releasing(p, r) /\ r \in Releases => Sound(p) /\ Items(p) \cap Acquires = {}
  /\ Sound(<<>>) /\ Items(<<>>) \cap Acquires = {}
<1>1. "free.release" \notin Acquires /\ "occupied.release" \notin Acquires
      /\ Releases = {"free.release", "occupied.release"} /\ Acquires \subseteq Credits
  BY DEF Acquires, Releases, Credits
<1>2. QED
  BY <1>1, FreePrograms DEF Releasing

LEMMA SyncStepTodo ==
  ASSUME BasicTypes, NEW t \in Threads, TodoInv(t), SyncStep(t),
         UNCHANGED <<ringVars, kept>>
  PROVE  TodoInv(t)'
<1>1. GiveUp(t) \/ (~Ready(t) /\ Perform(t, Tail(todo[t])) /\ UNCHANGED pc)
  BY DEF SyncStep, AcquireFree, TryAcquireFreeFails, TakeFreeIfAny, ReleaseFree,
     AcquireOccupied, TryAcquireOccupiedFails, ReleaseOccupied, LockMutex,
     TryLockMutexFails, UnlockMutex, ReserveWriteSlot, ReserveReadSlot, Doing, callVars
<1>2. CASE GiveUp(t)
  <2>1. \E p \in {<<>>, <<"mutex.unlock">>} : Perform(t, p)
    BY <1>2 DEF GiveUp
  <2>2. Sound(todo'[t]) /\ Items(todo'[t]) \cap Acquires = {}
    BY <2>1, FreePrograms, PerformTyped DEF Credits
  <2>3. pc'[t] = "return"
    BY <1>2 DEF GiveUp, Finish, Goto, BasicTypes, CallTypeOK
  <2>4. QED
    BY <2>2, <2>3, TodoFrom
<1>3. CASE ~Ready(t) /\ Perform(t, Tail(todo[t])) /\ UNCHANGED pc
  <2>1. todo[t] \in Seq(Primitives) /\ todo[t] # <<>> /\ Sound(todo[t])
    BY <1>3 DEF BasicTypes, Ready, TodoInv
  <2>2. Sound(Tail(todo[t])) /\ Items(Tail(todo[t])) \subseteq Items(todo[t])
        /\ Tail(todo[t]) \in Seq(Primitives)
    BY <2>1, SoundTail
  <2>3. todo'[t] = Tail(todo[t])
    BY <1>3, <2>2, PerformTyped
  <2>4. pc[t] \notin {"idle", "check", "sync", "close", "move", "advance", "countDown"}
    BY <1>3 DEF TodoInv
  <2>5. Pending(t)' \subseteq Pending(t)
    BY <2>2, <2>3, PendingItems
  <2>6. QED
    BY <1>3, <2>2, <2>3, <2>4, <2>5 DEF TodoInv
<1>4. QED
  BY <1>1, <1>2, <1>3

LEMMA StepTodo ==
  ASSUME BasicTypes, NEW t \in Threads, TodoInv(t), Step(t)
  PROVE  TodoInv(t)'
<1>1. CASE SyncStep(t) /\ UNCHANGED <<ringVars, kept>>
  BY <1>1, SyncStepTodo
<1>2. CASE Call(t) /\ UNCHANGED kept
  <2>1. /\ pc[t] = "idle" /\ pc'[t] \in {"check", "return", "close"} /\ todo'[t] = todo[t]
    BY <1>2 DEF Call, CallSend, CallRead, CallClose, Enter, AccountThreads, Finish, Goto,
       BasicTypes, CallTypeOK, syncVars
  <2>2. todo'[t] = <<>>
    BY <2>1 DEF TodoInv, Ready
  <2>3. QED
    BY <2>1, <2>2, ReleasingClean, TodoFrom
<1>3. CASE Emplace(t)
  <2>1. PICK guard \in Replaced(t) : Perform(t, Sync[guard])
    BY <1>3 DEF Emplace
  <2>2. guard \in {"sent", "read"} /\ pc[t] \in {"store", "tryFull", "take", "tryEmpty"}
    BY <2>1 DEF Replaced, BasicTypes
  <2>3. todo'[t] = Sync[guard]
    BY <2>1, <2>2, PerformTyped, ProgramsTyped
  <2>4. Sound(todo'[t]) /\ Items(todo'[t]) \cap Acquires = {}
    BY <2>2, <2>3, SyncTable, ReleasingClean, ProgramsTyped DEF Releases
  <2>5. pc'[t] = pc[t]
    BY <1>3 DEF Emplace, callVars
  <2>6. QED
    BY <2>2, <2>4, <2>5, TodoFrom
<1>4. CASE StoreMessageThrows(t) \/ PopMessageThrows(t)
  <2>1. pc'[t] = "return" /\ todo'[t] = todo[t]
    BY <1>4 DEF StoreMessageThrows, PopMessageThrows, Keep, Finish, Goto, BasicTypes,
       CallTypeOK, syncVars
  <2>2. todo[t] = <<>>
    BY <1>4 DEF StoreMessageThrows, PopMessageThrows, TodoInv, Ready
  <2>3. QED
    BY <2>1, <2>2, ReleasingClean, TodoFrom
<1>5. CASE UNCHANGED kept /\ (CheckSendDeadlockPossibility(t) \/ CheckReadDeadlockPossibility(t))
  <2>1. pc[t] = "check" /\ pc'[t] \in {"sync", "return"} /\ todo'[t] = todo[t]
    BY <1>5 DEF CheckSendDeadlockPossibility, CheckReadDeadlockPossibility, AfterCheck,
       HandleDeadlock, Finish, Goto, BasicTypes, CallTypeOK, syncVars
  <2>2. todo'[t] = <<>>
    BY <2>1 DEF TodoInv, Ready
  <2>3. QED
    BY <2>1, <2>2, ReleasingClean, TodoFrom
<1>6. CASE UNCHANGED kept /\ (SyncAndOverflowPrework(t) \/ SyncAndUnderflowPrework(t, Sync[op[t]]))
  <2>1. Perform(t, Sync[op[t]]) /\ op[t] \in SendOps \cup ReadOps
    BY <1>6 DEF SyncAndOverflowPrework, SyncAndUnderflowPrework
  <2>2. Sound(todo'[t])
    BY <2>1, PerformTyped, ProgramsTyped
  <2>3. pc'[t] \in {"store", "tryFull", "take", "tryEmpty"}
    BY <1>6 DEF SyncAndOverflowPrework, SyncAndUnderflowPrework, Goto, BasicTypes, CallTypeOK
  <2>4. QED
    BY <2>2, <2>3 DEF TodoInv
<1>7. CASE UNCHANGED kept /\ (ResolveSendOverflowTry(t) \/ ResolveReadUnderflowTry(t))
  <2>1. /\ todo[t] = <<>> /\ pc'[t] \in {"return", "store", "take"}
        /\ UNCHANGED todo \/ Perform(t, Sync.cancelSend) \/ Perform(t, Sync.cancelRead)
    BY <1>7 DEF ResolveSendOverflowTry, ResolveReadUnderflowTry, Finish, Goto, BasicTypes,
       CallTypeOK, Ready
  <2>2. todo'[t] \in {<<>>, Sync.cancelSend, Sync.cancelRead}
    BY <2>1, PerformTyped, ProgramsTyped
  <2>3. Sound(todo'[t]) /\ Items(todo'[t]) \cap Acquires = {}
    BY <2>2, SyncTable, ReleasingClean DEF Releases
  <2>4. QED
    BY <2>1, <2>3, TodoFrom
<1>8. CASE UNCHANGED kept /\ (WriteTail(t, "store", Sync.sent) \/ CountDown(t))
  <2>1. /\ pc'[t] \in {"countUp", "return"}
        /\ Perform(t, Sync.sent) \/ Perform(t, Sync.read)
    BY <1>8 DEF WriteTail, CountDown, Goto, BasicTypes, CallTypeOK
  <2>2. todo'[t] \in {Sync.sent, Sync.read}
    BY <2>1, PerformTyped, ProgramsTyped
  <2>3. Sound(todo'[t]) /\ Items(todo'[t]) \cap Acquires = {}
    BY <2>2, SyncTable, ReleasingClean DEF Releases
  <2>4. QED
    BY <2>1, <2>3, TodoFrom
<1>9. CASE /\ UNCHANGED kept /\ (Replaced(t) = {} \/ ~Ready(t))
           /\ ReadReserved(t) \/ LoadHead(t) \/ MoveHead(t) \/ AdvanceHead(t)
  <2>1. todo[t] = <<>> /\ todo'[t] = todo[t]
    BY <1>9 DEF ReadReserved, LoadHead, MoveHead, AdvanceHead, syncVars, TodoInv, Ready
  <2>2. pc'[t] \in {"move", "advance", "countDown"}
    BY <1>9 DEF ReadReserved, LoadHead, MoveHead, AdvanceHead, Goto, BasicTypes, CallTypeOK
  <2>3. "read" \notin kept'[t]
    <3>1. CASE pc[t] = "take"
      BY <1>9, <2>1, <3>1 DEF Replaced, Ready
    <3>2. CASE pc[t] # "take"
      BY <1>9, <3>2 DEF ReadReserved, LoadHead, MoveHead, AdvanceHead, TodoInv
    <3>3. QED
      BY <3>1, <3>2
  <2>4. pc'[t] \in {"move", "advance"} => index'[t] # NoSlot
    <3>1. head # NoSlot
      BY SlotsIn DEF BasicTypes, RingTypeOK
    <3>2. CASE ReadReserved(t)
      BY <3>2 DEF ReadReserved, Goto, BasicTypes, CallTypeOK
    <3>3. CASE LoadHead(t) \/ AdvanceHead(t)
      BY <3>1, <3>3 DEF LoadHead, AdvanceHead, LoadIndex, Goto, BasicTypes, CallTypeOK
    <3>4. CASE MoveHead(t)
      BY <3>4 DEF MoveHead, syncVars, TodoInv, HasReserved
    <3>5. QED
      BY <1>9, <3>2, <3>3, <3>4
  <2>5. QED
    BY <2>1, <2>2, <2>3, <2>4, ReleasingClean, TodoFrom
<1>10. CASE UNCHANGED kept /\ (CountUp(t) \/ Close(t) \/ Leave(t))
  <2>1. pc'[t] \in {"return", "idle"} /\ todo[t] = <<>> /\ todo'[t] = todo[t]
    BY <1>10 DEF CountUp, Close, Leave, Return, Finish, Goto, BasicTypes, CallTypeOK,
       syncVars, TodoInv, Ready
  <2>2. QED
    BY <2>1, ReleasingClean, TodoFrom
<1>11. QED
  BY <1>1, <1>2, <1>3, <1>4, <1>5, <1>6, <1>7, <1>8, <1>9, <1>10
  DEF Step, Run, Proceed

-----------------------------------------------------------------------------
(***************************************************************************)
(* Credits: who holds one, and how a step moves it.                        *)
(***************************************************************************)
Names == {"operation", "free.release", "occupied.release", "sent", "read"}

Held == UNION {{t} \X Holds(t) : t \in Threads}

LEMMA HeldElements ==
  /\ \A t, x : <<t, x>> \in Held <=> t \in Threads /\ x \in Holds(t)
  /\ \A e \in Held : \E t \in Threads : \E x \in Holds(t) : e = <<t, x>>
  /\ \A t, x : <<t, x>> \in Held' <=> t \in Threads /\ x \in Holds(t)'
  /\ \A e \in Held' : \E t \in Threads : \E x \in Holds(t)' : e = <<t, x>>
  BY DEF Held

LEMMA NamesFinite == IsFiniteSet(Names)
<1>1. IsFiniteSet({}) /\ \A S, x : IsFiniteSet(S) => IsFiniteSet(S \cup {x})
  BY FS_EmptySet, FS_AddElement
<1>2. Names = {} \cup {"operation"} \cup {"free.release"} \cup {"occupied.release"}
              \cup {"sent"} \cup {"read"}
  BY DEF Names
<1>3. QED
  BY <1>1, <1>2, Zenon

LEMMA HeldFinite ==
  ASSUME BasicTypes
  PROVE  IsFiniteSet(Held) /\ Cardinality(Held) \in Nat
<1>1. IsFiniteSet(Names)
  BY NamesFinite
<1>2. IsFiniteSet(Threads \X Names)
  BY <1>1, ThreadsAssumption, FS_Product
<1>3. \A t \in Threads : Holds(t) \subseteq Names
  BY DEF Holds, Names, BasicTypes, Releases
<1>4. Held \subseteq Threads \X Names
  BY <1>3, HeldElements
<1>5. QED
  BY <1>2, <1>4, FS_Subset, FS_CardinalityType

(* What one thread gives and takes. *)
LEMMA HeldSame ==
  ASSUME NEW t \in Threads, \A s \in Threads \ {t} : Holds(s)' = Holds(s),
         Holds(t)' = Holds(t)
  PROVE  Held' = Held
<1>1. \A s \in Threads : Holds(s)' = Holds(s)
  OBVIOUS
<1>2. \A e : e \in Held' <=> e \in Held
  BY <1>1, HeldElements
<1>3. QED
  BY <1>2

LEMMA HeldGains ==
  ASSUME BasicTypes, NEW t \in Threads, \A s \in Threads \ {t} : Holds(s)' = Holds(s),
         NEW x, x \notin Holds(t), Holds(t)' = Holds(t) \cup {x}
  PROVE  Held' = Held \cup {<<t, x>>} /\ Cardinality(Held') = Cardinality(Held) + 1
<1>1. \A e : e \in Held' <=> e \in Held \/ e = <<t, x>>
  BY HeldElements
<1>2. Held' = Held \cup {<<t, x>>} /\ <<t, x>> \notin Held
  BY <1>1, HeldElements
<1>3. QED
  BY <1>2, HeldFinite, FS_AddElement

LEMMA HeldLoses ==
  ASSUME BasicTypes, NEW t \in Threads, \A s \in Threads \ {t} : Holds(s)' = Holds(s),
         NEW x \in Holds(t), Holds(t)' = Holds(t) \ {x}
  PROVE  Cardinality(Held') = Cardinality(Held) - 1
<1>1. \A e : e \in Held' <=> e \in Held /\ e # <<t, x>>
  BY HeldElements
<1>2. Held' = Held \ {<<t, x>>} /\ <<t, x>> \in Held
  BY <1>1, HeldElements
<1>3. QED
  BY <1>2, HeldFinite, FS_RemoveElement

LEMMA HeldSwaps ==
  ASSUME BasicTypes, NEW t \in Threads, \A s \in Threads \ {t} : Holds(s)' = Holds(s),
         NEW x \in Holds(t), NEW y, y \notin Holds(t), Holds(t)' = (Holds(t) \ {x}) \cup {y}
  PROVE  Cardinality(Held') = Cardinality(Held)
<1> DEFINE Left == Held \ {<<t, x>>}
<1>1. \A e : e \in Held' <=> e \in Left \/ e = <<t, y>>
  BY HeldElements
<1>2. Held' = Left \cup {<<t, y>>} /\ <<t, y>> \notin Left /\ <<t, x>> \in Held
  BY <1>1, HeldElements
<1>3. IsFiniteSet(Left) /\ Cardinality(Left) = Cardinality(Held) - 1
  BY <1>2, HeldFinite, FS_RemoveElement
<1>4. Cardinality(Held') = Cardinality(Left) + 1
  BY <1>2, <1>3, FS_AddElement
<1>5. QED
  BY <1>3, <1>4, HeldFinite

(* A thread is at work once its acquire is behind it. *)
AtWork(t) == pc[t] \in Working /\ Pending(t) \cap Acquires = {}

LEMMA HoldsOf ==
  ASSUME NEW t
  PROVE  /\ Holds(t) = (IF AtWork(t) THEN {"operation"} ELSE {})
                       \cup (Pending(t) \cap Releases) \cup kept[t]
         /\ Holds(t)' = (IF AtWork(t)' THEN {"operation"} ELSE {})
                       \cup (Pending(t)' \cap Releases) \cup kept'[t]
  BY DEF Holds, AtWork, Working

LEMMA Disjoint ==
  /\ "operation" \notin Releases /\ "sent" \notin Releases /\ "read" \notin Releases
  /\ Acquires \cap Releases = {} /\ Credits = Acquires \cup Releases
  /\ Releases = {"free.release", "occupied.release"}
  /\ \A k \in SUBSET {"sent", "read"} : k \cap Releases = {} /\ "operation" \notin k
  BY DEF Acquires, Releases, Credits

CreditKept(t) ==
  /\ free' = free /\ occupied' = occupied
  /\ \/ Holds(t)' = Holds(t)
     \/ \E x \in Holds(t) : \E y : y \notin Holds(t) /\ Holds(t)' = (Holds(t) \ {x}) \cup {y}
CreditTaken(t) ==
  /\ free' + occupied' = free + occupied - 1
  /\ \E x : x \notin Holds(t) /\ Holds(t)' = Holds(t) \cup {x}
CreditReturned(t) ==
  /\ free' + occupied' = free + occupied + 1
  /\ \E x \in Holds(t) : Holds(t)' = Holds(t) \ {x}

(* A release that stands for the operation, or for a guard that was kept.  *)
LEMMA ReleaseFollows ==
  ASSUME BasicTypes, BasicTypes', NEW t \in Threads, Ready(t),
         NEW p, NEW r \in Releases, Releasing(p, r), Perform(t, p)
  PROVE  /\ Pending(t) = {} /\ Pending(t)' \cap Releases = {r}
         /\ Pending(t)' \cap Acquires = {}
<1>1. todo'[t] = p
  BY PerformTyped DEF Releasing
<1>2. Pending(t)' \cap Credits = {r}
  BY <1>1, PendingItems DEF Releasing
<1>3. QED
  BY <1>2, PendingItems, Disjoint

LEMMA SyncStepCredit ==
  ASSUME BasicTypes, BasicTypes', NEW t \in Threads, TodoInv(t), SyncStep(t),
         UNCHANGED <<ringVars, kept>>
  PROVE  CreditKept(t) \/ CreditTaken(t) \/ CreditReturned(t)
<1> DEFINE H == Head(todo[t])
<1>0. /\ kept'[t] = kept[t] /\ kept[t] \in SUBSET {"sent", "read"}
      /\ free \in Nat /\ occupied \in Nat
  BY DEF BasicTypes
<1>1. ~Ready(t) /\ todo[t] \in Seq(Primitives) /\ Sound(todo[t])
  BY DEF SyncStep, AcquireFree, TryAcquireFreeFails, TakeFreeIfAny, ReleaseFree,
     AcquireOccupied, TryAcquireOccupiedFails, ReleaseOccupied, LockMutex,
     TryLockMutexFails, UnlockMutex, ReserveWriteSlot, ReserveReadSlot, Doing,
     BasicTypes, TodoInv
<1>2. /\ Tail(todo[t]) \in Seq(Primitives)
      /\ Items(todo[t]) = {H} \cup Items(Tail(todo[t])) /\ H \in Items(todo[t])
      /\ H \in Credits => Items(Tail(todo[t])) \cap Credits = {}
      /\ H = "mutex.try_lock" => Items(todo[t]) \cap Acquires # {}
  BY <1>1, SoundTail DEF Ready
<1>3. ASSUME Perform(t, Tail(todo[t]))
      PROVE  /\ Pending(t) = {H} \cup Pending(t)'
             /\ H \in Credits => Pending(t)' \cap Credits = {}
  <2>1. todo'[t] = Tail(todo[t])
    BY <1>2, <1>3, PerformTyped
  <2>2. QED
    BY <1>2, <2>1, PendingItems
<1>4. CASE AcquireFree(t) \/ AcquireOccupied(t)
  <2>1. Perform(t, Tail(todo[t])) /\ H \in Acquires /\ pc'[t] = pc[t]
    BY <1>4 DEF AcquireFree, AcquireOccupied, Doing, callVars, Acquires
  <2>2. /\ Pending(t) = {H} \cup Pending(t)' /\ Pending(t)' \cap Credits = {}
    BY <1>3, <2>1, Disjoint
  <2>3. pc[t] \in Working /\ ~AtWork(t) /\ AtWork(t)'
    BY <2>1, <2>2, Disjoint DEF TodoInv, AtWork, Working
  <2>4. Holds(t) = kept[t] /\ Holds(t)' = kept[t] \cup {"operation"}
    <3>1. Pending(t) \cap Releases = {} /\ Pending(t)' \cap Releases = {}
      BY <2>1, <2>2, Disjoint
    <3>2. Holds(t) = kept[t]
      BY <2>3, <3>1, HoldsOf
    <3>3. Holds(t)' = kept[t] \cup {"operation"}
      BY <1>0, <2>3, <3>1, HoldsOf
    <3>4. QED
      BY <3>2, <3>3
  <2>5. free' + occupied' = free + occupied - 1
    <3>1. \/ free' = free - 1 /\ occupied' = occupied
          \/ free' = free /\ occupied' = occupied - 1
      BY <1>4 DEF AcquireFree, AcquireOccupied
    <3>2. QED
      BY <1>0, <3>1
  <2>6. QED
    BY <1>0, <2>4, <2>5, Disjoint DEF CreditTaken
<1>5. CASE ReleaseFree(t) \/ ReleaseOccupied(t)
  <2>1. Perform(t, Tail(todo[t])) /\ H \in Releases /\ pc'[t] = pc[t]
    BY <1>5 DEF ReleaseFree, ReleaseOccupied, Doing, callVars, Releases
  <2>2. /\ Pending(t) = {H} \cup Pending(t)' /\ Pending(t)' \cap Credits = {}
    BY <1>3, <2>1, Disjoint
  <2>3. Pending(t) \cap Acquires = {} /\ Pending(t)' \cap Acquires = {}
        /\ Pending(t) \cap Releases = {H} /\ Pending(t)' \cap Releases = {}
    BY <2>1, <2>2, Disjoint
  <2>4. AtWork(t)' = AtWork(t)
    BY <2>1, <2>3 DEF AtWork
  <2>5. Holds(t)' = Holds(t) \ {H} /\ H \in Holds(t)
    BY <1>0, <2>1, <2>3, <2>4, HoldsOf, Disjoint
  <2>6. free' + occupied' = free + occupied + 1
    <3>1. \/ free' = free + 1 /\ occupied' = occupied
          \/ free' = free /\ occupied' = occupied + 1
      BY <1>5 DEF ReleaseFree, ReleaseOccupied
    <3>2. QED
      BY <1>0, <3>1
  <2>7. QED
    BY <2>5, <2>6 DEF CreditReturned
<1>6. CASE LockMutex(t) \/ UnlockMutex(t) \/ ReserveWriteSlot(t) \/ ReserveReadSlot(t)
  <2>1. /\ Perform(t, Tail(todo[t])) /\ pc'[t] = pc[t]
        /\ H \in {"mutex.lock", "mutex.try_lock", "mutex.unlock", "write_seq.add", "read_seq.add"}
    BY <1>6 DEF LockMutex, UnlockMutex, ReserveWriteSlot, ReserveReadSlot, Doing, callVars
  <2>2. H \notin Acquires /\ H \notin Releases
    BY <2>1 DEF Acquires, Releases
  <2>3. Pending(t)' \cap Acquires = Pending(t) \cap Acquires
        /\ Pending(t)' \cap Releases = Pending(t) \cap Releases
    BY <1>3, <2>1, <2>2
  <2>4. Holds(t)' = Holds(t)
    <3>1. AtWork(t)' = AtWork(t)
      BY <2>1, <2>3 DEF AtWork
    <3>2. QED
      BY <1>0, <2>3, <3>1, HoldsOf
  <2>5. QED
    BY <1>6, <2>4 DEF CreditKept, LockMutex, UnlockMutex, ReserveWriteSlot, ReserveReadSlot
<1>7. CASE TryAcquireFreeFails(t) \/ TryAcquireOccupiedFails(t) \/ TryLockMutexFails(t)
  <2>1. GiveUp(t) /\ free' = free /\ occupied' = occupied
        /\ H \in {"free.try_acquire", "occupied.try_acquire", "mutex.try_lock"}
    BY <1>7 DEF TryAcquireFreeFails, TryAcquireOccupiedFails, TryLockMutexFails
  <2>2. Items(todo[t]) \cap Acquires # {}
    BY <1>2, <2>1 DEF Acquires
  <2>3. Items(todo[t]) \cap Releases = {}
    <3>1. PICK a \in Items(todo[t]) : a \in Acquires
      BY <2>2
    <3>2. Items(todo[t]) \cap Credits = {a}
      BY <1>1, <3>1, OneCredit, Disjoint
    <3>3. QED
      BY <3>1, <3>2, Disjoint
  <2>4. Holds(t) = kept[t]
    BY <2>2, <2>3, PendingItems, HoldsOf DEF AtWork
  <2>5. \E p \in {<<>>, <<"mutex.unlock">>} : Perform(t, p)
    BY <2>1 DEF GiveUp
  <2>6. Items(todo'[t]) \cap Credits = {}
    BY <2>5, FreePrograms, PerformTyped
  <2>7. pc'[t] = "return"
    BY <2>1 DEF GiveUp, Finish, Goto, BasicTypes, CallTypeOK
  <2>8. Holds(t)' = kept[t]
    <3>1. ~AtWork(t)'
      BY <2>7 DEF AtWork, Working
    <3>2. Pending(t)' \cap Releases = {}
      BY <2>6, PendingItems, Disjoint
    <3>3. QED
      BY <1>0, <3>1, <3>2, HoldsOf
  <2>9. QED
    BY <2>1, <2>4, <2>8 DEF CreditKept
<1>8. CASE TakeFreeIfAny(t)
  BY <1>1, <1>2, <1>8 DEF TakeFreeIfAny, Doing, Sound
<1>9. QED
  BY <1>4, <1>5, <1>6, <1>7, <1>8 DEF SyncStep

LEMMA StepCredit ==
  ASSUME BasicTypes, BasicTypes', NEW t \in Threads, TodoInv(t), TodoInv(t)', Step(t)
  PROVE  CreditKept(t) \/ CreditTaken(t) \/ CreditReturned(t)
<1>0. kept[t] \in SUBSET {"sent", "read"}
  BY DEF BasicTypes
<1>1. CASE SyncStep(t) /\ UNCHANGED <<ringVars, kept>>
  BY <1>1, SyncStepCredit
<1>2. ASSUME kept'[t] = kept[t], free' = free, occupied' = occupied,
             AtWork(t)' = AtWork(t), Pending(t)' \cap Releases = Pending(t) \cap Releases
      PROVE  CreditKept(t)
  BY <1>2, HoldsOf DEF CreditKept
\* A call that is not at work, or that stays at work, with nothing to do before or after.
<1>3. ASSUME kept'[t] = kept[t], free' = free, occupied' = occupied,
             todo[t] = <<>>, todo'[t] = <<>>, pc[t] \in Working <=> pc'[t] \in Working
      PROVE  CreditKept(t)
  <2>1. Pending(t) = {} /\ Pending(t)' = {}
    BY <1>3, PendingItems DEF Ready
  <2>2. AtWork(t)' = AtWork(t)
    BY <1>3, <2>1 DEF AtWork
  <2>3. QED
    BY <1>2, <1>3, <2>1, <2>2
\* A call at work that leaves with a release to run.
<1>4. ASSUME kept'[t] = kept[t], free' = free, occupied' = occupied, Ready(t),
             pc[t] \in Working, pc'[t] \notin Working,
             NEW p, NEW r \in Releases, Releasing(p, r), Perform(t, p)
      PROVE  CreditKept(t)
  <2>1. Pending(t) = {} /\ Pending(t)' \cap Releases = {r}
    BY <1>4, ReleaseFollows
  <2>2. AtWork(t) /\ ~AtWork(t)'
    BY <1>4, <2>1 DEF AtWork
  <2>3. Holds(t) = {"operation"} \cup kept[t] /\ Holds(t)' = {r} \cup kept[t]
    BY <1>4, <2>1, <2>2, HoldsOf
  <2>4. Holds(t)' = (Holds(t) \ {"operation"}) \cup {r} /\ r \notin Holds(t)
        /\ "operation" \in Holds(t)
    BY <1>0, <2>3, Disjoint
  <2>5. QED
    BY <1>4, <2>4 DEF CreditKept
<1>5. CASE UNCHANGED kept /\ (Call(t) \/ CheckSendDeadlockPossibility(t) \/ CheckReadDeadlockPossibility(t))
  <2>1. /\ pc[t] \in {"idle", "check"} /\ pc'[t] \in {"check", "return", "close", "sync"}
        /\ UNCHANGED syncVars
    BY <1>5 DEF Call, CallSend, CallRead, CallClose, Enter, AccountThreads,
       CheckSendDeadlockPossibility, CheckReadDeadlockPossibility, AfterCheck,
       HandleDeadlock, Finish, Goto, BasicTypes, CallTypeOK
  <2>2. todo[t] = <<>> /\ todo'[t] = <<>> /\ free' = free /\ occupied' = occupied
    BY <2>1 DEF TodoInv, Ready, syncVars
  <2>3. kept'[t] = kept[t] /\ pc[t] \notin Working /\ pc'[t] \notin Working
    BY <1>5, <2>1 DEF Working
  <2>4. QED
    BY <1>3, <2>2, <2>3
<1>6. CASE Emplace(t)
  <2>1. PICK guard \in Replaced(t) : /\ kept' = [kept EXCEPT ![t] = kept[t] \ {guard}]
                                     /\ Perform(t, Sync[guard])
    BY <1>6 DEF Emplace
  <2>2. guard \in kept[t] /\ pc[t] \in {"store", "tryFull", "take", "tryEmpty"}
    BY <2>1 DEF Replaced
  <2>3. guard \in {"sent", "read"} /\ kept'[t] = kept[t] \ {guard}
    BY <1>0, <2>1, <2>2 DEF BasicTypes
  <2>4. PICK r \in Releases : Releasing(Sync[guard], r)
    BY <2>3, SyncTable, ProgramsTyped, Disjoint
  <2>5. Pending(t) = {} /\ Pending(t)' \cap Releases = {r} /\ Pending(t)' \cap Acquires = {}
    BY <1>6, <2>1, <2>4, ReleaseFollows DEF Emplace
  <2>6. pc'[t] = pc[t] /\ pc[t] \in Working /\ free' = free /\ occupied' = occupied
    BY <1>6, <2>2 DEF Emplace, callVars, Working
  <2>7. AtWork(t) /\ AtWork(t)'
    BY <2>5, <2>6 DEF AtWork
  <2>8. Holds(t) = {"operation"} \cup kept[t] /\ Holds(t)' = {"operation", r} \cup (kept[t] \ {guard})
    BY <2>3, <2>5, <2>7, HoldsOf
  <2>9. Holds(t)' = (Holds(t) \ {guard}) \cup {r} /\ r \notin Holds(t) /\ guard \in Holds(t)
    BY <1>0, <2>2, <2>8, Disjoint
  <2>10. QED
    BY <2>6, <2>9 DEF CreditKept
<1>7. CASE (Replaced(t) = {} \/ ~Ready(t)) /\ (StoreMessageThrows(t) \/ PopMessageThrows(t))
  <2>1. PICK guard \in {"sent", "read"} :
          /\ Keep(t, guard)
          /\ IF guard = "sent" THEN pc[t] = "store"
                               ELSE pc[t] \in {"move", "take"}
    BY <1>7 DEF StoreMessageThrows, PopMessageThrows
  <2>2. todo[t] = <<>> /\ todo'[t] = <<>> /\ free' = free /\ occupied' = occupied
    BY <1>7, <2>1 DEF StoreMessageThrows, PopMessageThrows, TodoInv, Ready, Keep, syncVars
  <2>3. guard \notin kept[t] /\ kept'[t] = kept[t] \cup {guard}
    <3>1. CASE pc[t] \in {"store", "take"}
      BY <1>7, <2>1, <2>2, <3>1 DEF Replaced, Ready, Keep, BasicTypes
    <3>2. CASE pc[t] = "move"
      BY <2>1, <3>2 DEF TodoInv, Keep, BasicTypes
    <3>3. QED
      BY <2>1, <3>1, <3>2
  <2>4. pc[t] \in Working /\ pc'[t] = "return"
    BY <2>1 DEF Keep, Finish, Goto, BasicTypes, CallTypeOK, Working
  <2>5. Pending(t) = {} /\ Pending(t)' = {}
    BY <2>2, PendingItems DEF Ready
  <2>6. AtWork(t) /\ ~AtWork(t)'
    BY <2>4, <2>5 DEF AtWork, Working
  <2>7. Holds(t) = {"operation"} \cup kept[t] /\ Holds(t)' = kept[t] \cup {guard}
    BY <2>3, <2>5, <2>6, HoldsOf
  <2>8. Holds(t)' = (Holds(t) \ {"operation"}) \cup {guard} /\ guard \notin Holds(t)
        /\ "operation" \in Holds(t)
    BY <1>0, <2>1, <2>3, <2>7, Disjoint
  <2>9. QED
    BY <2>2, <2>8 DEF CreditKept
<1>8. CASE UNCHANGED kept /\ (SyncAndOverflowPrework(t) \/ SyncAndUnderflowPrework(t, Sync[op[t]]))
  <2>1. /\ Perform(t, Sync[op[t]]) /\ op[t] \in SendOps \cup ReadOps /\ pc[t] = "sync"
        /\ free' = free /\ occupied' = occupied
    BY <1>8 DEF SyncAndOverflowPrework, SyncAndUnderflowPrework
  <2>2. todo'[t] = Sync[op[t]] /\ Acquiring(todo'[t])
    BY <2>1, PerformTyped, ProgramsTyped, SyncTable
  <2>3. Pending(t) = {} /\ Pending(t)' \cap Releases = {} /\ Pending(t)' \cap Acquires # {}
    BY <2>1, <2>2, PendingItems DEF Acquiring, TodoInv
  <2>4. AtWork(t)' = AtWork(t)
    BY <2>1, <2>3 DEF AtWork, Working
  <2>5. Pending(t)' \cap Releases = Pending(t) \cap Releases /\ kept'[t] = kept[t]
    BY <1>8, <2>3
  <2>6. QED
    BY <1>2, <2>1, <2>4, <2>5
<1>9. CASE UNCHANGED kept /\ (ResolveSendOverflowTry(t) \/ ResolveReadUnderflowTry(t))
  <2>1. /\ Ready(t) /\ pc[t] \in Working /\ free' = free /\ occupied' = occupied
    BY <1>9 DEF ResolveSendOverflowTry, ResolveReadUnderflowTry, Working
  <2>2. \/ todo' = todo /\ pc'[t] \in Working
        \/ pc'[t] = "return" /\ (Perform(t, Sync.cancelSend) \/ Perform(t, Sync.cancelRead))
    BY <1>9 DEF ResolveSendOverflowTry, ResolveReadUnderflowTry, Finish, Goto, Working,
       BasicTypes, CallTypeOK
  <2>3. CASE todo' = todo /\ pc'[t] \in Working
    BY <1>3, <1>9, <2>1, <2>3 DEF Ready
  <2>4. CASE pc'[t] = "return" /\ (Perform(t, Sync.cancelSend) \/ Perform(t, Sync.cancelRead))
    <3>1. PICK p, r : r \in Releases /\ Releasing(p, r) /\ Perform(t, p)
      BY <2>4, SyncTable, Disjoint
    <3>2. pc'[t] \notin Working
      BY <2>4 DEF Working
    <3>3. QED
      BY <1>4, <1>9, <2>1, <3>1, <3>2
  <2>5. QED
    BY <2>2, <2>3, <2>4
<1>10. CASE UNCHANGED kept /\ (WriteTail(t, "store", Sync.sent) \/ CountDown(t))
  <2>1. /\ Ready(t) /\ pc[t] \in Working /\ free' = free /\ occupied' = occupied
        /\ pc'[t] \notin Working /\ (Perform(t, Sync.sent) \/ Perform(t, Sync.read))
    BY <1>10 DEF WriteTail, CountDown, Goto, Working, TodoInv, BasicTypes, CallTypeOK
  <2>2. PICK p, r : r \in Releases /\ Releasing(p, r) /\ Perform(t, p)
    BY <2>1, SyncTable, Disjoint
  <2>3. QED
    BY <1>4, <1>10, <2>1, <2>2
<1>11. CASE UNCHANGED kept /\ (ReadReserved(t) \/ LoadHead(t) \/ MoveHead(t) \/ AdvanceHead(t))
  <2>1. /\ Ready(t) /\ pc[t] \in Working /\ free' = free /\ occupied' = occupied
        /\ pc'[t] \in Working /\ todo' = todo
    BY <1>11 DEF ReadReserved, LoadHead, MoveHead, AdvanceHead, Goto, Working, TodoInv,
       BasicTypes, CallTypeOK, syncVars
  <2>2. QED
    BY <1>3, <1>11, <2>1 DEF Ready
<1>12. CASE UNCHANGED kept /\ (CountUp(t) \/ Close(t) \/ Leave(t))
  <2>1. /\ Ready(t) /\ pc[t] \notin Working /\ free' = free /\ occupied' = occupied
        /\ pc'[t] \notin Working /\ todo' = todo
    BY <1>12 DEF CountUp, Close, Leave, Return, Finish, Goto, Working, TodoInv,
       BasicTypes, CallTypeOK, syncVars
  <2>2. QED
    BY <1>3, <1>12, <2>1 DEF Ready
<1>13. QED
  BY <1>1, <1>5, <1>6, <1>7, <1>8, <1>9, <1>10, <1>11, <1>12 DEF Step, Run, Proceed

(* Nobody but the stepping thread gains or loses a credit. *)
LEMMA StepInv ==
  ASSUME Inv, NEW t \in Threads, Step(t)
  PROVE  Inv'
<1>1. BasicTypes /\ (\A s \in Threads : TodoInv(s))
      /\ free + occupied + Cardinality(Held) = Capacity
  BY DEF Inv, CreditsConserved, Held
<1>2. BasicTypes'
  BY <1>1, StepBasic
<1>3. Others(t)
  BY <1>1, StepOthers
<1>4. \A s \in Threads : TodoInv(s)'
  <2>1. TodoInv(t)'
    BY <1>1, StepTodo
  <2>2. ASSUME NEW s \in Threads \ {t} PROVE TodoInv(s)'
    BY <1>1, <1>3, <2>2, TodoKept DEF Others
  <2>3. QED
    BY <2>1, <2>2
<1>5. \A s \in Threads \ {t} : Holds(s)' = Holds(s)
  BY <1>3 DEF Others, Holds, Pending
<1>6. CreditKept(t) \/ CreditTaken(t) \/ CreditReturned(t)
  BY <1>1, <1>2, <1>4, StepCredit
<1>7. free \in Nat /\ occupied \in Nat /\ free' \in Nat /\ occupied' \in Nat
      /\ Cardinality(Held) \in Nat
  BY <1>1, <1>2, HeldFinite DEF BasicTypes
<1>8. free + occupied + Cardinality(Held) = Capacity
  BY <1>1
<1>9. free' + occupied' + Cardinality(Held') = Capacity
  <2>1. CASE CreditKept(t)
    <3>1. Cardinality(Held') = Cardinality(Held)
      BY <1>1, <1>5, <2>1, HeldSame, HeldSwaps DEF CreditKept
    <3>2. QED
      BY <1>8, <2>1, <3>1 DEF CreditKept
  <2>2. CASE CreditTaken(t)
    <3>1. Cardinality(Held') = Cardinality(Held) + 1
      BY <1>1, <1>5, <2>2, HeldGains DEF CreditTaken
    <3>2. free' + occupied' = free + occupied - 1
      BY <2>2 DEF CreditTaken
    <3>3. free' + occupied' + Cardinality(Held')
            = (free + occupied - 1) + (Cardinality(Held) + 1)
      BY <3>1, <3>2
    <3>4. (free + occupied - 1) + (Cardinality(Held) + 1)
            = free + occupied + Cardinality(Held)
      BY <1>7
    <3>5. QED
      BY <1>8, <3>3, <3>4
  <2>3. CASE CreditReturned(t)
    <3>1. Cardinality(Held') = Cardinality(Held) - 1
      BY <1>1, <1>5, <2>3, HeldLoses DEF CreditReturned
    <3>2. free' + occupied' = free + occupied + 1
      BY <2>3 DEF CreditReturned
    <3>3. free' + occupied' + Cardinality(Held')
            = (free + occupied + 1) + (Cardinality(Held) - 1)
      BY <3>1, <3>2
    <3>4. (free + occupied + 1) + (Cardinality(Held) - 1)
            = free + occupied + Cardinality(Held)
      BY <1>7
    <3>5. QED
      BY <1>8, <3>3, <3>4
  <2>4. QED
    BY <1>6, <2>1, <2>2, <2>3
<1>10. QED
  BY <1>2, <1>4, <1>9 DEF Inv, CreditsConserved, Held

LEMMA InitInv == Init => Inv
<1> SUFFICES ASSUME Init PROVE Inv
  OBVIOUS
<1>1. BasicTypes
  <2>1. CallTypeOK(Labels)
    BY DEF Init, CallInit, CallTypeOK, Labels, Roles, Ops, Outcomes
  <2>2. RingTypeOK
    BY SlotsIn, CountIn DEF Init, RingInit, RingTypeOK
  <2>3. todo \in [Threads -> Seq(Primitives)]
    <3>1. <<>> \in Seq(Primitives)
      OBVIOUS
    <3>2. QED
      BY <3>1 DEF Init, SyncInit
  <2>4. QED
    BY <2>1, <2>2, <2>3, SlotsIn, CapacityAssumption DEF Init, SyncInit, BasicTypes
<1>2. \A t \in Threads : TodoInv(t)
  <2>1. SUFFICES ASSUME NEW t \in Threads PROVE TodoInv(t)
    OBVIOUS
  <2>2. pc[t] = "idle" /\ todo[t] = <<>>
    BY DEF Init, CallInit, SyncInit
  <2>3. QED
    BY <2>2, ReleasingClean, PendingItems DEF TodoInv, Ready
<1>3. \A t \in Threads : Holds(t) = {}
  <2>1. SUFFICES ASSUME NEW t \in Threads PROVE Holds(t) = {}
    OBVIOUS
  <2>2. pc[t] = "idle" /\ todo[t] = <<>> /\ kept[t] = {}
    BY DEF Init, CallInit, SyncInit
  <2>3. Pending(t) = {} /\ ~AtWork(t)
    BY <2>2, PendingItems DEF Ready, AtWork, Working
  <2>4. QED
    BY <2>2, <2>3, HoldsOf
<1>4. Held = {}
  BY <1>3, HeldElements
<1>5. free + occupied + Cardinality(Held) = Capacity
  BY <1>4, FS_EmptySet, CapacityAssumption DEF Init, SyncInit
<1>6. QED
  BY <1>1, <1>2, <1>5 DEF Inv, CreditsConserved, Held

LEMMA StutterInv ==
  ASSUME Inv, UNCHANGED vars
  PROVE  Inv'
<1>1. BasicTypes'
  BY DEF Inv, vars, callVars, syncVars, ringVars, BasicTypes, CallTypeOK, RingTypeOK
<1>2. \A t \in Threads : TodoInv(t)'
  BY TodoKept DEF Inv, vars, callVars, syncVars
<1>3. CreditsConserved'
  <2>1. \A t \in Threads : Holds(t)' = Holds(t)
    BY DEF Holds, Pending, vars, callVars, syncVars
  <2>2. Held' = Held
    <3>1. \A e : e \in Held' <=> e \in Held
      BY <2>1, HeldElements
    <3>2. QED
      BY <3>1
  <2>3. QED
    BY <2>2 DEF Inv, CreditsConserved, Held, vars, syncVars
<1>4. QED
  BY <1>1, <1>2, <1>3 DEF Inv

LEMMA InvAlways == Spec => []Inv
<1>1. Inv /\ [Next]_vars => Inv'
  BY StepInv, StutterInv DEF Next, Step
<1>2. QED
  BY <1>1, InitInv, PTL DEF Spec

(* Whatever the category, the number of threads and the capacity, and also *)
(* after exceptions and Close, every slot of the ring is free, occupied or *)
(* held by one thread (the counting semaphores of lib/circular/impl).      *)
THEOREM CreditsCorrect == Spec => []CreditsConserved
<1>1. Inv => CreditsConserved
  BY DEF Inv
<1>2. QED
  BY <1>1, InvAlways, PTL

(* Every variable keeps its type, and no semaphore ever exceeds the        *)
(* capacity it was made with (std::counting_semaphore's least max_value).  *)
THEOREM TypeCorrect == Spec => []TypeOK
<1>1. ASSUME Inv PROVE TypeOK
  <2>1. BasicTypes /\ free + occupied + Cardinality(Held) = Capacity
    BY <1>1 DEF Inv, CreditsConserved, Held
  <2>2. free \in Nat /\ occupied \in Nat /\ Cardinality(Held) \in Nat
    BY <2>1, HeldFinite DEF BasicTypes
  <2>3. free \in 0..Capacity /\ occupied \in 0..Capacity
    BY <2>1, <2>2, CapacityAssumption
  <2>4. QED
    BY <2>1, <2>3 DEF TypeOK, SyncTypeOK, BasicTypes
<1>2. QED
  BY <1>1, InvAlways, PTL

-----------------------------------------------------------------------------
(***************************************************************************)
(* count_, for values whose assignments do not throw.  It is off by the    *)
(* senders that have published their message and not counted it yet, and   *)
(* by the readers that have taken the credit of a message which is still   *)
(* counted.                                                                *)
(***************************************************************************)
Uncounts(t) == pc[t] = "countUp" /\ "occupied.release" \notin Pending(t)
StillCounts(t) ==
  op[t] \in ReadOps /\ (AtWork(t) \/ "occupied.release" \in Pending(t))

Uncounted == {t \in Threads : Uncounts(t)}
StillCounted == {t \in Threads : StillCounts(t)}
Counted == occupied - Cardinality(Uncounted) + Cardinality(StillCounted)

FreeAcquires == {"free.acquire", "free.try_acquire"}
OccupiedAcquires == {"occupied.acquire", "occupied.try_acquire"}

(* Which call a thread is in, from where it is in its programs. *)
OpInv(t) ==
  /\ kept[t] = {}
  /\ pc[t] \in {"tryEmpty", "take", "move", "advance", "countDown"} => op[t] \in ReadOps
  /\ pc[t] \in {"tryFull", "store", "countUp"} => op[t] \in SendOps
  /\ "occupied.release" \in Pending(t) =>
       \/ pc[t] = "countUp" /\ op[t] \in SendOps
       \/ pc[t] = "return" /\ op[t] \in ReadOps
  /\ Pending(t) \cap FreeAcquires # {} => op[t] \in SendOps
  /\ Pending(t) \cap OccupiedAcquires # {} => op[t] \in ReadOps

CountInv ==
  /\ \A t \in Threads : OpInv(t)
  /\ ~cleared => count = IF Counted < 0 THEN Counted + CountModulus ELSE Counted

-----------------------------------------------------------------------------
LEMMA SyncSides ==
  /\ \A o \in SendOps : Items(Sync[o]) \cap OccupiedAcquires = {}
  /\ \A o \in ReadOps : Items(Sync[o]) \cap FreeAcquires = {}
<1> USE ItemsOf DEF SendOps, ReadOps, FreeAcquires, OccupiedAcquires
<1>1. CASE Category = "SPSC"
  <2>1. Sync = SpscSync
    BY <1>1 DEF Sync
  <2>2. QED
    BY <2>1 DEF SpscSync
<1>2. CASE Category = "MPSC"
  <2>1. Sync = MpscSync
    BY <1>2 DEF Sync
  <2>2. QED
    BY <2>1 DEF MpscSync
<1>3. CASE Category = "SPMC"
  <2>1. Sync = SpmcSync
    BY <1>3 DEF Sync
  <2>2. QED
    BY <2>1 DEF SpmcSync
<1>4. CASE Category = "MPMC"
  <2>1. Sync = MpmcSync
    BY <1>4 DEF Sync
  <2>2. QED
    BY <2>1 DEF MpmcSync
<1>5. QED
  BY <1>1, <1>2, <1>3, <1>4, CategoryAssumption

LEMMA Sides ==
  /\ Acquires = FreeAcquires \cup OccupiedAcquires
  /\ Credits = FreeAcquires \cup OccupiedAcquires \cup {"free.release", "occupied.release"}
  /\ SendOps \cap ReadOps = {} /\ "none" \notin SendOps \cup ReadOps
  BY DEF Acquires, Releases, Credits, FreeAcquires, OccupiedAcquires, SendOps, ReadOps

(* The ways a step can move the terms of Counted. *)
SameCounts(t) ==
  /\ count' = count /\ occupied' = occupied
  /\ Uncounts(t)' <=> Uncounts(t)
  /\ StillCounts(t)' <=> StillCounts(t)
Publishes(t) ==
  /\ count' = count /\ occupied' = occupied + 1
  /\ \/ /\ ~Uncounts(t) /\ Uncounts(t)'
        /\ StillCounts(t)' <=> StillCounts(t)
     \/ /\ Uncounts(t)' <=> Uncounts(t)
        /\ StillCounts(t) /\ ~StillCounts(t)'
TakesCredit(t) ==
  /\ count' = count /\ occupied' = occupied - 1
  /\ Uncounts(t)' <=> Uncounts(t)
  /\ ~StillCounts(t) /\ StillCounts(t)'
CountsUp(t) ==
  /\ count' = (count + 1) % CountModulus /\ occupied' = occupied
  /\ Uncounts(t) /\ ~Uncounts(t)'
  /\ StillCounts(t)' <=> StillCounts(t)
CountsDown(t) ==
  /\ count' = (count - 1) % CountModulus /\ occupied' = occupied
  /\ Uncounts(t)' <=> Uncounts(t)
  /\ StillCounts(t) /\ ~StillCounts(t)'

Effect(t) ==
  \/ SameCounts(t) \/ Publishes(t) \/ TakesCredit(t) \/ CountsUp(t) \/ CountsDown(t)

(* Between the programs of its call a thread counts by where it is. *)
LEMMA CountsWhenReady ==
  ASSUME NEW t
  PROVE  /\ Ready(t) => /\ Uncounts(t) <=> pc[t] = "countUp"
                        /\ StillCounts(t) <=> op[t] \in ReadOps /\ pc[t] \in Working
         /\ Ready(t)' => /\ Uncounts(t)' <=> pc'[t] = "countUp"
                         /\ StillCounts(t)' <=> op'[t] \in ReadOps /\ pc'[t] \in Working
  BY PendingItems DEF Uncounts, StillCounts, AtWork

(* A call that has nothing to acquire. *)
LEMMA OpFrom ==
  ASSUME NEW t, kept'[t] = {}, Pending(t)' \cap Acquires = {},
         "occupied.release" \in Pending(t)' =>
           \/ pc'[t] = "countUp" /\ op'[t] \in SendOps
           \/ pc'[t] = "return" /\ op'[t] \in ReadOps,
         pc'[t] \in {"tryEmpty", "take", "move", "advance", "countDown"} => op'[t] \in ReadOps,
         pc'[t] \in {"tryFull", "store", "countUp"} => op'[t] \in SendOps
  PROVE  OpInv(t)'
  BY Sides DEF OpInv

(* One primitive, and what is left of the program. *)
LEMMA OnePrimitive ==
  ASSUME BasicTypes, NEW t \in Threads, TodoInv(t), ~Ready(t), Perform(t, Tail(todo[t]))
  PROVE  /\ Pending(t) = {Head(todo[t])} \cup Pending(t)'
         /\ Head(todo[t]) \in Credits =>
              Pending(t)' \cap Credits = {} /\ Pending(t) \cap Credits = {Head(todo[t])}
<1>1. todo[t] \in Seq(Primitives) /\ Sound(todo[t]) /\ todo[t] # <<>>
  BY DEF BasicTypes, TodoInv, Ready
<1>2. /\ Tail(todo[t]) \in Seq(Primitives)
      /\ Items(todo[t]) = {Head(todo[t])} \cup Items(Tail(todo[t]))
      /\ Head(todo[t]) \in Credits => Items(Tail(todo[t])) \cap Credits = {}
  BY <1>1, SoundTail
<1>3. todo'[t] = Tail(todo[t])
  BY <1>2, PerformTyped
<1>4. QED
  BY <1>2, <1>3, PendingItems

(* What a thread that gives up had not acquired. *)
LEMMA GivingUp ==
  ASSUME BasicTypes, NEW t \in Threads, TodoInv(t), ~Ready(t), GiveUp(t),
         Head(todo[t]) \in {"free.try_acquire", "occupied.try_acquire", "mutex.try_lock"}
  PROVE  /\ Pending(t) \cap Acquires # {} /\ Pending(t) \cap Releases = {}
         /\ Pending(t)' \cap Credits = {} /\ pc'[t] = "return"
<1>1. todo[t] \in Seq(Primitives) /\ Sound(todo[t]) /\ todo[t] # <<>>
  BY DEF BasicTypes, TodoInv, Ready
<1>2. Items(todo[t]) \cap Acquires # {}
  BY <1>1, SoundTail DEF Acquires
<1>3. PICK a \in Items(todo[t]) : a \in Acquires
  BY <1>2
<1>4. Items(todo[t]) \cap Credits = {a}
  BY <1>1, <1>3, OneCredit, Disjoint
<1>5. Items(todo[t]) \cap Releases = {}
  BY <1>3, <1>4, Disjoint
<1>6. \E p \in {<<>>, <<"mutex.unlock">>} : Perform(t, p)
  BY DEF GiveUp
<1>7. Items(todo'[t]) \cap Credits = {}
  BY <1>6, FreePrograms, PerformTyped
<1>8. pc'[t] = "return"
  BY DEF GiveUp, Finish, Goto, BasicTypes, CallTypeOK
<1>9. QED
  BY <1>2, <1>5, <1>7, <1>8, PendingItems

LEMMA SyncStepCounts ==
  ASSUME BasicTypes, BasicTypes', NEW t \in Threads, TodoInv(t), OpInv(t), SyncStep(t),
         UNCHANGED <<ringVars, kept>>
  PROVE  OpInv(t)' /\ Effect(t)
<1> DEFINE H == Head(todo[t])
<1>1. ~Ready(t) /\ kept'[t] = {} /\ op'[t] = op[t] /\ count' = count
  BY DEF SyncStep, AcquireFree, TryAcquireFreeFails, TakeFreeIfAny, ReleaseFree,
     AcquireOccupied, TryAcquireOccupiedFails, ReleaseOccupied, LockMutex,
     TryLockMutexFails, UnlockMutex, ReserveWriteSlot, ReserveReadSlot, Doing,
     callVars, ringVars, OpInv
<1>2. CASE TryAcquireFreeFails(t) \/ TryAcquireOccupiedFails(t) \/ TryLockMutexFails(t)
  <2>1. GiveUp(t) /\ occupied' = occupied
        /\ H \in {"free.try_acquire", "occupied.try_acquire", "mutex.try_lock"}
    BY <1>2 DEF TryAcquireFreeFails, TryAcquireOccupiedFails, TryLockMutexFails
  <2>2. /\ Pending(t) \cap Acquires # {} /\ Pending(t) \cap Releases = {}
        /\ Pending(t)' \cap Credits = {} /\ pc'[t] = "return"
    BY <1>1, <2>1, GivingUp
  <2>3. OpInv(t)'
    BY <1>1, <2>2, OpFrom, Disjoint
  <2>4. ~StillCounts(t) /\ ~StillCounts(t)'
    BY <2>2, Disjoint DEF StillCounts, AtWork, Working
  <2>5. ~Uncounts(t) /\ ~Uncounts(t)'
    BY <2>2 DEF Uncounts, TodoInv
  <2>6. QED
    BY <1>1, <2>1, <2>3, <2>4, <2>5 DEF Effect, SameCounts
<1>3. ASSUME Perform(t, Tail(todo[t])), pc'[t] = pc[t]
      PROVE  /\ Pending(t) = {H} \cup Pending(t)'
             /\ H \in Credits => Pending(t)' \cap Credits = {} /\ Pending(t) \cap Credits = {H}
             /\ OpInv(t)'
  <2>1. /\ Pending(t) = {H} \cup Pending(t)'
        /\ H \in Credits => Pending(t)' \cap Credits = {} /\ Pending(t) \cap Credits = {H}
    BY <1>1, <1>3, OnePrimitive
  <2>2. OpInv(t)'
    BY <1>1, <1>3, <2>1 DEF OpInv
  <2>3. QED
    BY <2>1, <2>2
<1>4. CASE AcquireFree(t)
  <2>1. Perform(t, Tail(todo[t])) /\ H \in FreeAcquires /\ pc'[t] = pc[t]
        /\ occupied' = occupied
    BY <1>4 DEF AcquireFree, Doing, callVars, FreeAcquires
  <2>2. H \in Pending(t) /\ OpInv(t)'
    BY <1>3, <2>1
  <2>3. op[t] \notin ReadOps /\ pc[t] # "countUp"
    BY <2>1, <2>2, Sides DEF OpInv, TodoInv
  <2>4. QED
    BY <1>1, <2>1, <2>2, <2>3 DEF Effect, SameCounts, Uncounts, StillCounts
<1>5. CASE AcquireOccupied(t)
  <2>1. Perform(t, Tail(todo[t])) /\ H \in OccupiedAcquires /\ pc'[t] = pc[t]
        /\ occupied' = occupied - 1
    BY <1>5 DEF AcquireOccupied, Doing, callVars, OccupiedAcquires
  <2>2. /\ Pending(t)' \cap Credits = {} /\ Pending(t) \cap Credits = {H}
        /\ H \in Pending(t) /\ H \in Acquires /\ OpInv(t)'
    BY <1>3, <2>1, Sides
  <2>3. op[t] \in ReadOps /\ pc[t] \in {"tryFull", "store", "tryEmpty", "take"}
    BY <2>1, <2>2 DEF OpInv, TodoInv
  <2>4. ~StillCounts(t)
    BY <2>1, <2>2, Disjoint DEF StillCounts, AtWork
  <2>5. StillCounts(t)'
    <3>1. pc'[t] \in Working /\ Pending(t)' \cap Acquires = {} /\ op'[t] \in ReadOps
      BY <1>1, <2>1, <2>2, <2>3, Disjoint DEF Working
    <3>2. QED
      BY <3>1 DEF StillCounts, AtWork
  <2>6. ~Uncounts(t) /\ ~Uncounts(t)'
    BY <2>1, <2>3 DEF Uncounts
  <2>7. QED
    BY <1>1, <2>1, <2>2, <2>4, <2>5, <2>6 DEF Effect, TakesCredit
<1>6. CASE ReleaseFree(t)
  <2>1. Perform(t, Tail(todo[t])) /\ H = "free.release" /\ pc'[t] = pc[t]
        /\ occupied' = occupied
    BY <1>6 DEF ReleaseFree, Doing, callVars
  <2>2. /\ Pending(t)' \cap Credits = {} /\ Pending(t) \cap Credits = {H} /\ OpInv(t)'
    BY <1>3, <2>1, Sides
  <2>3. /\ "occupied.release" \notin Pending(t) /\ "occupied.release" \notin Pending(t)'
        /\ Pending(t) \cap Acquires = {} /\ Pending(t)' \cap Acquires = {}
    BY <2>1, <2>2, Disjoint
  <2>4. QED
    BY <1>1, <2>1, <2>2, <2>3 DEF Effect, SameCounts, Uncounts, StillCounts, AtWork
<1>7. CASE ReleaseOccupied(t)
  <2>1. Perform(t, Tail(todo[t])) /\ H = "occupied.release" /\ pc'[t] = pc[t]
        /\ occupied' = occupied + 1
    BY <1>7 DEF ReleaseOccupied, Doing, callVars
  <2>2. /\ Pending(t)' \cap Credits = {} /\ H \in Pending(t) /\ OpInv(t)'
    BY <1>3, <2>1, Sides
  <2>3. "occupied.release" \notin Pending(t)'
    BY <2>1, <2>2, Sides
  <2>4. \/ pc[t] = "countUp" /\ op[t] \in SendOps
        \/ pc[t] = "return" /\ op[t] \in ReadOps
    BY <2>1, <2>2 DEF OpInv
  <2>5. CASE pc[t] = "countUp" /\ op[t] \in SendOps
    <3>1. ~Uncounts(t) /\ Uncounts(t)'
      BY <2>1, <2>2, <2>3, <2>5 DEF Uncounts
    <3>2. ~StillCounts(t) /\ ~StillCounts(t)'
      BY <1>1, <2>5, Sides DEF StillCounts
    <3>3. QED
      BY <1>1, <2>1, <2>2, <3>1, <3>2 DEF Effect, Publishes
  <2>6. CASE pc[t] = "return" /\ op[t] \in ReadOps
    <3>1. ~Uncounts(t) /\ ~Uncounts(t)'
      BY <2>1, <2>6 DEF Uncounts
    <3>2. StillCounts(t) /\ ~StillCounts(t)'
      BY <2>1, <2>2, <2>3, <2>6 DEF StillCounts, AtWork, Working
    <3>3. QED
      BY <1>1, <2>1, <2>2, <3>1, <3>2 DEF Effect, Publishes
  <2>7. QED
    BY <2>4, <2>5, <2>6
<1>8. CASE LockMutex(t) \/ UnlockMutex(t) \/ ReserveWriteSlot(t) \/ ReserveReadSlot(t)
  <2>1. /\ Perform(t, Tail(todo[t])) /\ pc'[t] = pc[t] /\ occupied' = occupied
        /\ H \in {"mutex.lock", "mutex.try_lock", "mutex.unlock", "write_seq.add", "read_seq.add"}
    BY <1>8 DEF LockMutex, UnlockMutex, ReserveWriteSlot, ReserveReadSlot, Doing, callVars
  <2>2. Pending(t) = {H} \cup Pending(t)' /\ OpInv(t)'
    BY <1>3, <2>1
  <2>3. /\ Pending(t)' \cap Acquires = Pending(t) \cap Acquires
        /\ "occupied.release" \in Pending(t)' <=> "occupied.release" \in Pending(t)
    BY <2>1, <2>2 DEF Acquires
  <2>4. QED
    BY <1>1, <2>1, <2>2, <2>3 DEF Effect, SameCounts, Uncounts, StillCounts, AtWork
<1>9. CASE TakeFreeIfAny(t)
  <2>1. todo[t] \in Seq(Primitives) /\ Sound(todo[t]) /\ todo[t] # <<>>
    BY <1>1 DEF BasicTypes, TodoInv, Ready
  <2>2. H \in Items(todo[t])
    BY <2>1, SoundTail
  <2>3. QED
    BY <1>9, <2>1, <2>2 DEF TakeFreeIfAny, Doing, Sound
<1>10. QED
  BY <1>2, <1>4, <1>5, <1>6, <1>7, <1>8, <1>9 DEF SyncStep

LEMMA PerformsReleasing ==
  ASSUME BasicTypes, NEW t \in Threads, NEW p, NEW r, Releasing(p, r), Perform(t, p)
  PROVE  /\ Pending(t)' \cap Credits = {r}
         /\ r \in Releases => /\ Pending(t)' \cap Acquires = {}
                              /\ "occupied.release" \in Pending(t)' <=> r = "occupied.release"
<1>1. todo'[t] = p /\ Items(p) \cap Credits = {r}
  BY PerformTyped DEF Releasing
<1>2. Pending(t)' \cap Credits = {r}
  BY <1>1, PendingItems
<1>3. QED
  BY <1>2, Disjoint

LEMMA StepCounts ==
  ASSUME Throws = {}, BasicTypes, BasicTypes', NEW t \in Threads, TodoInv(t), TodoInv(t)',
         OpInv(t), Step(t)
  PROVE  OpInv(t)' /\ (cleared' \/ (Effect(t) /\ cleared' = cleared))
<1>0. kept[t] = {} /\ Pending(t) = Items(todo[t]) /\ Pending(t)' = Items(todo'[t])
  BY PendingItems DEF OpInv
<1>1. CASE SyncStep(t) /\ UNCHANGED <<ringVars, kept>>
  BY <1>1, SyncStepCounts DEF ringVars
<1>2. CASE Emplace(t) \/ StoreMessageThrows(t) \/ PopMessageThrows(t)
  BY <1>0, <1>2 DEF Emplace, Replaced, StoreMessageThrows, PopMessageThrows
\* A call that is neither at work nor about to count.
<1>3. ASSUME kept' = kept, todo' = todo, count' = count, occupied' = occupied,
             cleared' = cleared, todo[t] = <<>>,
             pc[t] \notin Working \cup {"countUp"}, pc'[t] \notin Working \cup {"countUp"}
      PROVE  OpInv(t)' /\ Effect(t) /\ cleared' = cleared
  <2>1. Ready(t) /\ Ready(t)' /\ Pending(t)' = {}
    BY <1>3, PendingItems DEF Ready
  <2>2. OpInv(t)'
    BY <1>0, <1>3, <2>1, OpFrom DEF Working
  <2>3. SameCounts(t)
    BY <1>3, <2>1, CountsWhenReady DEF SameCounts
  <2>4. QED
    BY <1>3, <2>2, <2>3 DEF Effect
<1>4. CASE /\ UNCHANGED kept
           /\ Call(t) \/ CheckSendDeadlockPossibility(t) \/ CheckReadDeadlockPossibility(t)
              \/ Leave(t)
  <2>1. /\ pc[t] \in {"idle", "check", "return"}
        /\ pc'[t] \in {"check", "return", "close", "sync", "idle"}
        /\ kept' = kept /\ todo' = todo /\ count' = count /\ occupied' = occupied
        /\ cleared' = cleared
    BY <1>4 DEF Call, CallSend, CallRead, CallClose, Enter, AccountThreads,
       CheckSendDeadlockPossibility, CheckReadDeadlockPossibility, AfterCheck,
       HandleDeadlock, Leave, Return, Finish, Goto, BasicTypes, CallTypeOK, syncVars, ringVars
  <2>2. todo[t] = <<>>
    <3>1. Ready(t) \/ pc[t] \in {"idle", "check"}
      BY <1>4 DEF Call, CallSend, CallRead, CallClose, Enter, CheckSendDeadlockPossibility,
         CheckReadDeadlockPossibility, AfterCheck, Leave
    <3>2. QED
      BY <3>1 DEF TodoInv, Ready
  <2>3. QED
    BY <1>3, <2>1, <2>2 DEF Working
<1>5. CASE UNCHANGED kept /\ (SyncAndOverflowPrework(t) \/ SyncAndUnderflowPrework(t, Sync[op[t]]))
  <2>1. /\ Perform(t, Sync[op[t]]) /\ pc[t] = "sync"
        /\ occupied' = occupied /\ count' = count /\ cleared' = cleared /\ op'[t] = op[t]
    BY <1>5 DEF SyncAndOverflowPrework, SyncAndUnderflowPrework, ringVars
  <2>2. \/ op[t] \in SendOps /\ pc'[t] \in {"store", "tryFull"}
        \/ op[t] \in ReadOps /\ pc'[t] \in {"take", "tryEmpty"}
    BY <1>5 DEF SyncAndOverflowPrework, SyncAndUnderflowPrework, Goto, BasicTypes, CallTypeOK
  <2>3. todo'[t] = Sync[op[t]] /\ Acquiring(todo'[t])
    BY <2>1, <2>2, PerformTyped, ProgramsTyped, SyncTable
  <2>4. Pending(t)' \cap Releases = {} /\ Pending(t)' \cap Acquires # {}
    BY <1>0, <2>3 DEF Acquiring
  <2>5. /\ op[t] \in SendOps => Pending(t)' \cap OccupiedAcquires = {}
        /\ op[t] \in ReadOps => Pending(t)' \cap FreeAcquires = {}
    BY <1>0, <2>3, SyncSides
  <2>6. OpInv(t)'
    BY <1>0, <1>5, <2>1, <2>2, <2>4, <2>5, Disjoint DEF OpInv
  <2>7. ~Uncounts(t) /\ ~Uncounts(t)' /\ ~StillCounts(t)'
    BY <2>1, <2>2, <2>4, Disjoint DEF Uncounts, StillCounts, AtWork
  <2>8. ~StillCounts(t)
    BY <2>1, CountsWhenReady DEF TodoInv, Working
  <2>9. QED
    BY <2>1, <2>6, <2>7, <2>8 DEF Effect, SameCounts
<1>6. CASE UNCHANGED kept /\ ResolveSendOverflowTry(t)
  <2>1. /\ Ready(t) /\ pc[t] = "tryFull" /\ op'[t] = op[t]
        /\ occupied' = occupied /\ count' = count /\ cleared' = cleared
    BY <1>6 DEF ResolveSendOverflowTry, ringVars
  <2>2. \/ todo' = todo /\ pc'[t] = "store"
        \/ pc'[t] = "return" /\ Perform(t, Sync.cancelSend)
    BY <1>6 DEF ResolveSendOverflowTry, Finish, Goto, BasicTypes, CallTypeOK
  <2>3. /\ Pending(t) = {} /\ Pending(t)' \cap Acquires = {}
        /\ "occupied.release" \notin Pending(t)'
    <3>1. CASE todo' = todo
      BY <2>1, <3>1, PendingItems DEF Ready
    <3>2. CASE Perform(t, Sync.cancelSend)
      BY <2>1, <3>2, PendingItems, PerformsReleasing, SyncTable, Disjoint
    <3>3. QED
      BY <2>2, <3>1, <3>2
  <2>4. op[t] \in SendOps
    BY <2>1 DEF OpInv
  <2>5. OpInv(t)'
    BY <1>0, <1>6, <2>1, <2>2, <2>3, <2>4, OpFrom
  <2>6. QED
    BY <2>1, <2>2, <2>4, <2>5, Sides DEF Effect, SameCounts, Uncounts, StillCounts
<1>7. CASE UNCHANGED kept /\ ResolveReadUnderflowTry(t)
  <2>1. /\ Ready(t) /\ pc[t] = "tryEmpty" /\ op'[t] = op[t]
        /\ occupied' = occupied /\ count' = count /\ cleared' = cleared
    BY <1>7 DEF ResolveReadUnderflowTry, ringVars
  <2>2. op[t] \in ReadOps /\ StillCounts(t) /\ ~Uncounts(t)
    BY <2>1, CountsWhenReady DEF OpInv, Working
  <2>3. CASE todo' = todo /\ pc'[t] = "take"
    <3>1. Ready(t)' /\ Pending(t)' = {}
      BY <2>1, <2>3, PendingItems DEF Ready
    <3>2. OpInv(t)'
      BY <1>0, <1>7, <2>1, <2>2, <2>3, <3>1, OpFrom
    <3>3. StillCounts(t)' /\ ~Uncounts(t)'
      BY <2>1, <2>2, <2>3, <3>1, CountsWhenReady DEF Working
    <3>4. QED
      BY <2>1, <2>2, <3>2, <3>3 DEF Effect, SameCounts
  <2>4. CASE pc'[t] = "return" /\ Perform(t, Sync.cancelRead)
    <3>1. Pending(t)' \cap Acquires = {} /\ "occupied.release" \in Pending(t)'
      BY <2>4, SyncTable, PerformsReleasing, Disjoint
    <3>2. OpInv(t)'
      BY <1>0, <1>7, <2>1, <2>2, <2>4, <3>1, OpFrom
    <3>3. StillCounts(t)' /\ ~Uncounts(t)'
      BY <2>1, <2>2, <2>4, <3>1 DEF StillCounts, Uncounts
    <3>4. QED
      BY <2>1, <2>2, <3>2, <3>3 DEF Effect, SameCounts
  <2>5. QED
    BY <1>7, <2>3, <2>4 DEF ResolveReadUnderflowTry, Finish, Goto, BasicTypes, CallTypeOK
<1>8. CASE UNCHANGED kept /\ WriteTail(t, "store", Sync.sent)
  <2>1. /\ Ready(t) /\ pc[t] = "store" /\ pc'[t] = "countUp" /\ op'[t] = op[t]
        /\ occupied' = occupied /\ count' = count /\ cleared' = cleared
        /\ Perform(t, Sync.sent)
    BY <1>8 DEF WriteTail, Goto, BasicTypes, CallTypeOK
  <2>2. Pending(t)' \cap Acquires = {} /\ "occupied.release" \in Pending(t)'
    BY <2>1, SyncTable, PerformsReleasing, Disjoint
  <2>3. op[t] \in SendOps
    BY <2>1 DEF OpInv
  <2>4. OpInv(t)'
    BY <1>0, <1>8, <2>1, <2>2, <2>3, OpFrom
  <2>5. QED
    BY <2>1, <2>2, <2>3, <2>4, Sides DEF Effect, SameCounts, Uncounts, StillCounts
<1>9. CASE UNCHANGED kept /\ CountUp(t)
  <2>1. /\ Ready(t) /\ pc[t] = "countUp" /\ pc'[t] = "return" /\ op'[t] = op[t]
        /\ occupied' = occupied /\ count' = (count + 1) % CountModulus /\ cleared' = cleared
        /\ todo' = todo
    BY <1>9 DEF CountUp, Goto, BasicTypes, CallTypeOK, syncVars
  <2>2. Ready(t)' /\ Pending(t)' = {}
    BY <2>1, PendingItems DEF Ready
  <2>3. OpInv(t)'
    BY <1>0, <1>9, <2>1, <2>2, OpFrom
  <2>4. QED
    BY <2>1, <2>2, <2>3, CountsWhenReady DEF Effect, CountsUp, Working
<1>10. CASE UNCHANGED kept /\ (ReadReserved(t) \/ LoadHead(t) \/ MoveHead(t) \/ AdvanceHead(t))
  <2>1. /\ Ready(t) /\ pc[t] \in {"take", "move", "advance"} /\ op'[t] = op[t]
        /\ occupied' = occupied /\ count' = count /\ cleared' = cleared
        /\ pc'[t] \in {"move", "advance", "countDown"} /\ todo' = todo
    BY <1>10 DEF ReadReserved, LoadHead, MoveHead, AdvanceHead, Goto, TodoInv,
       BasicTypes, CallTypeOK, syncVars, ringVars
  <2>2. Ready(t)' /\ Pending(t)' = {} /\ op[t] \in ReadOps
    BY <2>1, PendingItems DEF Ready, OpInv
  <2>3. OpInv(t)'
    BY <1>0, <1>10, <2>1, <2>2, OpFrom
  <2>4. QED
    BY <2>1, <2>2, <2>3, CountsWhenReady DEF Effect, SameCounts, Working
<1>11. CASE UNCHANGED kept /\ CountDown(t)
  <2>1. /\ Ready(t) /\ pc[t] = "countDown" /\ pc'[t] = "return" /\ op'[t] = op[t]
        /\ occupied' = occupied /\ count' = (count - 1) % CountModulus /\ cleared' = cleared
        /\ Perform(t, Sync.read)
    BY <1>11 DEF CountDown, Goto, BasicTypes, CallTypeOK, TodoInv
  <2>2. /\ Pending(t)' \cap Acquires = {} /\ "occupied.release" \notin Pending(t)'
        /\ op[t] \in ReadOps
    BY <2>1, SyncTable, PerformsReleasing, Disjoint DEF OpInv
  <2>3. OpInv(t)'
    BY <1>0, <1>11, <2>1, <2>2, OpFrom
  <2>4. StillCounts(t) /\ ~Uncounts(t)
    BY <2>1, <2>2, CountsWhenReady DEF Working
  <2>5. ~StillCounts(t)' /\ ~Uncounts(t)'
    BY <2>1, <2>2, Sides DEF StillCounts, Uncounts, AtWork, Working
  <2>6. QED
    BY <2>1, <2>3, <2>4, <2>5 DEF Effect, CountsDown
<1>12. CASE UNCHANGED kept /\ Close(t)
  <2>1. cleared' /\ todo' = todo /\ todo[t] = <<>> /\ pc'[t] = "return"
    BY <1>12 DEF Close, Finish, Goto, BasicTypes, CallTypeOK, syncVars, TodoInv, Ready
  <2>2. Pending(t)' = {}
    BY <2>1, PendingItems DEF Ready
  <2>3. QED
    BY <1>0, <1>12, <2>1, <2>2, OpFrom
<1>13. QED
  BY <1>1, <1>2, <1>4, <1>5, <1>6, <1>7, <1>8, <1>9, <1>10, <1>11, <1>12
  DEF Step, Run, Proceed

-----------------------------------------------------------------------------
(* Counting the two sets. *)
LEMMA SetsFinite ==
  /\ IsFiniteSet(Uncounted) /\ IsFiniteSet(StillCounted)
  /\ Cardinality(Uncounted) \in 0..Cardinality(Threads)
  /\ Cardinality(StillCounted) \in 0..Cardinality(Threads)
<1>1. Uncounted \subseteq Threads /\ StillCounted \subseteq Threads
  BY DEF Uncounted, StillCounted
<1>2. QED
  BY <1>1, ThreadsAssumption, FS_Subset, FS_CardinalityType

LEMMA SetStays ==
  ASSUME NEW S, NEW T, \A x : x \in S <=> x \in T
  PROVE  Cardinality(S) = Cardinality(T)
<1>1. S = T
  OBVIOUS
<1>2. QED
  BY <1>1

LEMMA SetGains ==
  ASSUME NEW S, IsFiniteSet(S), NEW T, NEW t, t \notin S, t \in T,
         \A x : x # t => (x \in T <=> x \in S)
  PROVE  Cardinality(T) = Cardinality(S) + 1
<1>1. T = S \cup {t}
  OBVIOUS
<1>2. QED
  BY <1>1, FS_AddElement

LEMMA SetLoses ==
  ASSUME NEW S, IsFiniteSet(S), NEW T, NEW t, t \in S, t \notin T,
         \A x : x # t => (x \in T <=> x \in S)
  PROVE  Cardinality(T) = Cardinality(S) - 1
<1>1. T = S \ {t}
  OBVIOUS
<1>2. QED
  BY <1>1, FS_RemoveElement

LEMMA CountersOfOthers ==
  ASSUME NEW t \in Threads, Others(t)
  PROVE  /\ \A s : s # t => /\ s \in Uncounted' <=> s \in Uncounted
                            /\ s \in StillCounted' <=> s \in StillCounted
         /\ t \in Uncounted <=> Uncounts(t)
         /\ t \in Uncounted' <=> Uncounts(t)'
         /\ t \in StillCounted <=> StillCounts(t)
         /\ t \in StillCounted' <=> StillCounts(t)'
<1>1. \A s \in Threads \ {t} : /\ Uncounts(s)' <=> Uncounts(s)
                               /\ StillCounts(s)' <=> StillCounts(s)
  BY DEF Others, Uncounts, StillCounts, AtWork, Pending
<1>2. QED
  BY <1>1 DEF Uncounted, StillCounted

(* Arithmetic of a counter of M values that may be below zero. *)
Wrapped(n) == IF n < 0 THEN n + CountModulus ELSE n

LEMMA WrapStep ==
  ASSUME NEW n \in Int, -CountModulus < n - 1, n + 1 < CountModulus
  PROVE  /\ (Wrapped(n) + 1) % CountModulus = Wrapped(n + 1)
         /\ (Wrapped(n) - 1) % CountModulus = Wrapped(n - 1)
<1>1. CountModulus \in Nat /\ CountModulus > 1
  BY CountIn
<1>2. CASE n < 0
  BY <1>1, <1>2 DEF Wrapped
<1>3. CASE n >= 0
  BY <1>1, <1>3 DEF Wrapped
<1>4. QED
  BY <1>2, <1>3

LEMMA CountedBounds ==
  ASSUME Inv
  PROVE  Counted \in Int /\ -CountModulus < Counted - 1 /\ Counted + 1 < CountModulus
<1>1. Cardinality(Threads) \in Nat /\ Capacity \in Nat /\ Capacity > 0
  BY ThreadsAssumption, FS_CardinalityType, CapacityAssumption
<1>2. occupied \in Nat /\ occupied <= Capacity
  <2>1. free + occupied + Cardinality(Held) = Capacity /\ free \in Nat /\ occupied \in Nat
        /\ Cardinality(Held) \in Nat
    BY HeldFinite DEF Inv, CreditsConserved, Held, BasicTypes
  <2>2. QED
    BY <1>1, <2>1
<1>3. CountModulus \in Nat /\ CountModulus > 2 * (Capacity + Cardinality(Threads))
  BY CountIn
<1>4. QED
  BY <1>1, <1>2, <1>3, SetsFinite DEF Counted

(* How the terms of Counted move together. *)
LEMMA CountedMoves ==
  ASSUME Inv, NEW t \in Threads, Others(t), Effect(t)
  PROVE  \/ count' = count /\ Counted' = Counted
         \/ count' = (count + 1) % CountModulus /\ Counted' = Counted + 1
         \/ count' = (count - 1) % CountModulus /\ Counted' = Counted - 1
<1> DEFINE u == Cardinality(Uncounted)
           s == Cardinality(StillCounted)
<1>1. occupied \in Nat /\ u \in Nat /\ s \in Nat
  BY SetsFinite DEF Inv, BasicTypes
<1>2. Counted = occupied - u + s /\ Counted' = occupied' - u' + s'
  BY DEF Counted
<1>3. /\ (Uncounts(t)' <=> Uncounts(t)) => u' = u
      /\ ~Uncounts(t) /\ Uncounts(t)' => u' = u + 1
      /\ Uncounts(t) /\ ~Uncounts(t)' => u' = u - 1
  BY CountersOfOthers, SetsFinite, SetStays, SetGains, SetLoses
<1>4. /\ (StillCounts(t)' <=> StillCounts(t)) => s' = s
      /\ ~StillCounts(t) /\ StillCounts(t)' => s' = s + 1
      /\ StillCounts(t) /\ ~StillCounts(t)' => s' = s - 1
  BY CountersOfOthers, SetsFinite, SetStays, SetGains, SetLoses
<1> HIDE DEF u, s
<1>5. CASE SameCounts(t)
  BY <1>1, <1>2, <1>3, <1>4, <1>5 DEF SameCounts
<1>6. CASE Publishes(t)
  BY <1>1, <1>2, <1>3, <1>4, <1>6 DEF Publishes
<1>7. CASE TakesCredit(t)
  BY <1>1, <1>2, <1>3, <1>4, <1>7 DEF TakesCredit
<1>8. CASE CountsUp(t)
  BY <1>1, <1>2, <1>3, <1>4, <1>8 DEF CountsUp
<1>9. CASE CountsDown(t)
  BY <1>1, <1>2, <1>3, <1>4, <1>9 DEF CountsDown
<1>10. QED
  BY <1>5, <1>6, <1>7, <1>8, <1>9 DEF Effect

LEMMA StepCountInv ==
  ASSUME Throws = {}, Inv, Inv', CountInv, NEW t \in Threads, Step(t)
  PROVE  CountInv'
<1>1. /\ BasicTypes /\ BasicTypes' /\ TodoInv(t) /\ TodoInv(t)' /\ OpInv(t)
  BY DEF Inv, CountInv
<1>2. OpInv(t)' /\ (cleared' \/ (Effect(t) /\ cleared' = cleared))
  BY <1>1, StepCounts
<1>3. Others(t)
  BY <1>1, StepOthers
<1>4. \A x \in Threads \ {t} : OpInv(x)'
  BY <1>3 DEF Others, CountInv, OpInv, Pending
<1>5. ASSUME ~cleared' PROVE count' = Wrapped(Counted')
  <2>1. Effect(t) /\ ~cleared
    BY <1>2, <1>5
  <2>2. count = Wrapped(Counted)
    BY <2>1 DEF CountInv, Wrapped
  <2>3. /\ Counted \in Int
        /\ (Wrapped(Counted) + 1) % CountModulus = Wrapped(Counted + 1)
        /\ (Wrapped(Counted) - 1) % CountModulus = Wrapped(Counted - 1)
    BY CountedBounds, WrapStep
  <2>4. QED
    BY <1>3, <2>1, <2>2, <2>3, CountedMoves
<1>6. QED
  BY <1>2, <1>4, <1>5 DEF CountInv, Wrapped

LEMMA InitCountInv == Init => CountInv
<1> SUFFICES ASSUME Init PROVE CountInv
  OBVIOUS
<1>1. \A t \in Threads : /\ pc[t] = "idle" /\ op[t] = "none" /\ kept[t] = {} /\ Ready(t)
  BY DEF Init, CallInit, SyncInit, Ready
<1>2. \A t \in Threads : Pending(t) = {}
  BY <1>1, PendingItems
<1>3. \A t \in Threads : OpInv(t)
  BY <1>1, <1>2 DEF OpInv
<1>4. Uncounted = {} /\ StillCounted = {}
  BY <1>1, Sides DEF Uncounted, StillCounted, Uncounts, StillCounts
<1>5. Counted = 0
  BY <1>4, FS_EmptySet DEF Counted, Init, SyncInit
<1>6. QED
  BY <1>3, <1>5 DEF CountInv, Init, RingInit

LEMMA CountAlways == Throws = {} => (Spec => [](Inv /\ CountInv))
<1> SUFFICES ASSUME Throws = {} PROVE Spec => [](Inv /\ CountInv)
  OBVIOUS
<1>1. Inv /\ CountInv /\ [Next]_vars => Inv' /\ CountInv'
  <2> SUFFICES ASSUME Inv, CountInv, [Next]_vars PROVE Inv' /\ CountInv'
    OBVIOUS
  <2>1. ASSUME NEW t \in Threads, Step(t) PROVE Inv' /\ CountInv'
    BY <2>1, StepInv, StepCountInv
  <2>2. CASE UNCHANGED vars
    <3>1. Inv'
      BY <2>2, StutterInv
    <3>2. CountInv'
      BY <2>2 DEF CountInv, OpInv, Counted, Uncounted, StillCounted, Uncounts, StillCounts,
         AtWork, Pending, vars, callVars, syncVars, ringVars
    <3>3. QED
      BY <3>1, <3>2
  <2>3. QED
    BY <2>1, <2>2 DEF Next, Step
<1>2. QED
  BY <1>1, InitInv, InitCountInv, PTL DEF Spec

(* For values whose assignments do not throw, count_, which is updated     *)
(* outside every guard, agrees with both semaphores whenever no operation  *)
(* is under way: Size() is exact then.                                     *)
THEOREM CountCorrect == Throws = {} => (Spec => []CountAgreesWhenIdle)
<1>1. ASSUME Inv, CountInv PROVE CountAgreesWhenIdle
  <2>1. SUFFICES ASSUME Idle, ~cleared
                 PROVE  count = occupied /\ count + free = Capacity
    BY DEF CountAgreesWhenIdle
  <2>2. \A t \in Threads : Ready(t) /\ pc[t] \notin Working \cup {"countUp"}
    BY <1>1, <2>1 DEF Idle, Inv, TodoInv, Working
  <2>3. \A t \in Threads : Pending(t) = {} /\ kept[t] = {} /\ ~AtWork(t)
    BY <1>1, <2>2, PendingItems DEF CountInv, OpInv, AtWork
  <2>4. \A t \in Threads : Holds(t) = {}
    BY <2>3, HoldsOf
  <2>5. Held = {} /\ Uncounted = {} /\ StillCounted = {}
    BY <2>2, <2>3, <2>4, HeldElements DEF Uncounted, StillCounted, Uncounts, StillCounts
  <2>6. occupied \in Nat /\ free \in Nat /\ free + occupied + 0 = Capacity
    BY <1>1, <2>5, FS_EmptySet DEF Inv, BasicTypes, CreditsConserved, Held
  <2>7. Counted = occupied
    BY <2>5, <2>6, FS_EmptySet DEF Counted
  <2>8. count = occupied
    BY <1>1, <2>1, <2>6, <2>7 DEF CountInv
  <2>9. QED
    BY <2>6, <2>8
<1>2. SUFFICES ASSUME Throws = {} PROVE Spec => []CountAgreesWhenIdle
  OBVIOUS
<1>3. Spec => [](Inv /\ CountInv)
  BY <1>2, CountAlways
<1>4. QED
  BY <1>1, <1>3, PTL
=============================================================================
