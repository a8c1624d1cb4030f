---------------------- MODULE CircularDropOldest_proofs ----------------------
(***************************************************************************)
(* Proofs about the drop-oldest circular queue, for the four categories,   *)
(* every set of threads, every capacity and every number of drop attempts. *)
(* The senders exclude each other, by overwrite_mutex_ or by the client's  *)
(* contract, but nothing keeps them and the readers apart: what holds is   *)
(* what holds until overlapping calls break the ring.                      *)
(***************************************************************************)
EXTENDS CircularDropOldestMessageQueue, FiniteSetTheorems, SequenceTheorems, TLAPS

Items(program) == {program[i] : i \in 1..Len(program)}

(* The mutex of a category belongs to one side. *)
LockOps == IF Category \in {"MPSC", "MPMC"} THEN SendOps
           ELSE IF Category = "SPMC" THEN ReadOps ELSE {}

LockOf(o) == IF o \in TryOps THEN "mutex.try_lock" ELSE "mutex.lock"
TakeOf(o) == IF o \in TryOps THEN "occupied.try_acquire" ELSE "occupied.acquire"

(* What may be left to do of the program of a call at a label. *)
Programs(o, label) ==
  {<<>>} \cup
  (IF o \in SendOps /\ label = "overflow"
     THEN {<<"free.take_if_any">>}
          \cup (IF o \in LockOps THEN {<<LockOf(o), "free.take_if_any">>} ELSE {})
          \cup (IF Category = "MPMC"
                  THEN {<<"overwrite_mode.set", LockOf(o), "free.take_if_any">>} ELSE {})
   ELSE IF o \in SendOps /\ label = "countUp"
     THEN IF o \in LockOps THEN {<<"occupied.release", "mutex.unlock">>, <<"mutex.unlock">>}
                           ELSE {<<"occupied.release">>}
   ELSE IF o \in ReadOps /\ label \in {"tryEmpty", "take"}
     THEN {<<TakeOf(o)>>}
          \cup (IF o \in LockOps THEN {<<LockOf(o), TakeOf(o)>>} ELSE {})
          \cup (IF Category = "MPMC"
                  THEN {<<TakeOf(o), "read_seq.add">>, <<"read_seq.add">>} ELSE {})
   ELSE IF o \in ReadOps /\ label = "return"
     THEN IF o \in LockOps
            THEN {<<"free.release", "mutex.unlock">>, <<"occupied.release", "mutex.unlock">>,
                  <<"mutex.unlock">>}
            ELSE {<<"free.release">>, <<"occupied.release">>}
   ELSE {})

Locks == {"mutex.lock", "mutex.try_lock"}
Awaits(p) == Items(p) \cap Locks # {}          \* has yet to lock
Owes(p) == "mutex.unlock" \in Items(p)         \* has yet to unlock
Publishes(p) == "occupied.release" \in Items(p)
Wants(p) == Items(p) \cap {"occupied.acquire", "occupied.try_acquire"} # {}

(* A call by the label it is at. *)
WriteLabels == {"overflow", "dropLoad", "dropTest", "dropHead", "dropCount", "store",
                "storeOver"}
ReadLabels == {"tryEmpty", "take", "move", "advance"}
Decided == {"countUp", "countDown", "return"}

LockedAt(l, o, q) ==
  /\ o \in LockOps
  /\ \/ l \in WriteLabels \cup ReadLabels \cup {"countDown"} /\ ~Awaits(q)
     \/ Owes(q)
Locked(t) == LockedAt(pc[t], op[t], todo[t])

(* A thread at a label of a call, with what it holds and has yet to do. *)
Flow(t, l, o, m, how, q, i) ==
  /\ q \in Programs(o, l)
  /\ o \in SendOps => t \in Producers /\ i = NoSlot
  /\ o \in ReadOps => t \in Consumers
  /\ o = "Close" => t \in Closers
  /\ o = "none" <=> l = "idle"
  /\ l \in {"check", "sync"} => o \in SendOps \cup ReadOps
  /\ l \in WriteLabels \cup {"countUp"} => o \in SendOps
  /\ l \in ReadLabels \cup {"countDown"} => o \in ReadOps
  /\ l = "close" => o = "Close"
  /\ l = "tryEmpty" => o = "TryRead"
  /\ l \in {"move", "advance"} => i \in Slots
  /\ l = "idle" => i = NoSlot
  /\ how = "none" <=> l \notin Decided
  /\ o \in SendOps /\ how = "none" => m \in Messages
  /\ l = "idle" \/ (o \in ReadOps /\ l \in {"check", "sync", "tryEmpty", "take"})
       => m = NoMessage
FlowInv(t) == Flow(t, pc[t], op[t], msg[t], outcome[t], todo[t], index[t])

TypeInv ==
  /\ TypeOK
  /\ writeSeq \in Slots /\ readSeq \in Slots
  /\ index \in [Threads -> Slots \cup {NoSlot}]
  /\ todo \in [Threads -> Seq(Primitives)]

BaseInv ==
  /\ TypeInv
  /\ \A t \in Threads : FlowInv(t)
  /\ \A t \in Threads : mutex = t <=> Locked(t)
  /\ \A t \in Threads : pc[t] = "dropHead" => attempts < DropAttempts
  /\ passed \subseteq {t \in Threads : Unadvanced(t)}
  /\ overwriteMode => Category = "MPMC"

(* The credits that stand for a message in the ring. *)
Credit(l, o, q) == Publishes(q) \/ (o \in ReadOps /\ l \in ReadLabels /\ ~Wants(q))
InRing(t) == Credit(pc[t], op[t], todo[t])
RingCredits == {t \in Threads : InRing(t)}
Stored == occupied + Cardinality(RingCredits) - Cardinality(Making)

Far(i, h) == IF i < h THEN i - h + Capacity ELSE i - h
Dist(i) == Far(i, head)

Front(t) == pc[t] = "advance" /\ t \notin passed

(* Readers that have loaded the head, and it still is the head. *)
AtHead(t) == Unadvanced(t) /\ t \notin passed

Whole == \A i \in Slots : Dist(i) < Stored => SlotContent(i) # NoMessage

Contiguous ==
  /\ Stored \in 0..Capacity
  /\ Making # {} => Stored < Capacity
  /\ IF Stored = Capacity THEN tail = head ELSE Dist(tail) = Stored
  /\ \A i \in Slots : Dist(i) < Stored =>
       SlotContent(i) # NoMessage \/ (i = head /\ \E t \in Threads : AtHead(t))
  /\ Stored = 0 /\ Making = {} => \E i \in Slots : SlotContent(i) = NoMessage

Readers ==
  /\ \A t \in Threads : pc[t] = "move" =>
       IF t \in passed THEN Dist(index[t]) >= Stored ELSE index[t] = head
  /\ \A t \in Threads : Front(t) => index[t] = head /\ buffer[head] = NoMessage
  /\ \A s, t \in Threads : Front(s) /\ Front(t) => s = t

Wrapped(n) == IF n < 0 THEN n + CountModulus ELSE n
Downs == {t \in Threads : pc[t] \in {"countDown", "dropCount"}}
Ups == {t \in Threads : pc[t] = "countUp"}
Counted == Stored + Cardinality(Downs) - Cardinality(Ups)

RingInv == Contiguous /\ Readers /\ count = Wrapped(Counted)

Inv == BaseInv /\ (~broken /\ ~cleared => RingInv)
WholeInv == ~CasMayFail /\ ~broken /\ ~cleared => Whole

-----------------------------------------------------------------------------
(* The programs, one by one. *)
LEMMA Tuples ==
  /\ \A a : Head(<<a>>) = a /\ Tail(<<a>>) = <<>> /\ Items(<<a>>) = {a} /\ <<a>> # <<>>
  /\ \A a, b : /\ Head(<<a, b>>) = a /\ Tail(<<a, b>>) = <<b>>
               /\ Items(<<a, b>>) = {a, b} /\ <<a, b>> # <<>>
  /\ \A a, b, c : /\ Head(<<a, b, c>>) = a /\ Tail(<<a, b, c>>) = <<b, c>>
                  /\ Items(<<a, b, c>>) = {a, b, c} /\ <<a, b, c>> # <<>>
  /\ Items(<<>>) = {}
<1>1. \A a : Head(<<a>>) = a /\ Tail(<<a>>) = <<>> /\ Items(<<a>>) = {a} /\ <<a>> # <<>>
  BY DEF Items
<1>2. \A a, b : /\ Head(<<a, b>>) = a /\ Tail(<<a, b>>) = <<b>>
                /\ Items(<<a, b>>) = {a, b} /\ <<a, b>> # <<>>
  BY DEF Items
<1>3. \A a, b, c : /\ Head(<<a, b, c>>) = a /\ Tail(<<a, b, c>>) = <<b, c>>
                   /\ <<a, b, c>> # <<>>
  OBVIOUS
<1>4. \A a, b, c : Items(<<a, b, c>>) = {a, b, c}
  <2>1. 1..3 = {1, 2, 3}
    OBVIOUS
  <2>2. QED
    BY <2>1 DEF Items
<1>5. QED
  BY <1>1, <1>2, <1>3, <1>4 DEF Items

LEMMA TuplesTyped ==
  ASSUME NEW a \in Primitives, NEW b \in Primitives, NEW c \in Primitives
  PROVE  /\ <<a>> \in Seq(Primitives) /\ <<a, b>> \in Seq(Primitives)
         /\ <<a, b, c>> \in Seq(Primitives) /\ <<>> \in Seq(Primitives)
  OBVIOUS

LEMMA Prepended ==
  ASSUME NEW a \in Primitives, NEW b \in Primitives, NEW c \in Primitives
  PROVE  <<a>> \o <<b, c>> = <<a, b, c>>
<1>1. /\ <<a>> \in Seq(Primitives) /\ <<b, c>> \in Seq(Primitives)
      /\ <<a, b, c>> \in Seq(Primitives)
  BY TuplesTyped
<1>2. <<a>> \o <<b, c>> \in Seq(Primitives) /\ Len(<<a>> \o <<b, c>>) = 3
  BY <1>1
<1>3. \A i \in 1..3 : (<<a>> \o <<b, c>>)[i] = <<a, b, c>>[i]
  BY <1>1
<1>4. QED
  BY <1>1, <1>2, <1>3, SeqEqual

(* The next primitive of a program, by where and in which call it occurs,  *)
(* and what is left when it is done.                                       *)
OccupiedAcquires == {"occupied.acquire", "occupied.try_acquire"}

Row(o, label, h, q, rest) ==
  /\ rest \in Programs(o, label) /\ Items(q) = {h} \cup Items(rest)
  /\ h \in Locks => /\ o \in LockOps /\ label \in {"overflow", "tryEmpty", "take"}
                    /\ ~Awaits(rest) /\ ~Owes(q) /\ (label # "overflow" => Wants(q))
                    /\ h = "mutex.try_lock" => o \in TryOps
  /\ h = "overwrite_mode.set" => o \in SendOps /\ label = "overflow" /\ Category = "MPMC"
  /\ h = "free.take_if_any" => o \in SendOps /\ label = "overflow"
  /\ h \in OccupiedAcquires => /\ o \in ReadOps /\ label \in {"tryEmpty", "take"}
                               /\ ~Wants(rest) /\ ~Awaits(q)
                               /\ h = "occupied.try_acquire" => o = "TryRead"
  /\ h = "read_seq.add" => o \in ReadOps /\ label \in {"tryEmpty", "take"}
  /\ h = "free.release" => o \in ReadOps /\ label = "return"
  /\ h = "occupied.release" => label \in {"countUp", "return"} /\ ~Publishes(rest)
  /\ h = "mutex.unlock" => o \in LockOps /\ label \in {"countUp", "return"} /\ ~Owes(rest)
  /\ h \in Primitives \ {"free.acquire", "free.try_acquire", "write_seq.add"}

LEMMA ProgramStep ==
  ASSUME NEW o \in Ops, NEW label, NEW q \in Programs(o, label), q # <<>>
  PROVE  Row(o, label, Head(q), q, Tail(q))
<1> DEFINE Goal == Row(o, label, Head(q), q, Tail(q))
<1> USE DEF Row, Awaits, Owes, Publishes, Wants, Locks, OccupiedAcquires, Primitives,
            Acquires, Releases
<1>1. ASSUME o \in SendOps, label = "overflow" PROVE Goal
  <2>1. CASE q = <<"free.take_if_any">>
    BY <1>1, <2>1, Tuples DEF Programs
  <2>2. CASE o \in LockOps /\ q = <<LockOf(o), "free.take_if_any">>
    <3>1. LockOf(o) \in Locks /\ (LockOf(o) = "mutex.try_lock" => o \in TryOps)
      BY DEF LockOf
    <3>2. Tail(q) \in Programs(o, label)
      BY <1>1, <2>2, Tuples DEF Programs
    <3>3. QED
      BY <1>1, <2>2, <3>1, <3>2, Tuples
  <2>3. CASE Category = "MPMC" /\ q = <<"overwrite_mode.set", LockOf(o), "free.take_if_any">>
    <3>1. Tail(q) = <<LockOf(o), "free.take_if_any">> /\ Head(q) = "overwrite_mode.set"
      BY <2>3, Tuples
    <3>2. Items(q) = {"overwrite_mode.set"} \cup Items(Tail(q))
      BY <2>3, <3>1, Tuples
    <3>3. o \in LockOps
      BY <1>1, <2>3 DEF LockOps
    <3>4. Tail(q) \in Programs(o, label)
      BY <1>1, <3>1, <3>3 DEF Programs
    <3>5. QED
      BY <1>1, <2>3, <3>1, <3>2, <3>4
  <2>4. QED
    BY <1>1, <2>1, <2>2, <2>3 DEF Programs
<1>2. ASSUME o \in SendOps, label = "countUp" PROVE Goal
  <2>1. CASE o \in LockOps /\ q = <<"occupied.release", "mutex.unlock">>
    BY <1>2, <2>1, Tuples DEF Programs
  <2>2. CASE o \in LockOps /\ q = <<"mutex.unlock">>
    BY <1>2, <2>2, Tuples DEF Programs
  <2>3. CASE q = <<"occupied.release">>
    BY <1>2, <2>3, Tuples DEF Programs
  <2>4. QED
    BY <1>2, <2>1, <2>2, <2>3 DEF Programs
<1>3. o \in ReadOps => o \notin SendOps
  BY DEF ReadOps, SendOps
<1>4. ASSUME o \in ReadOps, label \in {"tryEmpty", "take"} PROVE Goal
  <2>0. TakeOf(o) \in OccupiedAcquires /\ (TakeOf(o) = "occupied.try_acquire" => o = "TryRead")
    BY <1>4 DEF TakeOf, TryOps, ReadOps
  <2>1. CASE q = <<TakeOf(o)>>
    <3>1. Tail(q) \in Programs(o, label)
      BY <2>1, Tuples DEF Programs
    <3>2. QED
      BY <1>4, <2>0, <2>1, <3>1, Tuples
  <2>2. CASE o \in LockOps /\ q = <<LockOf(o), TakeOf(o)>>
    <3>1. LockOf(o) \in Locks /\ (LockOf(o) = "mutex.try_lock" => o \in TryOps)
      BY DEF LockOf
    <3>2. Tail(q) \in Programs(o, label)
      BY <1>3, <1>4, <2>2, Tuples DEF Programs
    <3>3. QED
      BY <1>4, <2>0, <2>2, <3>1, <3>2, Tuples
  <2>3. CASE Category = "MPMC" /\ q = <<TakeOf(o), "read_seq.add">>
    <3>1. Tail(q) \in Programs(o, label)
      BY <1>3, <1>4, <2>3, Tuples DEF Programs
    <3>2. QED
      BY <1>4, <2>0, <2>3, <3>1, Tuples
  <2>4. CASE q = <<"read_seq.add">>
    <3>1. Tail(q) \in Programs(o, label)
      BY <2>4, Tuples DEF Programs
    <3>2. QED
      BY <1>4, <2>4, <3>1, Tuples
  <2>5. QED
    BY <1>3, <1>4, <2>1, <2>2, <2>3, <2>4 DEF Programs
<1>5. ASSUME o \in ReadOps, label = "return" PROVE Goal
  <2>1. \/ \E a \in Releases : q = <<a>>
        \/ o \in LockOps /\ \E a \in Releases : q = <<a, "mutex.unlock">>
        \/ o \in LockOps /\ q = <<"mutex.unlock">>
    BY <1>3, <1>5 DEF Programs
  <2>2. \A p \in {<<>>} \cup IF o \in LockOps THEN {<<"mutex.unlock">>} ELSE {} :
          p \in Programs(o, label)
    BY <1>3, <1>5 DEF Programs
  <2>3. ASSUME NEW a \in Releases, q = <<a>> PROVE Goal
    BY <1>5, <2>2, <2>3, Tuples
  <2>4. ASSUME o \in LockOps, NEW a \in Releases, q = <<a, "mutex.unlock">> PROVE Goal
    BY <1>5, <2>2, <2>4, Tuples
  <2>5. CASE o \in LockOps /\ q = <<"mutex.unlock">>
    BY <1>5, <2>2, <2>5, Tuples
  <2>6. QED
    BY <2>1, <2>3, <2>4, <2>5
<1>6. QED
  BY <1>1, <1>2, <1>4, <1>5 DEF Programs

(* What a program can hold at a label. *)
LEMMA ProgramItems ==
  ASSUME NEW o \in Ops, NEW label, NEW q \in Programs(o, label)
  PROVE  /\ q \in Seq(Primitives)
         /\ label \notin {"overflow", "countUp", "tryEmpty", "take", "return"} => q = <<>>
         /\ Publishes(q) => label \in {"countUp", "return"}
         /\ Wants(q) => label \in {"tryEmpty", "take"}
         /\ Owes(q) => label \in {"countUp", "return"} /\ o \in LockOps
         /\ Awaits(q) => label \in {"overflow", "tryEmpty", "take"} /\ o \in LockOps
<1>0. LockOf(o) \in Locks /\ TakeOf(o) \in OccupiedAcquires /\ Locks \subseteq Primitives
      /\ OccupiedAcquires \subseteq Primitives
  BY DEF LockOf, TakeOf, Locks, OccupiedAcquires, Primitives, Acquires
<1> DEFINE Goal == /\ q \in Seq(Primitives)
                   /\ Publishes(q) => label \in {"countUp", "return"}
                   /\ Wants(q) => label \in {"tryEmpty", "take"}
                   /\ Owes(q) => label \in {"countUp", "return"} /\ o \in LockOps
                   /\ Awaits(q) => label \in {"overflow", "tryEmpty", "take"} /\ o \in LockOps
<1> USE DEF Awaits, Owes, Publishes, Wants, Locks, OccupiedAcquires
<1>1. CASE q = <<>>
  BY <1>1, Tuples
<1>2. CASE o \in SendOps /\ label = "overflow"
  <2>0. "free.take_if_any" \in Primitives /\ "overwrite_mode.set" \in Primitives
    BY DEF Primitives
  <2>1. CASE q = <<"free.take_if_any">>
    BY <1>2, <2>0, <2>1, Tuples
  <2>2. CASE o \in LockOps /\ q = <<LockOf(o), "free.take_if_any">>
    BY <1>0, <1>2, <2>0, <2>2, Tuples
  <2>3. CASE Category = "MPMC" /\ q = <<"overwrite_mode.set", LockOf(o), "free.take_if_any">>
    <3>1. o \in LockOps
      BY <1>2, <2>3 DEF LockOps
    <3>2. Items(q) = {"overwrite_mode.set", LockOf(o), "free.take_if_any"}
      BY <2>3, Tuples
    <3>3. q \in Seq(Primitives)
      BY <1>0, <2>0, <2>3
    <3>4. QED
      BY <1>0, <1>2, <3>1, <3>2, <3>3
  <2>4. QED
    BY <1>1, <1>2, <2>1, <2>2, <2>3 DEF Programs
<1>3. o \in ReadOps => o \notin SendOps
  BY DEF ReadOps, SendOps
<1>4. \A a \in {"occupied.release", "free.release", "mutex.unlock", "read_seq.add"} :
        a \in Primitives
  BY DEF Primitives, Releases
<1>5. CASE o \in SendOps /\ label = "countUp"
  <2>1. \/ q = <<"occupied.release">>
        \/ o \in LockOps /\ q \in {<<"occupied.release", "mutex.unlock">>, <<"mutex.unlock">>}
        \/ q = <<>>
    BY <1>5 DEF Programs
  <2>2. q \in Seq(Primitives)
    BY <1>4, <2>1, TuplesTyped DEF Releases
  <2>3. CASE q = <<"occupied.release">>
    BY <1>5, <2>2, <2>3, Tuples
  <2>4. CASE o \in LockOps /\ q = <<"occupied.release", "mutex.unlock">>
    BY <1>5, <2>2, <2>4, Tuples
  <2>5. CASE o \in LockOps /\ q = <<"mutex.unlock">>
    BY <1>5, <2>2, <2>5, Tuples
  <2>6. QED
    BY <1>1, <2>1, <2>3, <2>4, <2>5
<1>6. CASE o \in ReadOps /\ label \in {"tryEmpty", "take"}
  <2>1. \/ q = <<>>
        \/ q = <<TakeOf(o)>> \/ q = <<TakeOf(o), "read_seq.add">>
        \/ q = <<"read_seq.add">>
        \/ o \in LockOps /\ q = <<LockOf(o), TakeOf(o)>>
    BY <1>3, <1>6 DEF Programs
  <2>2. CASE q = <<TakeOf(o)>> \/ q = <<TakeOf(o), "read_seq.add">> \/ q = <<"read_seq.add">>
    <3>1. q \in Seq(Primitives)
      <4>1. TakeOf(o) \in Primitives /\ "read_seq.add" \in Primitives
        BY <1>0, <1>4
      <4>2. QED
        BY <2>2, <4>1, TuplesTyped
    <3>2. Items(q) \subseteq {TakeOf(o), "read_seq.add"}
      BY <2>2, Tuples
    <3>3. QED
      BY <1>0, <1>6, <3>1, <3>2
  <2>3. CASE o \in LockOps /\ q = <<LockOf(o), TakeOf(o)>>
    BY <1>0, <1>6, <2>3, Tuples
  <2>4. QED
    BY <1>1, <2>1, <2>2, <2>3
<1>7. CASE o \in ReadOps /\ label = "return"
  <2>1. \/ q = <<>> \/ \E a \in Releases : q = <<a>>
        \/ o \in LockOps /\ \E a \in Releases : q = <<a, "mutex.unlock">>
        \/ o \in LockOps /\ q = <<"mutex.unlock">>
    BY <1>3, <1>7 DEF Programs, Releases
  <2>2. q \in Seq(Primitives)
    <3>1. \A a \in Releases : a \in Primitives
      BY DEF Primitives
    <3>2. QED
      BY <1>4, <2>1, <3>1, TuplesTyped
  <2>3. ASSUME NEW a \in Releases, q = <<a>> PROVE Goal
    <3>1. Items(q) = {a}
      BY <2>3, Tuples
    <3>2. QED
      BY <1>7, <2>2, <3>1 DEF Releases
  <2>4. ASSUME o \in LockOps, NEW a \in Releases, q = <<a, "mutex.unlock">> PROVE Goal
    <3>1. Items(q) = {a, "mutex.unlock"}
      BY <2>4, Tuples
    <3>2. QED
      BY <1>7, <2>2, <2>4, <3>1 DEF Releases
  <2>5. CASE o \in LockOps /\ q = <<"mutex.unlock">>
    BY <1>7, <2>2, <2>5, Tuples
  <2>6. QED
    BY <1>1, <1>7, <2>1, <2>3, <2>4, <2>5
<1>8. QED
  BY <1>1, <1>2, <1>5, <1>6, <1>7 DEF Programs

(* The programs that the steps of a call start. *)
LEMMA SendPrograms ==
  ASSUME NEW o \in SendOps
  PROVE  /\ OverwriteSync[o] \in Programs(o, "overflow")
         /\ o \in LockOps => Awaits(OverwriteSync[o])
         /\ OverwriteSync.sent \in Programs(o, "countUp") /\ Publishes(OverwriteSync.sent)
         /\ OverwriteSync.overwritten \in Programs(o, "countUp")
         /\ ~Publishes(OverwriteSync.overwritten)
         /\ o \in LockOps => Owes(OverwriteSync.sent) /\ Owes(OverwriteSync.overwritten)
<1>0. o \in {"Send", "TrySend"}
  BY DEF SendOps
<1> USE DEF Awaits, Owes, Publishes, Locks
<1>1. CASE SingleProducer
  <2>1. o \notin LockOps
    BY <1>1, <1>0 DEF SingleProducer, LockOps, SendOps, ReadOps
  <2>2. /\ OverwriteSync[o] = <<"free.take_if_any">>
        /\ OverwriteSync.sent = <<"occupied.release">> /\ OverwriteSync.overwritten = <<>>
    BY <1>0, <1>1 DEF OverwriteSync
  <2>3. QED
    BY <2>1, <2>2, Tuples DEF Programs
<1>2. CASE ~SingleProducer
  <2>1. Category \in {"MPSC", "MPMC"} /\ o \in LockOps
    BY <1>2, CategoryAssumption DEF SingleProducer, LockOps
  <2>2. /\ OverwriteSync[o] = EnterOverwriteMode \o <<LockOf(o), "free.take_if_any">>
        /\ OverwriteSync.sent = <<"occupied.release", "mutex.unlock">>
        /\ OverwriteSync.overwritten = <<"mutex.unlock">>
    <3> DEFINE e == EnterOverwriteMode
    <3>1. OverwriteSync = [Send        |-> e \o <<"mutex.lock", "free.take_if_any">>,
                           TrySend     |-> e \o <<"mutex.try_lock", "free.take_if_any">>,
                           sent        |-> <<"occupied.release", "mutex.unlock">>,
                           overwritten |-> <<"mutex.unlock">>]
      BY <1>2 DEF OverwriteSync
    <3> HIDE DEF e
    <3>2. /\ OverwriteSync.sent = <<"occupied.release", "mutex.unlock">>
          /\ OverwriteSync.overwritten = <<"mutex.unlock">>
          /\ OverwriteSync["Send"] = e \o <<"mutex.lock", "free.take_if_any">>
          /\ OverwriteSync["TrySend"] = e \o <<"mutex.try_lock", "free.take_if_any">>
      BY <3>1
    <3>3. QED
      BY <1>0, <3>2 DEF LockOf, TryOps, e
  <2>3. /\ OverwriteSync.sent \in Programs(o, "countUp") /\ Publishes(OverwriteSync.sent)
        /\ OverwriteSync.overwritten \in Programs(o, "countUp")
        /\ ~Publishes(OverwriteSync.overwritten)
        /\ Owes(OverwriteSync.sent) /\ Owes(OverwriteSync.overwritten)
    BY <2>1, <2>2, Tuples DEF Programs
  <2>4. LockOf(o) \in Locks
    BY DEF LockOf
  <2>5. CASE Category = "MPMC"
    <3>1. EnterOverwriteMode = <<"overwrite_mode.set">>
      BY <2>5 DEF EnterOverwriteMode
    <3>2. OverwriteSync[o] = <<"overwrite_mode.set", LockOf(o), "free.take_if_any">>
      <4>1. /\ "overwrite_mode.set" \in Primitives /\ LockOf(o) \in Primitives
            /\ "free.take_if_any" \in Primitives
        BY <2>4 DEF Primitives, Locks
      <4>2. QED
        BY <2>2, <3>1, <4>1, Prepended
    <3>3. OverwriteSync[o] \in Programs(o, "overflow") /\ Awaits(OverwriteSync[o])
      BY <2>4, <2>5, <3>2, Tuples DEF Programs
    <3>4. QED
      BY <2>3, <3>3
  <2>6. CASE Category # "MPMC"
    <3>1. EnterOverwriteMode = <<>>
      BY <2>6 DEF EnterOverwriteMode
    <3>2. OverwriteSync[o] = <<LockOf(o), "free.take_if_any">>
      BY <2>2, <3>1
    <3>3. OverwriteSync[o] \in Programs(o, "overflow") /\ Awaits(OverwriteSync[o])
      BY <2>1, <2>4, <3>2, Tuples DEF Programs
    <3>4. QED
      BY <2>3, <3>3
  <2>7. QED
    BY <2>5, <2>6
<1>3. QED
  BY <1>1, <1>2

LEMMA ReadPrograms ==
  ASSUME NEW o \in ReadOps
  PROVE  /\ \A label \in {"tryEmpty", "take"} :
              /\ Sync[o] \in Programs(o, label)
              /\ Category = "MPMC" => SpscSync[o] \in Programs(o, label)
         /\ Wants(Sync[o]) /\ ~Publishes(Sync[o])
         /\ Wants(SpscSync[o]) /\ ~Publishes(SpscSync[o])
         /\ o \in LockOps => Category # "MPMC" /\ Awaits(Sync[o])
         /\ Sync.read \in Programs(o, "return") /\ ~Publishes(Sync.read)
         /\ Sync.cancelRead \in Programs(o, "return") /\ Publishes(Sync.cancelRead)
         /\ o \in LockOps => Owes(Sync.read) /\ Owes(Sync.cancelRead)
         /\ Category = "SPMC" => <<"mutex.unlock">> \in Programs(o, "return")
         /\ ~Publishes(<<"mutex.unlock">>) /\ Owes(<<"mutex.unlock">>)
<1>0. /\ o \in {"Read", "TryRead"} /\ o \notin SendOps
      /\ TakeOf(o) = (IF o = "TryRead" THEN "occupied.try_acquire" ELSE "occupied.acquire")
      /\ LockOf(o) = (IF o = "TryRead" THEN "mutex.try_lock" ELSE "mutex.lock")
  BY DEF ReadOps, SendOps, TakeOf, LockOf, TryOps
<1>1. /\ SpscSync[o] = <<TakeOf(o)>> /\ SpscSync.read = <<"free.release">>
      /\ SpscSync.cancelRead = <<"occupied.release">>
      /\ Wants(<<TakeOf(o)>>) /\ ~Publishes(<<TakeOf(o)>>)
      /\ ~Publishes(<<"free.release">>) /\ Publishes(<<"occupied.release">>)
      /\ ~Publishes(<<"mutex.unlock">>) /\ Owes(<<"mutex.unlock">>)
  BY <1>0, Tuples DEF SpscSync, Wants, Publishes, Owes
<1>2. CASE Category = "SPSC"
  <2>1. Sync = SpscSync /\ o \notin LockOps
    BY <1>0, <1>2 DEF Sync, LockOps
  <2>2. QED
    BY <1>0, <1>1, <1>2, <2>1 DEF Programs
<1>3. CASE Category = "MPSC"
  <2>1. Sync = MpscSync /\ o \notin LockOps
    BY <1>0, <1>3 DEF Sync, LockOps
  <2>2. /\ MpscSync[o] = <<TakeOf(o)>> /\ MpscSync.read = <<"free.release">>
        /\ MpscSync.cancelRead = <<"occupied.release">>
    BY <1>0 DEF MpscSync
  <2>3. QED
    BY <1>0, <1>1, <1>3, <2>1, <2>2 DEF Programs
<1>4. CASE Category = "SPMC"
  <2>1. Sync = SpmcSync /\ o \in LockOps
    BY <1>0, <1>4 DEF Sync, LockOps
  <2>2. /\ SpmcSync[o] = <<LockOf(o), TakeOf(o)>>
        /\ SpmcSync.read = <<"free.release", "mutex.unlock">>
        /\ SpmcSync.cancelRead = <<"occupied.release", "mutex.unlock">>
    BY <1>0 DEF SpmcSync
  <2>3. /\ Awaits(SpmcSync[o]) /\ Wants(SpmcSync[o]) /\ ~Publishes(SpmcSync[o])
        /\ ~Publishes(SpmcSync.read) /\ Owes(SpmcSync.read)
        /\ Publishes(SpmcSync.cancelRead) /\ Owes(SpmcSync.cancelRead)
    <3>1. /\ Items(SpmcSync[o]) = {LockOf(o), TakeOf(o)}
          /\ Items(SpmcSync.read) = {"free.release", "mutex.unlock"}
          /\ Items(SpmcSync.cancelRead) = {"occupied.release", "mutex.unlock"}
      BY <2>2, Tuples
    <3>2. LockOf(o) \in Locks /\ TakeOf(o) \in OccupiedAcquires
      BY <1>0 DEF Locks, OccupiedAcquires
    <3>3. QED
      BY <3>1, <3>2 DEF Wants, Publishes, Owes, Awaits, Locks, OccupiedAcquires
  <2>4. QED
    BY <1>0, <1>1, <1>4, <2>1, <2>2, <2>3 DEF Programs
<1>5. CASE Category = "MPMC"
  <2>1. Sync = MpmcSync /\ o \notin LockOps
    BY <1>0, <1>5 DEF Sync, LockOps
  <2>2. /\ MpmcSync[o] = <<TakeOf(o), "read_seq.add">> /\ MpmcSync.read = <<"free.release">>
        /\ MpmcSync.cancelRead = <<"occupied.release">>
    BY <1>0 DEF MpmcSync
  <2>3. Wants(MpmcSync[o]) /\ ~Publishes(MpmcSync[o])
    <3>1. Items(MpmcSync[o]) = {TakeOf(o), "read_seq.add"}
      BY <2>2, Tuples
    <3>2. TakeOf(o) \in {"occupied.acquire", "occupied.try_acquire"}
      BY <1>0
    <3>3. QED
      BY <3>1, <3>2 DEF Wants, Publishes
  <2>4. \A label \in {"tryEmpty", "take"} :
          {<<TakeOf(o)>>, <<TakeOf(o), "read_seq.add">>} \subseteq Programs(o, label)
    BY <1>0, <1>5 DEF Programs
  <2>5. {<<"free.release">>, <<"occupied.release">>} \subseteq Programs(o, "return")
    BY <1>0, <2>1 DEF Programs
  <2>6. QED
    BY <1>1, <1>5, <2>1, <2>2, <2>3, <2>4, <2>5
<1>6. QED
  BY <1>2, <1>3, <1>4, <1>5, CategoryAssumption

LEMMA EmptyProgram ==
  /\ \A o, label : <<>> \in Programs(o, label)
  /\ ~Awaits(<<>>) /\ ~Owes(<<>>) /\ ~Publishes(<<>>) /\ ~Wants(<<>>)
  BY Tuples DEF Programs, Awaits, Owes, Publishes, Wants

(* Readers of the MPMC ring reserve a slot when they have their message,   *)
(* and only until a send has set the mode, which it does first.            *)
LEMMA ModePrograms ==
  ASSUME NEW o \in Ops, NEW label, NEW q \in Programs(o, label)
  PROVE  "read_seq.add" \in Items(q) =>
           /\ Category = "MPMC" /\ label \in {"tryEmpty", "take"}
           /\ Head(q) = "read_seq.add" => ~Wants(q)
<1> SUFFICES ASSUME "read_seq.add" \in Items(q)
             PROVE  /\ Category = "MPMC" /\ label \in {"tryEmpty", "take"}
                    /\ Head(q) = "read_seq.add" => ~Wants(q)
  OBVIOUS
<1>1. /\ LockOf(o) \in {"mutex.lock", "mutex.try_lock"}
      /\ TakeOf(o) \in {"occupied.acquire", "occupied.try_acquire"}
  BY DEF LockOf, TakeOf
<1>2. CASE o \in SendOps /\ label = "overflow"
  <2>1. \/ q \in {<<>>, <<"free.take_if_any">>, <<LockOf(o), "free.take_if_any">>}
        \/ q = <<"overwrite_mode.set", LockOf(o), "free.take_if_any">>
    BY <1>2 DEF Programs
  <2>2. Items(q) \subseteq {"overwrite_mode.set", LockOf(o), "free.take_if_any"}
    BY <2>1, Tuples
  <2>3. QED
    BY <1>1, <2>2
<1>3. CASE o \in SendOps /\ label = "countUp"
  <2>1. q \in {<<>>, <<"occupied.release", "mutex.unlock">>, <<"mutex.unlock">>,
               <<"occupied.release">>}
    BY <1>3 DEF Programs
  <2>2. QED
    BY <2>1, Tuples
<1>4. o \in ReadOps => o \notin SendOps
  BY DEF SendOps, ReadOps
<1>5. CASE o \in ReadOps /\ label \in {"tryEmpty", "take"}
  <2>1. \/ q \in {<<>>, <<TakeOf(o)>>, <<LockOf(o), TakeOf(o)>>}
        \/ Category = "MPMC" /\ q \in {<<TakeOf(o), "read_seq.add">>, <<"read_seq.add">>}
    BY <1>4, <1>5 DEF Programs
  <2>2. CASE q \in {<<>>, <<TakeOf(o)>>, <<LockOf(o), TakeOf(o)>>}
    <3>1. Items(q) \subseteq {LockOf(o), TakeOf(o)}
      BY <2>2, Tuples
    <3>2. QED
      BY <1>1, <3>1
  <2>3. CASE Category = "MPMC" /\ q = <<TakeOf(o), "read_seq.add">>
    BY <1>1, <1>5, <2>3, Tuples
  <2>4. CASE Category = "MPMC" /\ q = <<"read_seq.add">>
    BY <1>5, <2>4, Tuples DEF Wants
  <2>5. QED
    BY <2>1, <2>2, <2>3, <2>4
<1>6. CASE o \in ReadOps /\ label = "return"
  <2>1. q \in {<<>>, <<"free.release", "mutex.unlock">>, <<"occupied.release", "mutex.unlock">>,
               <<"mutex.unlock">>, <<"free.release">>, <<"occupied.release">>}
    BY <1>4, <1>6 DEF Programs
  <2>2. QED
    BY <2>1, Tuples
<1>7. q = <<>> => Items(q) = {}
  BY Tuples
<1>8. QED
  BY <1>2, <1>3, <1>5, <1>6, <1>7 DEF Programs

LEMMA ModeFirst ==
  ASSUME Category = "MPMC"
  PROVE  /\ \A o \in SendOps : /\ OverwriteSync[o] # <<>>
                               /\ Head(OverwriteSync[o]) = "overwrite_mode.set"
         /\ \A o \in ReadOps : "read_seq.add" \notin Items(SpscSync[o])
<1>1. ASSUME NEW o \in SendOps
      PROVE  OverwriteSync[o] # <<>> /\ Head(OverwriteSync[o]) = "overwrite_mode.set"
  <2>1. /\ OverwriteSync[o] \in Programs(o, "overflow") /\ Awaits(OverwriteSync[o])
        /\ ~SingleProducer /\ o \in {"Send", "TrySend"}
    BY SendPrograms DEF LockOps, SingleProducer, SendOps
  <2> DEFINE e == EnterOverwriteMode
  <2>2. OverwriteSync = [Send        |-> e \o <<"mutex.lock", "free.take_if_any">>,
                         TrySend     |-> e \o <<"mutex.try_lock", "free.take_if_any">>,
                         sent        |-> <<"occupied.release", "mutex.unlock">>,
                         overwritten |-> <<"mutex.unlock">>]
    BY <2>1 DEF OverwriteSync
  <2> HIDE DEF e
  <2>3. PICK l \in {"mutex.lock", "mutex.try_lock"} :
          OverwriteSync[o] = e \o <<l, "free.take_if_any">>
    <3>1. /\ OverwriteSync["Send"] = e \o <<"mutex.lock", "free.take_if_any">>
          /\ OverwriteSync["TrySend"] = e \o <<"mutex.try_lock", "free.take_if_any">>
      BY <2>2
    <3>2. \E l \in {"mutex.lock", "mutex.try_lock"} :
            OverwriteSync[o] = e \o <<l, "free.take_if_any">>
      BY <2>1, <3>1
    <3>3. QED
      BY <3>2
  <2>4. e = <<"overwrite_mode.set">>
    BY DEF EnterOverwriteMode, e
  <2>5. /\ "overwrite_mode.set" \in Primitives /\ l \in Primitives
        /\ "free.take_if_any" \in Primitives
    BY DEF Primitives
  <2>6. OverwriteSync[o] = <<"overwrite_mode.set", l, "free.take_if_any">>
    BY <2>3, <2>4, <2>5, Prepended
  <2>7. QED
    BY <2>6, Tuples
<1>2. ASSUME NEW o \in ReadOps PROVE "read_seq.add" \notin Items(SpscSync[o])
  <2>1. PICK a \in {"occupied.acquire", "occupied.try_acquire"} : SpscSync[o] = <<a>>
    BY DEF SpscSync, ReadOps
  <2>2. Items(SpscSync[o]) = {a}
    BY <2>1, Tuples
  <2>3. QED
    BY <2>2
<1>3. QED
  BY <1>1, <1>2

-----------------------------------------------------------------------------
Step(t) == Enters(t) \/ Run(t)

LEMMA SlotsIn ==
  /\ 0 \in Slots
  /\ \A i \in Slots : Succ(i) \in Slots /\ (i + 1) % Capacity \in Slots /\ i # NoSlot
  BY CapacityAssumption DEF Slots, Succ, NoSlot

LEMMA CountIn ==
  /\ CountModulus \in Nat /\ CountModulus > 2 * (Capacity + Cardinality(Threads))
  /\ CountModulus > 1 /\ 0 \in 0..(CountModulus - 1)
  /\ \A n \in 0..(CountModulus - 1) :
       /\ (n + 1) % CountModulus \in 0..(CountModulus - 1)
       /\ (n - 1) % CountModulus \in 0..(CountModulus - 1)
<1>1. Cardinality(Threads) \in Nat
  BY ThreadsAssumption, FS_CardinalityType
<1>2. /\ CountModulus \in Nat /\ CountModulus > 2 * (Capacity + Cardinality(Threads))
      /\ CountModulus > 1
  BY <1>1, CapacityAssumption, CountAssumption
<1>3. QED
  BY <1>2

(* What one thread's step does to it; what the others hold stays.          *)
Moves(t, l, o, m, how, q, i) ==
  /\ pc' = [pc EXCEPT ![t] = l]
  /\ op' = [op EXCEPT ![t] = o]
  /\ msg' = [msg EXCEPT ![t] = m]
  /\ outcome' = [outcome EXCEPT ![t] = how]
  /\ todo' = [todo EXCEPT ![t] = q]
  /\ index' = [index EXCEPT ![t] = i]

Goes(t, l) == Moves(t, l, op[t], msg[t], outcome[t], todo[t], index[t])
Performs(t, l, q) == Moves(t, l, op[t], msg[t], outcome[t], q, index[t])

LEMMA MovedThread ==
  ASSUME TypeInv, NEW t \in Threads, NEW l, NEW o, NEW m, NEW how, NEW q, NEW i,
         Moves(t, l, o, m, how, q, i)
  PROVE  /\ pc'[t] = l /\ op'[t] = o /\ msg'[t] = m /\ outcome'[t] = how /\ todo'[t] = q
         /\ index'[t] = i
         /\ \A s \in Threads \ {t} :
              /\ pc'[s] = pc[s] /\ op'[s] = op[s] /\ msg'[s] = msg[s]
              /\ outcome'[s] = outcome[s] /\ todo'[s] = todo[s] /\ index'[s] = index[s]
  BY DEF TypeInv, TypeOK, CallTypeOK, Moves

LEMMA Unmoved ==
  ASSUME TypeInv, NEW t \in Threads
  PROVE  /\ pc = [pc EXCEPT ![t] = pc[t]] /\ op = [op EXCEPT ![t] = op[t]]
         /\ msg = [msg EXCEPT ![t] = msg[t]] /\ outcome = [outcome EXCEPT ![t] = outcome[t]]
         /\ todo = [todo EXCEPT ![t] = todo[t]] /\ index = [index EXCEPT ![t] = index[t]]
  BY DEF TypeInv, TypeOK, CallTypeOK

(* The steps of a call, one by one. *)
EntersAs(t, o, m) ==
  \/ o # "Close" /\ Moves(t, "check", o, m, outcome[t], todo[t], index[t])
  \/ o # "Close" /\ Moves(t, "return", o, m, "roleChange", todo[t], index[t])
  \/ o = "Close" /\ Moves(t, "close", o, m, outcome[t], todo[t], index[t])

LEMMA EnterMoves ==
  ASSUME TypeInv, NEW t \in Threads, Enters(t)
  PROVE  /\ pc[t] = "idle"
         /\ \/ t \in Producers /\ \E o \in SendOps, m \in Messages : EntersAs(t, o, m)
            \/ t \in Consumers /\ \E o \in ReadOps : EntersAs(t, o, NoMessage)
            \/ t \in Closers /\ EntersAs(t, "Close", NoMessage)
<1>1. UNCHANGED <<todo, index>>
  BY DEF Enters, Call, syncVars
<1>2. "Close" \notin SendOps \cup ReadOps
  BY DEF SendOps, ReadOps
<1>3. ASSUME NEW o \in SendOps \cup ReadOps, NEW m, Enter(t, o, m),
             NEW r, AccountThreads(t, r)
      PROVE  pc[t] = "idle" /\ EntersAs(t, o, m)
  BY <1>1, <1>2, <1>3, Unmoved DEF Enter, AccountThreads, Goto, Finish, Decide, EntersAs, Moves
<1>4. CASE CallSend(t)
  BY <1>3, <1>4 DEF CallSend
<1>5. CASE CallRead(t)
  BY <1>3, <1>5 DEF CallRead
<1>6. CASE CallClose(t)
  BY <1>1, <1>6, Unmoved DEF CallClose, Enter, Goto, EntersAs, Moves
<1>7. QED
  BY <1>4, <1>5, <1>6 DEF Enters, Call

(* A primitive: the program loses its head, or the call gives up.          *)
Primitive(t, h) == todo[t] # <<>> /\ Head(todo[t]) = h /\ Performs(t, pc[t], Tail(todo[t]))

Abandoned(t) == IF Category = "SPMC" /\ Head(todo[t]) = "occupied.try_acquire"
                  THEN <<"mutex.unlock">> ELSE <<>>
GivesUp(t) ==
  /\ todo[t] # <<>>
  /\ \/ Head(todo[t]) = "occupied.try_acquire" /\ occupied = 0
     \/ Head(todo[t]) = "mutex.try_lock" /\ mutex # NoThread
  /\ Moves(t, "return", op[t], msg[t], "false", Abandoned(t), index[t])

LEMMA DoingMoves ==
  ASSUME TypeInv, NEW t \in Threads, NEW h, Doing(t, h), UNCHANGED <<callVars, index>>
  PROVE  Primitive(t, h)
  BY Unmoved DEF Doing, Ready, Perform, Primitive, Performs, Moves, callVars

(* The primitives of this queue: it never waits for space.                 *)
Quietly(t, h) == Primitive(t, h) /\ UNCHANGED <<occupied, mutex, writeSeq, readSeq>> /\ free' \in Nat

PrimitiveStep(t) ==
  \/ Quietly(t, "free.take_if_any") \/ Quietly(t, "free.release")
  \/ /\ \E h \in OccupiedAcquires : Primitive(t, h)
     /\ occupied > 0 /\ occupied' = occupied - 1
     /\ UNCHANGED <<free, mutex, writeSeq, readSeq>>
  \/ /\ Primitive(t, "occupied.release") /\ occupied' = occupied + 1
     /\ UNCHANGED <<free, mutex, writeSeq, readSeq>>
  \/ /\ \E h \in Locks : Primitive(t, h)
     /\ mutex = NoThread /\ mutex' = t
     /\ UNCHANGED <<free, occupied, writeSeq, readSeq>>
  \/ /\ Primitive(t, "mutex.unlock") /\ mutex' = NoThread
     /\ UNCHANGED <<free, occupied, writeSeq, readSeq>>
  \/ GivesUp(t) /\ UNCHANGED <<free, occupied, mutex, writeSeq, readSeq>>
  \/ /\ todo[t] # <<>> /\ Head(todo[t]) = "read_seq.add"
     /\ Moves(t, pc[t], op[t], msg[t], outcome[t], Tail(todo[t]), readSeq)
     /\ readSeq' = (readSeq + 1) % Capacity
     /\ UNCHANGED <<free, occupied, mutex, writeSeq>>

LEMMA NextPrimitive ==
  ASSUME TypeInv, NEW t \in Threads, FlowInv(t), todo[t] # <<>>
  PROVE  Row(op[t], pc[t], Head(todo[t]), todo[t], Tail(todo[t]))
  BY ProgramStep DEF TypeInv, TypeOK, CallTypeOK, FlowInv, Flow

LEMMA SyncMoves ==
  ASSUME TypeInv, NEW t \in Threads, FlowInv(t), SyncStep(t)
  PROVE  PrimitiveStep(t) /\ UNCHANGED role
<1>1. todo[t] # <<>> => Head(todo[t]) \notin {"free.acquire", "free.try_acquire", "write_seq.add"}
  BY NextPrimitive DEF Row
<1>2. ~AcquireFree(t) /\ ~TryAcquireFreeFails(t) /\ ~ReserveWriteSlot(t)
  BY <1>1 DEF AcquireFree, TryAcquireFreeFails, ReserveWriteSlot, Doing, Ready
<1>3. CASE TakeFreeIfAny(t)
  BY <1>3, DoingMoves DEF TakeFreeIfAny, PrimitiveStep, Quietly, TypeInv, TypeOK, callVars
<1>4. CASE ReleaseFree(t)
  BY <1>4, DoingMoves DEF ReleaseFree, PrimitiveStep, Quietly, TypeInv, TypeOK, callVars
<1>5. CASE AcquireOccupied(t)
  BY <1>5, DoingMoves DEF AcquireOccupied, PrimitiveStep, OccupiedAcquires, callVars
<1>6. CASE ReleaseOccupied(t)
  BY <1>6, DoingMoves DEF ReleaseOccupied, PrimitiveStep, callVars
<1>7. CASE LockMutex(t)
  BY <1>7, DoingMoves DEF LockMutex, PrimitiveStep, Locks, callVars
<1>8. CASE UnlockMutex(t)
  BY <1>8, DoingMoves DEF UnlockMutex, PrimitiveStep, callVars
<1>9. CASE TryAcquireOccupiedFails(t) \/ TryLockMutexFails(t)
  BY <1>9, Unmoved DEF TryAcquireOccupiedFails, TryLockMutexFails, GiveUp, Finish, Goto,
     Decide, Perform, Ready, PrimitiveStep, GivesUp, Abandoned, Moves
<1>10. CASE ReserveReadSlot(t)
  BY <1>10, Unmoved DEF ReserveReadSlot, Doing, Perform, Ready, PrimitiveStep, Moves, callVars
<1>11. QED
  BY <1>2, <1>3, <1>4, <1>5, <1>6, <1>7, <1>8, <1>9, <1>10 DEF SyncStep

(* The steps that only move on within the call.                            *)
semaphores == <<free, occupied, mutex, writeSeq, readSeq>>

Deadlocked(t, how) ==
  /\ how = "deadlock" <=> op[t] \notin TryOps
  /\ how = "deadlock" => Policy # "kNoException"
  /\ \/ op[t] \in SendOps /\ IsFull
     \/ op[t] \in ReadOps /\ IsEmpty

Checked(t) ==
  /\ pc[t] = "check"
  /\ Goes(t, "sync") \/ \E how \in {"false", "deadlock"} :
                          /\ Moves(t, "return", op[t], msg[t], how, todo[t], index[t])
                          /\ Deadlocked(t, how)
Preworked(t) ==
  /\ pc[t] = "sync"
  /\ \/ op[t] \in SendOps /\ Performs(t, "overflow", OverwriteSync[op[t]])
     \/ op[t] \in ReadOps /\ Performs(t, IF op[t] = "Read" THEN "take" ELSE "tryEmpty",
                                      AcquireRead(op[t]))
Overflowed(t) ==
  /\ pc[t] = "overflow" /\ todo[t] = <<>>
  /\ Goes(t, IF IsFull THEN "dropLoad" ELSE "store")
Tested(t) ==
  /\ pc[t] = "dropTest"
  /\ \/ /\ attempts < DropAttempts /\ IsFull
        /\ Goes(t, "dropHead") /\ UNCHANGED <<expected, attempts>>
     \/ /\ attempts >= DropAttempts \/ ~IsFull
        /\ Goes(t, "store") /\ LeaveLoop
Asked(t) ==
  /\ pc[t] = "tryEmpty" /\ todo[t] = <<>>
  /\ \/ /\ IsEmpty
        /\ Moves(t, "return", op[t], msg[t], "false", Sync.cancelRead, index[t])
     \/ ~IsEmpty /\ Goes(t, "take")
Returned(t) ==
  /\ pc[t] = "return" /\ todo[t] = <<>>
  /\ Moves(t, "idle", "none", NoMessage, "none", todo[t], NoSlot)
Loaded(t) ==
  /\ pc[t] = "take" /\ todo[t] = <<>> /\ index[t] = NoSlot
  /\ Moves(t, "move", op[t], msg[t], outcome[t], todo[t], head)

(* The loop's variables stay, or the thread leaves the loop.               *)
LoopKept(t) ==
  /\ UNCHANGED overwriteMode
  /\ (pc[t] = "dropTest" /\ LeaveLoop) \/ UNCHANGED <<expected, attempts>>

ControlStep(t) ==
  \/ Checked(t) \/ Preworked(t) \/ Overflowed(t) \/ Tested(t) \/ Asked(t) \/ Returned(t)
  \/ Loaded(t)

LEMMA ControlMoves ==
  ASSUME TypeInv, NEW t \in Threads,
         \/ CheckSendDeadlockPossibility(t) \/ CheckReadDeadlockPossibility(t)
         \/ SyncAndOverflowPrework(t) \/ SyncAndUnderflowPrework(t, AcquireRead(op[t]))
         \/ ResolveSendOverflow(t) \/ DropStillNeeded(t) \/ ResolveReadUnderflowTry(t)
         \/ Leave(t) \/ LoadHead(t)
  PROVE  ControlStep(t) /\ UNCHANGED <<semaphores, ringVars>>
<1> USE Unmoved DEF Goto, Finish, Decide, Perform, Ready, Moves, Goes, Performs, semaphores,
                    syncVars, callVars
<1>1. CASE CheckSendDeadlockPossibility(t) \/ CheckReadDeadlockPossibility(t)
  BY <1>1 DEF CheckSendDeadlockPossibility, CheckReadDeadlockPossibility, AfterCheck,
     HandleDeadlock, ControlStep, Checked, Deadlocked
<1>2. CASE SyncAndOverflowPrework(t) \/ SyncAndUnderflowPrework(t, AcquireRead(op[t]))
  BY <1>2 DEF SyncAndOverflowPrework, SyncAndUnderflowPrework, ControlStep, Preworked
<1>3. CASE ResolveSendOverflow(t)
  BY <1>3 DEF ResolveSendOverflow, ControlStep, Overflowed
<1>4. CASE DropStillNeeded(t)
  BY <1>4 DEF DropStillNeeded, ControlStep, Tested
<1>5. CASE ResolveReadUnderflowTry(t)
  BY <1>5 DEF ResolveReadUnderflowTry, ControlStep, Asked
<1>6. CASE Leave(t)
  BY <1>6 DEF Leave, Return, ControlStep, Returned
<1>7. CASE LoadHead(t)
  BY <1>7 DEF LoadHead, LoadIndex, HasReserved, ControlStep, Loaded
<1>8. QED
  BY <1>1, <1>2, <1>3, <1>4, <1>5, <1>6, <1>7

(* The steps that work on the ring.                                        *)
ModeSet(t) ==
  /\ Primitive(t, "overwrite_mode.set") /\ overwriteMode' = TRUE
  /\ UNCHANGED <<semaphores, ringVars, expected, attempts>>
DropLoaded(t) ==
  /\ pc[t] = "dropLoad" /\ Goes(t, "dropTest")
  /\ expected' = head /\ attempts' = 0
  /\ UNCHANGED <<semaphores, ringVars, overwriteMode>>
Dropped(t) ==
  /\ pc[t] = "dropHead" /\ Goes(t, "dropCount")
  /\ head = expected /\ head' = Succ(head) /\ LeaveLoop
  /\ UNCHANGED <<semaphores, buffer, tail, count, cleared, overwriteMode>>
DropFailed(t) ==
  /\ pc[t] = "dropHead" /\ Goes(t, "dropTest")
  /\ head # expected \/ CasMayFail
  /\ expected' = head /\ attempts' = attempts + 1
  /\ UNCHANGED <<semaphores, ringVars, overwriteMode>>
CountsDrop(t) ==
  /\ pc[t] = "dropCount" /\ Goes(t, "storeOver")
  /\ count' = (count - 1) % CountModulus
  /\ UNCHANGED <<semaphores, buffer, head, tail, cleared, dropVars>>
StoresMessage(t, label, commit) ==
  /\ pc[t] = label /\ todo[t] = <<>> /\ ~cleared
  /\ Moves(t, "countUp", op[t], NoMessage, "returned", commit, index[t])
  /\ buffer' = [buffer EXCEPT ![tail] = msg[t]] /\ tail' = Succ(tail)
  /\ UNCHANGED <<semaphores, head, count, cleared, dropVars>>
CountsUp(t) ==
  /\ pc[t] = "countUp" /\ todo[t] = <<>> /\ Goes(t, "return")
  /\ count' = (count + 1) % CountModulus
  /\ UNCHANGED <<semaphores, buffer, head, tail, cleared, dropVars>>
Moved(t, label, how) ==
  /\ ~cleared
  /\ Moves(t, label, op[t], buffer[index[t]], how, todo[t], index[t])
  /\ buffer' = [buffer EXCEPT ![index[t]] = NoMessage]
  /\ UNCHANGED <<semaphores, head, tail, count, cleared, dropVars>>
Advanced(t) ==
  /\ pc[t] = "advance" /\ head = index[t] /\ head' = Succ(head)
  /\ Moves(t, "countDown", op[t], msg[t], "returned", todo[t], index[t])
  /\ UNCHANGED <<semaphores, buffer, tail, count, cleared, dropVars>>
AdvanceFailed(t) ==
  /\ pc[t] = "advance" /\ (head # index[t] \/ CasMayFail)
  /\ Moves(t, "move", op[t], msg[t], outcome[t], todo[t], head)
  /\ UNCHANGED <<semaphores, ringVars, dropVars>>
CountsDown(t) ==
  /\ pc[t] = "countDown" /\ Performs(t, "return", Sync.read)
  /\ count' = (count - 1) % CountModulus
  /\ UNCHANGED <<semaphores, buffer, head, tail, cleared, dropVars>>
Closed(t) ==
  /\ pc[t] = "close" /\ Moves(t, "return", op[t], msg[t], "returned", todo[t], index[t])
  /\ head' = 0 /\ tail' = 0 /\ count' = 0 /\ cleared' = TRUE
  /\ UNCHANGED <<semaphores, buffer, dropVars>>

RingStep(t) ==
  \/ ModeSet(t) \/ DropLoaded(t) \/ Dropped(t) \/ DropFailed(t) \/ CountsDrop(t)
  \/ StoresMessage(t, "store", OverwriteSync.sent) \/ StoresMessage(t, "storeOver", OverwriteSync.overwritten)
  \/ CountsUp(t) \/ Advanced(t) \/ AdvanceFailed(t) \/ CountsDown(t) \/ Closed(t)
  \/ pc[t] = "move" /\ Moved(t, "advance", outcome[t])
  \/ /\ pc[t] = "take" /\ todo[t] = <<>> /\ index[t] # NoSlot
     /\ Moved(t, "countDown", "returned")

LEMMA RunMoves ==
  ASSUME TypeInv, NEW t \in Threads, FlowInv(t), Run(t)
  PROVE  /\ \/ PrimitiveStep(t) /\ UNCHANGED <<ringVars, dropVars>>
            \/ ControlStep(t) /\ LoopKept(t) /\ UNCHANGED <<semaphores, ringVars>>
            \/ RingStep(t)
         /\ UNCHANGED role /\ ~broken /\ RecordHistory(t)
<1> DEFINE Goal == /\ \/ PrimitiveStep(t) /\ UNCHANGED <<ringVars, dropVars>>
                      \/ ControlStep(t) /\ LoopKept(t) /\ UNCHANGED <<semaphores, ringVars>>
                      \/ RingStep(t)
                   /\ UNCHANGED role
<1>1. ASSUME \/ CheckSendDeadlockPossibility(t) \/ CheckReadDeadlockPossibility(t)
             \/ SyncAndOverflowPrework(t) \/ SyncAndUnderflowPrework(t, AcquireRead(op[t]))
             \/ ResolveSendOverflow(t) \/ DropStillNeeded(t) \/ ResolveReadUnderflowTry(t)
             \/ Leave(t) \/ LoadHead(t), LoopKept(t)
      PROVE  Goal
  <2>1. UNCHANGED role
    BY <1>1 DEF CheckSendDeadlockPossibility, CheckReadDeadlockPossibility, AfterCheck,
       SyncAndOverflowPrework, SyncAndUnderflowPrework, ResolveSendOverflow, DropStillNeeded,
       ResolveReadUnderflowTry, Leave, Return, LoadHead
  <2>2. QED
    BY <1>1, <2>1, ControlMoves
<1>2. ASSUME SyncStep(t), UNCHANGED <<ringVars, dropVars>> PROVE Goal
  BY <1>2, SyncMoves
<1>3. op[t] \in SendOps => index[t] = NoSlot
  BY DEF FlowInv, Flow
<1>4. pc[t] \in {"store", "storeOver"} => index[t] = NoSlot
  BY <1>3 DEF FlowInv, Flow, WriteLabels
<1> USE Unmoved DEF Goto, Finish, Decide, Perform, Ready, Moves, Goes, Performs, semaphores,
                    syncVars, callVars, RingStep
<1>5. ASSUME SetOverwriteMode(t) PROVE Goal
  <2>1. Primitive(t, "overwrite_mode.set")
    BY <1>5, DoingMoves DEF SetOverwriteMode
  <2>2. QED
    BY <1>5, <2>1 DEF SetOverwriteMode, ModeSet
<1>6. ASSUME LoadHeadToDrop(t) PROVE Goal
  BY <1>6 DEF LoadHeadToDrop, DropLoaded
<1>7. ASSUME DropHead(t) PROVE Goal
  BY <1>7 DEF DropHead, Dropped, DropFailed, dropVars, ringVars
<1>8. ASSUME CountDropped(t) PROVE Goal
  BY <1>8 DEF CountDropped, CountsDrop
<1>9. ASSUME WriteTail(t, "store", OverwriteSync.sent), UNCHANGED dropVars PROVE Goal
  BY <1>4, <1>9 DEF WriteTail, WriteIndex, HasReserved, StoresMessage
<1>10. ASSUME WriteTail(t, "storeOver", OverwriteSync.overwritten), UNCHANGED dropVars PROVE Goal
  BY <1>4, <1>10 DEF WriteTail, WriteIndex, HasReserved, StoresMessage
<1>11. ASSUME CountUp(t), UNCHANGED dropVars PROVE Goal
  BY <1>11 DEF CountUp, CountsUp
<1>12. ASSUME ReadReserved(t), UNCHANGED dropVars PROVE Goal
  BY <1>12 DEF ReadReserved, MoveOut, HasReserved, Moved
<1>13. ASSUME MoveHead(t), UNCHANGED dropVars PROVE Goal
  BY <1>13 DEF MoveHead, MoveOut, Moved
<1>14. ASSUME AdvanceHead(t), UNCHANGED dropVars PROVE Goal
  BY <1>14 DEF AdvanceHead, LoadIndex, Advanced, AdvanceFailed, ringVars
<1>15. ASSUME CountDown(t), UNCHANGED dropVars PROVE Goal
  BY <1>15 DEF CountDown, CountsDown
<1>16. ASSUME Close(t), UNCHANGED dropVars PROVE Goal
  BY <1>16 DEF Close, Closed
<1>17. ASSUME \/ ResolveSendOverflow(t) \/ SyncAndOverflowPrework(t) \/ DropStillNeeded(t)
              \/ UNCHANGED dropVars
       PROVE  LoopKept(t)
  BY <1>17 DEF ResolveSendOverflow, SyncAndOverflowPrework, DropStillNeeded, LoopKept, dropVars
<1>18. Goal
  BY <1>1, <1>2, <1>5, <1>6, <1>7, <1>8, <1>9, <1>10, <1>11, <1>12, <1>13, <1>14, <1>15,
     <1>16, <1>17 DEF Run, QueueSteps, DropSteps, RingSteps
<1>19. QED
  BY <1>18 DEF Run

-----------------------------------------------------------------------------
(* Every step leaves its thread somewhere the flow of the calls allows,    *)
(* and the mutex with who has it.                                          *)
LockKept(t, l, o, q) == mutex' = mutex /\ (LockedAt(l, o, q) <=> Locked(t))

Proceeds(t, l, o, m, how, q, i) ==
  /\ Moves(t, l, o, m, how, q, i) /\ Flow(t, l, o, m, how, q, i)
  /\ l \in Labels /\ o \in Ops /\ m \in Messages \cup {NoMessage} /\ how \in Outcomes
  /\ i \in Slots \cup {NoSlot}
  /\ \/ LockKept(t, l, o, q)
     \/ mutex = NoThread /\ mutex' = t /\ LockedAt(l, o, q)
     \/ Locked(t) /\ mutex' = NoThread /\ ~LockedAt(l, o, q)

LEMMA HereTyped ==
  ASSUME TypeInv, NEW t \in Threads
  PROVE  /\ pc[t] \in Labels /\ op[t] \in Ops /\ msg[t] \in Messages \cup {NoMessage}
         /\ outcome[t] \in Outcomes /\ index[t] \in Slots \cup {NoSlot}
  BY DEF TypeInv, TypeOK, CallTypeOK

LEMMA EnterProceeds ==
  ASSUME TypeInv, NEW t \in Threads, FlowInv(t), Enters(t)
  PROVE  \E l, o, m, how, q, i : Proceeds(t, l, o, m, how, q, i)
<1>1. /\ pc[t] = "idle" /\ op[t] = "none" /\ todo[t] = <<>> /\ outcome[t] = "none"
      /\ index[t] = NoSlot
  BY EnterMoves, HereTyped, ProgramItems DEF FlowInv, Flow, Decided
<1>2. UNCHANGED mutex
  BY DEF Enters, Call, syncVars
<1>3. ~Locked(t)
  BY <1>1, EmptyProgram DEF Locked, LockedAt, LockOps, SendOps, ReadOps
<1>4. \A l \in {"check", "return", "close"} : \A o : ~LockedAt(l, o, <<>>)
  BY EmptyProgram DEF LockedAt, WriteLabels, ReadLabels
<1> DEFINE Fits(o, m) == \A l \in {"check", "close", "return"}, how \in {"none", "roleChange"} :
                           /\ (l = "close" <=> o = "Close") /\ (l = "return" <=> how = "roleChange")
                           => Flow(t, l, o, m, how, <<>>, NoSlot)
<1>5. ASSUME NEW o \in Ops, NEW m \in Messages \cup {NoMessage}, EntersAs(t, o, m), Fits(o, m)
      PROVE  \E l, oo, mm, how, q, i : Proceeds(t, l, oo, mm, how, q, i)
  <2>1. ASSUME NEW l \in {"check", "close", "return"}, NEW how \in {"none", "roleChange"},
               Moves(t, l, o, m, how, todo[t], index[t]),
               l = "close" <=> o = "Close", l = "return" <=> how = "roleChange"
        PROVE  Proceeds(t, l, o, m, how, todo[t], index[t])
    <3>1. Flow(t, l, o, m, how, todo[t], index[t])
      BY <1>1, <1>5, <2>1
    <3>2. l \in Labels /\ how \in Outcomes
      BY DEF Labels, Outcomes
    <3>3. LockKept(t, l, o, todo[t])
      BY <1>1, <1>2, <1>3, <1>4 DEF LockKept
    <3>4. QED
      BY <1>1, <1>5, <2>1, <3>1, <3>2, <3>3, HereTyped DEF Proceeds
  <2>2. CASE o # "Close" /\ Moves(t, "check", o, m, outcome[t], todo[t], index[t])
    <3>1. Proceeds(t, "check", o, m, outcome[t], todo[t], index[t])
      BY <1>1, <2>1, <2>2
    <3>2. QED
      BY <3>1
  <2>3. CASE o # "Close" /\ Moves(t, "return", o, m, "roleChange", todo[t], index[t])
    <3>1. Proceeds(t, "return", o, m, "roleChange", todo[t], index[t])
      BY <2>1, <2>3
    <3>2. QED
      BY <3>1
  <2>4. CASE o = "Close" /\ Moves(t, "close", o, m, outcome[t], todo[t], index[t])
    <3>1. Proceeds(t, "close", o, m, outcome[t], todo[t], index[t])
      BY <1>1, <2>1, <2>4
    <3>2. QED
      BY <3>1
  <2>5. QED
    BY <1>5, <2>2, <2>3, <2>4 DEF EntersAs
<1>6. \A o, l : <<>> \in Programs(o, l)
  BY EmptyProgram
<1>7. ASSUME t \in Producers, NEW o \in SendOps, NEW m \in Messages
      PROVE  Fits(o, m)
  BY <1>6, <1>7 DEF Flow, SendOps, ReadOps, WriteLabels, ReadLabels, Decided
<1>8. ASSUME t \in Consumers, NEW o \in ReadOps
      PROVE  Fits(o, NoMessage)
  BY <1>6, <1>8 DEF Flow, SendOps, ReadOps, WriteLabels, ReadLabels, Decided
<1>9. ASSUME t \in Closers
      PROVE  Fits("Close", NoMessage)
  BY <1>6, <1>9 DEF Flow, SendOps, ReadOps, WriteLabels, ReadLabels, Decided
<1> HIDE DEF Fits
<1>10. QED
  BY EnterMoves, <1>5, <1>7, <1>8, <1>9 DEF Ops

LEMMA PrimitiveProceeds ==
  ASSUME TypeInv, NEW t \in Threads, FlowInv(t), PrimitiveStep(t) \/ ModeSet(t)
  PROVE  \E l, o, m, how, q, i : Proceeds(t, l, o, m, how, q, i)
<1> DEFINE h == Head(todo[t])
           rest == Tail(todo[t])
<1>1. todo[t] # <<>> /\ Row(op[t], pc[t], h, todo[t], rest)
  BY NextPrimitive DEF PrimitiveStep, ModeSet, Quietly, Primitive, GivesUp
<1> HIDE DEF h, rest
<1>2. /\ pc[t] \in {"overflow", "countUp", "tryEmpty", "take", "return"} /\ op[t] # "none"
      /\ todo[t] \in Programs(op[t], pc[t])
  BY <1>1, HereTyped, ProgramItems DEF FlowInv, Flow
<1>3. ASSUME NEW i \in Slots \cup {NoSlot}, i = index[t] \/ op[t] \in ReadOps
      PROVE  Flow(t, pc[t], op[t], msg[t], outcome[t], rest, i)
  <2>1. op[t] \in ReadOps => op[t] \notin SendOps
    BY DEF SendOps, ReadOps
  <2>2. QED
    BY <1>1, <1>2, <1>3, <2>1 DEF FlowInv, Flow, Row
<1>4. h \notin Locks \cup {"mutex.unlock"} => (LockedAt(pc[t], op[t], rest) <=> Locked(t))
  BY <1>1 DEF Row, LockedAt, Locked, Awaits, Owes
<1>5. h \in Locks => LockedAt(pc[t], op[t], rest)
  BY <1>1 DEF Row, LockedAt, WriteLabels, ReadLabels
<1>6. h = "mutex.unlock" => Locked(t) /\ ~LockedAt(pc[t], op[t], rest)
  BY <1>1 DEF Row, LockedAt, Locked, Owes, WriteLabels, ReadLabels
<1>7. ASSUME Primitive(t, h) PROVE Moves(t, pc[t], op[t], msg[t], outcome[t], rest, index[t])
  BY <1>7 DEF Primitive, Performs, rest
<1>8. CASE \/ Quietly(t, "free.take_if_any") \/ Quietly(t, "free.release") \/ ModeSet(t)
           \/ (\E a \in OccupiedAcquires : Primitive(t, a)) /\ UNCHANGED mutex
           \/ Primitive(t, "occupied.release") /\ UNCHANGED mutex
  <2>1. Primitive(t, h) /\ h \notin Locks \cup {"mutex.unlock"} /\ UNCHANGED mutex
    BY <1>8 DEF Quietly, ModeSet, Primitive, OccupiedAcquires, Locks, h, semaphores
  <2>2. Proceeds(t, pc[t], op[t], msg[t], outcome[t], rest, index[t])
    BY <1>3, <1>4, <1>7, <2>1, HereTyped DEF Proceeds, LockKept
  <2>3. QED
    BY <2>2
<1>9. CASE (\E a \in Locks : Primitive(t, a)) /\ mutex = NoThread /\ mutex' = t
  <2>1. Primitive(t, h) /\ h \in Locks
    BY <1>9 DEF Primitive, h
  <2>2. Proceeds(t, pc[t], op[t], msg[t], outcome[t], rest, index[t])
    BY <1>3, <1>5, <1>7, <1>9, <2>1, HereTyped DEF Proceeds
  <2>3. QED
    BY <2>2
<1>10. CASE Primitive(t, "mutex.unlock") /\ mutex' = NoThread
  <2>1. Primitive(t, h) /\ h = "mutex.unlock"
    BY <1>10 DEF Primitive, h
  <2>2. Proceeds(t, pc[t], op[t], msg[t], outcome[t], rest, index[t])
    BY <1>3, <1>6, <1>7, <1>10, <2>1, HereTyped DEF Proceeds
  <2>3. QED
    BY <2>2
<1>11. CASE GivesUp(t) /\ UNCHANGED mutex
  <2>1. /\ h \in {"occupied.try_acquire", "mutex.try_lock"}
        /\ Moves(t, "return", op[t], msg[t], "false", Abandoned(t), index[t])
    BY <1>11 DEF GivesUp, h
  <2>2. CASE Category = "SPMC" /\ h = "occupied.try_acquire"
    <3>1. /\ Abandoned(t) = <<"mutex.unlock">> /\ op[t] \in ReadOps /\ op[t] \in LockOps
          /\ pc[t] \in {"tryEmpty", "take"} /\ ~Awaits(todo[t])
      BY <1>1, <2>2 DEF Abandoned, h, Row, LockOps, OccupiedAcquires
    <3>2. Abandoned(t) \in Programs(op[t], "return") /\ Owes(Abandoned(t))
      BY <2>2, <3>1, ReadPrograms
    <3>3. LockedAt("return", op[t], Abandoned(t)) /\ Locked(t)
      BY <3>1, <3>2 DEF LockedAt, Locked, ReadLabels
    <3>4. Flow(t, "return", op[t], msg[t], "false", Abandoned(t), index[t])
      BY <1>2, <3>2 DEF FlowInv, Flow, WriteLabels, ReadLabels, Decided
    <3>5. Proceeds(t, "return", op[t], msg[t], "false", Abandoned(t), index[t])
      BY <1>11, <2>1, <3>3, <3>4, HereTyped DEF Proceeds, LockKept, Labels, Outcomes
    <3>6. QED
      BY <3>5
  <2>3. CASE ~(Category = "SPMC" /\ h = "occupied.try_acquire")
    <3>1. Abandoned(t) = <<>>
      BY <2>3 DEF Abandoned, h
    <3>2. ~LockedAt("return", op[t], <<>>)
      BY EmptyProgram DEF LockedAt, WriteLabels, ReadLabels
    <3>3. ~Locked(t)
      <4>1. CASE h = "mutex.try_lock"
        <5>1. Awaits(todo[t]) /\ ~Owes(todo[t])
          BY <1>1, <4>1 DEF Row, Locks, Awaits
        <5>2. QED
          BY <5>1 DEF Locked, LockedAt
      <4>2. CASE h # "mutex.try_lock"
        <5>1. op[t] \in ReadOps /\ Category # "SPMC"
          BY <1>1, <2>1, <2>3, <4>2 DEF Row, OccupiedAcquires
        <5>2. QED
          BY <5>1 DEF Locked, LockedAt, LockOps, SendOps, ReadOps
      <4>3. QED
        BY <4>1, <4>2
    <3>4. Flow(t, "return", op[t], msg[t], "false", <<>>, index[t])
      BY <1>2, EmptyProgram DEF FlowInv, Flow, WriteLabels, ReadLabels, Decided
    <3>5. Proceeds(t, "return", op[t], msg[t], "false", <<>>, index[t])
      BY <1>11, <2>1, <3>1, <3>2, <3>3, <3>4, HereTyped DEF Proceeds, LockKept, Labels, Outcomes
    <3>6. QED
      BY <3>5
  <2>4. QED
    BY <2>2, <2>3
<1>12. CASE /\ h = "read_seq.add" /\ UNCHANGED mutex
            /\ Moves(t, pc[t], op[t], msg[t], outcome[t], rest, readSeq)
  <2>1. readSeq \in Slots \cup {NoSlot} /\ op[t] \in ReadOps
    BY <1>1, <1>12 DEF TypeInv, Row
  <2>2. Proceeds(t, pc[t], op[t], msg[t], outcome[t], rest, readSeq)
    BY <1>3, <1>4, <1>12, <2>1, HereTyped DEF Proceeds, LockKept, Locks
  <2>3. QED
    BY <2>2
<1>13. QED
  BY <1>8, <1>9, <1>10, <1>11, <1>12 DEF PrimitiveStep, h, rest

LEMMA ControlProceeds ==
  ASSUME TypeInv, overwriteMode => Category = "MPMC", NEW t \in Threads, FlowInv(t),
         ControlStep(t), UNCHANGED mutex
  PROVE  \E l, o, m, how, q, i : Proceeds(t, l, o, m, how, q, i)
<1>0. /\ pc[t] \notin {"overflow", "countUp", "tryEmpty", "take", "return"} => todo[t] = <<>>
      /\ todo[t] \in Programs(op[t], pc[t])
      /\ todo[t] = <<>> => ~Owes(todo[t]) /\ ~Awaits(todo[t])
      /\ \A l, o : <<>> \in Programs(o, l)
  BY HereTyped, ProgramItems, EmptyProgram DEF FlowInv, Flow
<1>1. \A o \in SendOps : o \notin ReadOps
  BY DEF SendOps, ReadOps
<1>2. ASSUME NEW l, NEW m, NEW how, NEW q, NEW i, Moves(t, l, op[t], m, how, q, i),
             Flow(t, l, op[t], m, how, q, i), LockedAt(l, op[t], q) <=> Locked(t),
             l \in Labels, m \in Messages \cup {NoMessage}, how \in Outcomes,
             i \in Slots \cup {NoSlot}
      PROVE  Proceeds(t, l, op[t], m, how, q, i)
  BY <1>2, HereTyped DEF Proceeds, LockKept
<1>3. CASE Checked(t)
  <2>1. Flow(t, "sync", op[t], msg[t], outcome[t], todo[t], index[t])
    BY <1>0, <1>3 DEF Checked, FlowInv, Flow, WriteLabels, ReadLabels, Decided
  <2>2. \A how \in {"false", "deadlock"} :
          Flow(t, "return", op[t], msg[t], how, todo[t], index[t]) /\ how \in Outcomes
    BY <1>0, <1>3 DEF Checked, FlowInv, Flow, WriteLabels, ReadLabels, Decided, Outcomes
  <2>3. \A l \in {"sync", "return"} : (LockedAt(l, op[t], todo[t]) <=> Locked(t)) /\ l \in Labels
    BY <1>0, <1>3 DEF Checked, LockedAt, Locked, WriteLabels, ReadLabels, Labels
  <2>4. CASE Goes(t, "sync")
    <3>1. Proceeds(t, "sync", op[t], msg[t], outcome[t], todo[t], index[t])
      BY <1>2, <2>1, <2>3, <2>4, HereTyped DEF Goes
    <3>2. QED
      BY <3>1
  <2>5. ASSUME NEW how \in {"false", "deadlock"},
               Moves(t, "return", op[t], msg[t], how, todo[t], index[t])
        PROVE  Proceeds(t, "return", op[t], msg[t], how, todo[t], index[t])
    BY <1>2, <2>2, <2>3, <2>5, HereTyped
  <2>6. QED
    BY <1>3, <2>4, <2>5 DEF Checked
<1>4. CASE Preworked(t)
  <2>0. ~Locked(t)
    BY <1>0, <1>4 DEF Preworked, Locked, LockedAt, WriteLabels, ReadLabels
  <2>1. CASE op[t] \in SendOps /\ Performs(t, "overflow", OverwriteSync[op[t]])
    <3>1. /\ OverwriteSync[op[t]] \in Programs(op[t], "overflow")
          /\ op[t] \in LockOps => Awaits(OverwriteSync[op[t]])
          /\ ~Owes(OverwriteSync[op[t]])
      BY <2>1, SendPrograms, ProgramItems, HereTyped
    <3>2. Flow(t, "overflow", op[t], msg[t], outcome[t], OverwriteSync[op[t]], index[t])
      BY <1>1, <1>4, <2>1, <3>1 DEF Preworked, FlowInv, Flow, WriteLabels, ReadLabels, Decided
    <3>3. ~LockedAt("overflow", op[t], OverwriteSync[op[t]])
      BY <3>1 DEF LockedAt
    <3>4. Proceeds(t, "overflow", op[t], msg[t], outcome[t], OverwriteSync[op[t]], index[t])
      BY <1>2, <2>0, <2>1, <3>2, <3>3, HereTyped DEF Performs, Labels
    <3>5. QED
      BY <3>4
  <2>2. ASSUME op[t] \in ReadOps, NEW l, l = IF op[t] = "Read" THEN "take" ELSE "tryEmpty",
               Performs(t, l, AcquireRead(op[t]))
        PROVE  Proceeds(t, l, op[t], msg[t], outcome[t], AcquireRead(op[t]), index[t])
    <3>0. l \in {"tryEmpty", "take"} /\ (l = "tryEmpty" => op[t] = "TryRead")
      BY <2>2 DEF ReadOps
    <3>1. /\ AcquireRead(op[t]) \in Programs(op[t], l)
          /\ op[t] \in LockOps => Awaits(AcquireRead(op[t]))
          /\ ~Owes(AcquireRead(op[t]))
      <4>1. AcquireRead(op[t]) \in Programs(op[t], l)
        BY <2>2, <3>0, ReadPrograms DEF AcquireRead
      <4>2. op[t] \in LockOps => Awaits(AcquireRead(op[t]))
        BY <2>2, ReadPrograms DEF AcquireRead
      <4>3. QED
        BY <3>0, <4>1, <4>2, ProgramItems, HereTyped
    <3>2. Flow(t, l, op[t], msg[t], outcome[t], AcquireRead(op[t]), index[t])
      BY <1>1, <1>4, <2>2, <3>0, <3>1 DEF Preworked, FlowInv, Flow, WriteLabels, ReadLabels, Decided
    <3>3. ~LockedAt(l, op[t], AcquireRead(op[t]))
      BY <3>1 DEF LockedAt
    <3>4. l \in Labels
      BY <3>0 DEF Labels
    <3>5. QED
      BY <1>2, <2>0, <2>2, <3>2, <3>3, <3>4, HereTyped DEF Performs
  <2>3. QED
    BY <1>4, <2>1, <2>2 DEF Preworked
<1>5. CASE Overflowed(t) \/ Tested(t) \/ (Asked(t) /\ ~IsEmpty)
  <2>1. PICK l \in {"dropLoad", "store", "dropHead", "take"} :
          /\ Goes(t, l)
          /\ l = "take" => pc[t] = "tryEmpty"
          /\ l # "take" => pc[t] \in {"overflow", "dropTest"}
    BY <1>5 DEF Overflowed, Tested, Asked, Goes
  <2>2. todo[t] = <<>>
    BY <1>0, <1>5 DEF Overflowed, Tested, Asked
  <2>3. Flow(t, l, op[t], msg[t], outcome[t], todo[t], index[t])
    BY <1>0, <1>1, <2>1, <2>2 DEF FlowInv, Flow, WriteLabels, ReadLabels, Decided
  <2>4. LockedAt(l, op[t], todo[t]) <=> Locked(t)
    BY <1>0, <2>1, <2>2 DEF LockedAt, Locked, WriteLabels, ReadLabels
  <2>5. Proceeds(t, l, op[t], msg[t], outcome[t], todo[t], index[t])
    BY <1>2, <2>1, <2>3, <2>4, HereTyped DEF Goes, Labels
  <2>6. QED
    BY <2>5
<1>6. CASE Asked(t) /\ IsEmpty
  <2>1. /\ pc[t] = "tryEmpty" /\ todo[t] = <<>> /\ op[t] \in ReadOps
        /\ Moves(t, "return", op[t], msg[t], "false", Sync.cancelRead, index[t])
    BY <1>6 DEF Asked, FlowInv, Flow, ReadLabels
  <2>2. /\ Sync.cancelRead \in Programs(op[t], "return")
        /\ op[t] \in LockOps => Owes(Sync.cancelRead)
    BY <2>1, ReadPrograms
  <2>3. Flow(t, "return", op[t], msg[t], "false", Sync.cancelRead, index[t])
    BY <1>1, <2>1, <2>2 DEF FlowInv, Flow, WriteLabels, ReadLabels, Decided
  <2>4. LockedAt("return", op[t], Sync.cancelRead) <=> Locked(t)
    BY <1>0, <2>1, <2>2 DEF LockedAt, Locked, WriteLabels, ReadLabels
  <2>5. Proceeds(t, "return", op[t], msg[t], "false", Sync.cancelRead, index[t])
    BY <1>2, <2>1, <2>3, <2>4, HereTyped DEF Labels, Outcomes
  <2>6. QED
    BY <2>5
<1>7. CASE Returned(t)
  <2>1. /\ pc[t] = "return" /\ todo[t] = <<>>
        /\ Moves(t, "idle", "none", NoMessage, "none", todo[t], NoSlot)
    BY <1>7 DEF Returned
  <2>2. Flow(t, "idle", "none", NoMessage, "none", todo[t], NoSlot)
    BY <1>0, <2>1 DEF Flow, SendOps, ReadOps, WriteLabels, ReadLabels, Decided
  <2>3. ~LockedAt("idle", "none", todo[t]) /\ ~Locked(t)
    BY <1>0, <2>1 DEF LockedAt, Locked, WriteLabels, ReadLabels
  <2>4. Proceeds(t, "idle", "none", NoMessage, "none", todo[t], NoSlot)
    BY <2>1, <2>2, <2>3 DEF Proceeds, LockKept, Labels, Ops, Outcomes
  <2>5. QED
    BY <2>4
<1>8. CASE Loaded(t)
  <2>1. /\ pc[t] = "take" /\ todo[t] = <<>> /\ head \in Slots
        /\ Moves(t, "move", op[t], msg[t], outcome[t], todo[t], head)
    BY <1>8 DEF Loaded, TypeInv, TypeOK, RingTypeOK
  <2>2. Flow(t, "move", op[t], msg[t], outcome[t], todo[t], head)
    BY <1>0, <1>1, <2>1 DEF FlowInv, Flow, WriteLabels, ReadLabels, Decided
  <2>3. LockedAt("move", op[t], todo[t]) <=> Locked(t)
    BY <1>0, <2>1 DEF LockedAt, Locked, ReadLabels
  <2>4. Proceeds(t, "move", op[t], msg[t], outcome[t], todo[t], head)
    BY <1>2, <2>1, <2>2, <2>3, HereTyped DEF Labels
  <2>5. QED
    BY <2>4
<1>9. QED
  BY <1>3, <1>4, <1>5, <1>6, <1>7, <1>8 DEF ControlStep

LEMMA RingProceeds ==
  ASSUME TypeInv, NEW t \in Threads, FlowInv(t), RingStep(t)
  PROVE  \E l, o, m, how, q, i : Proceeds(t, l, o, m, how, q, i)
<1>0. /\ pc[t] \notin {"overflow", "countUp", "tryEmpty", "take", "return"} => todo[t] = <<>>
      /\ todo[t] = <<>> => ~Owes(todo[t]) /\ ~Awaits(todo[t])
      /\ \A l, o : <<>> \in Programs(o, l)
      /\ head \in Slots /\ \A i \in Slots : buffer[i] \in Messages \cup {NoMessage}
  BY HereTyped, ProgramItems, EmptyProgram DEF FlowInv, Flow, TypeInv, TypeOK, RingTypeOK
<1>1. \A o \in SendOps : o \notin ReadOps
  BY DEF SendOps, ReadOps
<1>2. ASSUME NEW l, NEW m, NEW how, NEW q, NEW i, Moves(t, l, op[t], m, how, q, i),
             Flow(t, l, op[t], m, how, q, i), LockedAt(l, op[t], q) <=> Locked(t),
             l \in Labels, m \in Messages \cup {NoMessage}, how \in Outcomes,
             i \in Slots \cup {NoSlot}, UNCHANGED mutex
      PROVE  \E ll, o, mm, hh, qq, ii : Proceeds(t, ll, o, mm, hh, qq, ii)
  <2>1. Proceeds(t, l, op[t], m, how, q, i)
    BY <1>2, HereTyped DEF Proceeds, LockKept
  <2>2. QED
    BY <2>1
<1>3. CASE ModeSet(t)
  BY <1>3, PrimitiveProceeds
<1>4. CASE DropLoaded(t) \/ Dropped(t) \/ DropFailed(t) \/ CountsDrop(t) \/ CountsUp(t)
  <2>1. PICK l \in {"dropTest", "dropCount", "storeOver", "return"} :
          /\ Goes(t, l) /\ UNCHANGED mutex /\ todo[t] = <<>>
          /\ l = "return" => pc[t] = "countUp"
          /\ l # "return" => pc[t] \in {"dropLoad", "dropHead", "dropCount"}
    BY <1>0, <1>4 DEF DropLoaded, Dropped, DropFailed, CountsDrop, CountsUp, semaphores
  <2>2. Flow(t, l, op[t], msg[t], outcome[t], todo[t], index[t])
    BY <1>0, <1>1, <2>1 DEF FlowInv, Flow, WriteLabels, ReadLabels, Decided
  <2>3. LockedAt(l, op[t], todo[t]) <=> Locked(t)
    BY <1>0, <2>1 DEF LockedAt, Locked, WriteLabels, ReadLabels
  <2>4. QED
    BY <1>2, <2>1, <2>2, <2>3, HereTyped DEF Goes, Labels
<1>5. ASSUME NEW label \in {"store", "storeOver"},
             NEW q \in {OverwriteSync.sent, OverwriteSync.overwritten}, StoresMessage(t, label, q)
      PROVE  \E l, o, m, how, qq, i : Proceeds(t, l, o, m, how, qq, i)
  <2>1. /\ pc[t] \in {"store", "storeOver"} /\ todo[t] = <<>> /\ op[t] \in SendOps /\ UNCHANGED mutex
        /\ Moves(t, "countUp", op[t], NoMessage, "returned", q, index[t])
    BY <1>5 DEF StoresMessage, semaphores, FlowInv, Flow, WriteLabels
  <2>2. q \in Programs(op[t], "countUp") /\ (op[t] \in LockOps => Owes(q))
    BY <2>1, SendPrograms
  <2>3. Flow(t, "countUp", op[t], NoMessage, "returned", q, index[t])
    BY <1>1, <2>1, <2>2 DEF FlowInv, Flow, WriteLabels, ReadLabels, Decided
  <2>4. LockedAt("countUp", op[t], q) <=> Locked(t)
    BY <1>0, <2>1, <2>2 DEF LockedAt, Locked, WriteLabels, ReadLabels
  <2>5. QED
    BY <1>2, <2>1, <2>3, <2>4, HereTyped DEF Labels, Outcomes
<1>6. CASE Advanced(t) \/ AdvanceFailed(t)
  <2>1. PICK l \in {"countDown", "move"}, how \in {outcome[t], "returned"},
             i \in {index[t], head} :
          /\ Moves(t, l, op[t], msg[t], how, todo[t], i) /\ UNCHANGED mutex
          /\ l = "move" <=> i = head /\ how = outcome[t]
          /\ l = "countDown" => how = "returned"
          /\ pc[t] = "advance" /\ todo[t] = <<>>
    <3>1. pc[t] = "advance" /\ todo[t] = <<>> /\ outcome[t] # "returned"
      BY <1>0, <1>6 DEF Advanced, AdvanceFailed, FlowInv, Flow, Decided
    <3>2. QED
      BY <1>6, <3>1 DEF Advanced, AdvanceFailed, semaphores
  <2>2. Flow(t, l, op[t], msg[t], how, todo[t], i)
    BY <1>0, <1>1, <2>1 DEF FlowInv, Flow, WriteLabels, ReadLabels, Decided
  <2>3. LockedAt(l, op[t], todo[t]) <=> Locked(t)
    BY <1>0, <2>1 DEF LockedAt, Locked, WriteLabels, ReadLabels
  <2>4. QED
    BY <1>0, <1>2, <2>1, <2>2, <2>3, HereTyped DEF Labels, Outcomes
<1>7. CASE CountsDown(t)
  <2>1. /\ pc[t] = "countDown" /\ todo[t] = <<>> /\ op[t] \in ReadOps /\ UNCHANGED mutex
        /\ Moves(t, "return", op[t], msg[t], outcome[t], Sync.read, index[t])
    BY <1>0, <1>7 DEF CountsDown, Performs, semaphores, FlowInv, Flow
  <2>2. Sync.read \in Programs(op[t], "return") /\ (op[t] \in LockOps => Owes(Sync.read))
    BY <2>1, ReadPrograms
  <2>3. Flow(t, "return", op[t], msg[t], outcome[t], Sync.read, index[t])
    BY <1>1, <2>1, <2>2 DEF FlowInv, Flow, WriteLabels, ReadLabels, Decided
  <2>4. LockedAt("return", op[t], Sync.read) <=> Locked(t)
    BY <1>0, <2>1, <2>2 DEF LockedAt, Locked
  <2>5. QED
    BY <1>2, <2>1, <2>3, <2>4, HereTyped DEF Labels
<1>8. CASE Closed(t)
  <2>1. /\ pc[t] = "close" /\ todo[t] = <<>> /\ op[t] = "Close" /\ UNCHANGED mutex
        /\ Moves(t, "return", op[t], msg[t], "returned", todo[t], index[t])
    BY <1>0, <1>8 DEF Closed, semaphores, FlowInv, Flow
  <2>2. Flow(t, "return", op[t], msg[t], "returned", todo[t], index[t])
    BY <1>0, <2>1 DEF FlowInv, Flow, WriteLabels, ReadLabels, Decided, SendOps, ReadOps
  <2>3. LockedAt("return", op[t], todo[t]) <=> Locked(t)
    BY <1>0, <2>1 DEF LockedAt, Locked, WriteLabels, ReadLabels
  <2>4. QED
    BY <1>2, <2>1, <2>2, <2>3, HereTyped DEF Labels, Outcomes
<1>9. CASE \/ pc[t] = "move" /\ Moved(t, "advance", outcome[t])
           \/ pc[t] = "take" /\ todo[t] = <<>> /\ index[t] # NoSlot /\ Moved(t, "countDown", "returned")
  <2>1. PICK l \in {"advance", "countDown"}, how \in {outcome[t], "returned"} :
          /\ Moves(t, l, op[t], buffer[index[t]], how, todo[t], index[t]) /\ UNCHANGED mutex
          /\ pc[t] \in {"move", "take"} /\ todo[t] = <<>> /\ index[t] \in Slots
          /\ l = "advance" => how = outcome[t] /\ pc[t] = "move"
          /\ l = "countDown" => how = "returned"
    <3>1. index[t] \in Slots
      BY <1>9, HereTyped DEF FlowInv, Flow
    <3>2. pc[t] = "move" => todo[t] = <<>> /\ outcome[t] # "returned"
      BY <1>0 DEF FlowInv, Flow, Decided
    <3>3. QED
      BY <1>9, <3>1, <3>2 DEF Moved, semaphores
  <2>2. Flow(t, l, op[t], buffer[index[t]], how, todo[t], index[t])
    BY <1>0, <1>1, <2>1 DEF FlowInv, Flow, WriteLabels, ReadLabels, Decided
  <2>3. LockedAt(l, op[t], todo[t]) <=> Locked(t)
    BY <1>0, <2>1 DEF LockedAt, Locked, ReadLabels
  <2>4. QED
    BY <1>0, <1>2, <2>1, <2>2, <2>3, HereTyped DEF Labels, Outcomes
<1>10. QED
  BY <1>3, <1>4, <1>5, <1>6, <1>7, <1>8, <1>9 DEF RingStep

LEMMA StepProceeds ==
  ASSUME BaseInv, NEW t \in Threads, Step(t)
  PROVE  \E l, o, m, how, q, i : Proceeds(t, l, o, m, how, q, i)
<1>1. TypeInv /\ FlowInv(t) /\ (overwriteMode => Category = "MPMC")
  BY DEF BaseInv
<1>2. CASE Enters(t)
  BY <1>1, <1>2, EnterProceeds
<1>3. CASE Run(t)
  <2>1. CASE PrimitiveStep(t)
    BY <1>1, <2>1, PrimitiveProceeds
  <2>2. CASE ControlStep(t) /\ UNCHANGED semaphores
    BY <1>1, <2>2, ControlProceeds DEF semaphores
  <2>3. CASE RingStep(t)
    BY <1>1, <2>3, RingProceeds
  <2>4. QED
    BY <1>1, <1>3, <2>1, <2>2, <2>3, RunMoves
<1>4. QED
  BY <1>2, <1>3 DEF Step

(* One sender at a time is past its lock, by the mutex or by the contract. *)
Writing == {"dropLoad", "dropTest", "dropHead", "dropCount", "store", "storeOver"}

LEMMA SoleWriter ==
  ASSUME BaseInv, NEW s \in Threads, NEW t \in Threads,
         pc[s] \in Writing, pc[t] \in Writing
  PROVE  s = t
<1>1. \A r \in {s, t} : op[r] \in SendOps /\ todo[r] = <<>> /\ r \in Producers
  <2>1. ASSUME NEW r \in {s, t} PROVE op[r] \in SendOps /\ todo[r] = <<>> /\ r \in Producers
    <3>1. FlowInv(r) /\ op[r] \in Ops /\ pc[r] \in Writing
      BY HereTyped DEF BaseInv
    <3>2. op[r] \in SendOps /\ r \in Producers /\ todo[r] \in Programs(op[r], pc[r])
      BY <3>1 DEF FlowInv, Flow, Writing, WriteLabels
    <3>3. QED
      BY <3>1, <3>2, ProgramItems DEF Writing
  <2>2. QED
    BY <2>1
<1>2. CASE SingleProducer
  BY <1>1, <1>2, CategoryContract
<1>3. CASE ~SingleProducer
  <2>1. LockOps = SendOps
    BY <1>3, CategoryAssumption DEF LockOps, SingleProducer
  <2>2. Locked(s) /\ Locked(t)
    BY <1>1, <2>1, EmptyProgram DEF Locked, LockedAt, Writing, WriteLabels
  <2>3. mutex = s /\ mutex = t
    BY <2>2 DEF BaseInv
  <2>4. QED
    BY <2>3
<1>4. QED
  BY <1>2, <1>3

(* The types of what is not a thread's own.                                *)
SharedTypes ==
  /\ role \in [Threads -> Roles]
  /\ RingTypeOK
  /\ free \in Nat /\ occupied \in Nat /\ mutex \in Threads \cup {NoThread}
  /\ writeSeq \in Slots /\ readSeq \in Slots
  /\ overwriteMode \in BOOLEAN /\ (overwriteMode => Category = "MPMC")
  /\ expected \in Slots /\ attempts \in 0..DropAttempts
  /\ alone \subseteq Threads /\ broken \in BOOLEAN

LEMMA StepShared ==
  ASSUME BaseInv, NEW t \in Threads, Step(t)
  PROVE  SharedTypes'
<1>1. SharedTypes /\ TypeInv /\ FlowInv(t) /\ (pc[t] = "dropHead" => attempts < DropAttempts)
  BY DEF BaseInv, TypeInv, TypeOK, CallTypeOK, SharedTypes
<1>2. CASE Enters(t)
  <2>1. role' \in [Threads -> Roles]
    BY <1>1, <1>2 DEF Enters, Call, CallSend, CallRead, CallClose, AccountThreads, SharedTypes,
       Roles
  <2>2. alone' \subseteq Threads
    BY <1>2 DEF Enters
  <2>3. QED
    BY <1>1, <1>2, <2>1, <2>2 DEF Enters, Call, syncVars, ringVars, dropVars, SharedTypes, RingTypeOK
<1>3. CASE Run(t)
  <2>1. UNCHANGED role /\ alone' \subseteq Threads /\ broken' \in BOOLEAN
    BY <1>1, <1>3, RunMoves DEF RecordHistory, SharedTypes
  <2>2. CASE PrimitiveStep(t) /\ UNCHANGED <<ringVars, dropVars>>
    <3>1. mutex' \in Threads \cup {NoThread}
      BY <1>1, <2>2 DEF PrimitiveStep, Quietly, SharedTypes
    <3>2. free' \in Nat /\ occupied' \in Nat
      BY <1>1, <2>2 DEF PrimitiveStep, Quietly, SharedTypes
    <3>3. writeSeq' \in Slots /\ readSeq' \in Slots
      BY <1>1, <2>2, SlotsIn DEF PrimitiveStep, Quietly, SharedTypes
    <3>4. QED
      BY <1>1, <2>1, <2>2, <3>1, <3>2, <3>3 DEF SharedTypes, RingTypeOK, ringVars, dropVars
  <2>3. CASE ControlStep(t) /\ LoopKept(t) /\ UNCHANGED <<semaphores, ringVars>>
    BY <1>1, <2>1, <2>3, SlotsIn, AttemptsAssumption
       DEF LoopKept, LeaveLoop, semaphores, ringVars, SharedTypes, RingTypeOK
  <2>4. CASE ModeSet(t)
    <3>1. Category = "MPMC"
      BY <1>1, <2>4, NextPrimitive DEF ModeSet, Primitive, Row
    <3>2. QED
      BY <1>1, <2>1, <2>4, <3>1 DEF ModeSet, semaphores, ringVars, SharedTypes, RingTypeOK
  <2>5. CASE DropLoaded(t) \/ DropFailed(t)
    <3>1. attempts' \in 0..DropAttempts
      BY <1>1, <2>5, AttemptsAssumption DEF DropLoaded, DropFailed, SharedTypes
    <3>2. QED
      BY <1>1, <2>1, <2>5, <3>1 DEF DropLoaded, DropFailed, semaphores, ringVars, SharedTypes,
         RingTypeOK
  <2>6. CASE Dropped(t) \/ Advanced(t)
    BY <1>1, <2>1, <2>6, SlotsIn, AttemptsAssumption
       DEF Dropped, Advanced, LeaveLoop, semaphores, dropVars, SharedTypes, RingTypeOK
  <2>7. CASE CountsDrop(t) \/ CountsUp(t) \/ CountsDown(t)
    <3>1. count' \in 0..(CountModulus - 1)
      BY <1>1, <2>7, CountIn DEF CountsDrop, CountsUp, CountsDown, SharedTypes, RingTypeOK
    <3>2. UNCHANGED <<semaphores, buffer, head, tail, cleared, dropVars>>
      BY <2>7 DEF CountsDrop, CountsUp, CountsDown
    <3>3. QED
      BY <1>1, <2>1, <3>1, <3>2 DEF semaphores, dropVars, SharedTypes, RingTypeOK
  <2>8. ASSUME NEW label, NEW q, StoresMessage(t, label, q) PROVE SharedTypes'
    <3>1. msg[t] \in Messages \cup {NoMessage}
      BY <1>1, HereTyped
    <3>2. QED
      BY <1>1, <2>1, <2>8, <3>1, SlotsIn DEF StoresMessage, semaphores, dropVars, SharedTypes,
         RingTypeOK
  <2>9. CASE AdvanceFailed(t)
    BY <1>1, <2>1, <2>9 DEF AdvanceFailed, semaphores, ringVars, dropVars, SharedTypes, RingTypeOK
  <2>10. CASE Closed(t)
    BY <1>1, <2>1, <2>10, SlotsIn, CountIn DEF Closed, semaphores, dropVars, SharedTypes, RingTypeOK
  <2>11. ASSUME NEW l, NEW how, Moved(t, l, how) PROVE SharedTypes'
    BY <1>1, <2>1, <2>11 DEF Moved, semaphores, dropVars, SharedTypes, RingTypeOK
  <2>12. CASE RingStep(t)
    BY <2>4, <2>5, <2>6, <2>7, <2>8, <2>9, <2>10, <2>11, <2>12 DEF RingStep
  <2>13. QED
    BY <1>1, <1>3, <2>2, <2>3, <2>12, RunMoves
<1>4. QED
  BY <1>2, <1>3 DEF Step

(* What a thread has loaded, and whether the head has moved since.         *)
LEMMA PassedKept ==
  ASSUME BaseInv, NEW t \in Threads, Step(t)
  PROVE  passed' \subseteq {s \in Threads : Unadvanced(s)'}
<1>1. CASE Run(t)
  BY <1>1, RunMoves DEF BaseInv, RecordHistory, Unadvanced
<1>2. CASE Enters(t)
  <2>1. TypeInv /\ pc[t] = "idle" /\ passed' = passed
    BY <1>2, EnterMoves DEF BaseInv, Enters
  <2>2. PICK l, o, m, how, q, i : Moves(t, l, o, m, how, q, i)
    BY StepProceeds DEF Proceeds
  <2>3. QED
    BY <2>1, <2>2, MovedThread DEF BaseInv, Unadvanced
<1>3. QED
  BY <1>1, <1>2 DEF Step

(* The sender that drops counts its attempts alone.                        *)
LEMMA AttemptsKept ==
  ASSUME BaseInv, NEW t \in Threads, Step(t), NEW s \in Threads, pc'[s] = "dropHead"
  PROVE  attempts' < DropAttempts
<1>0. TypeInv /\ FlowInv(t)
  BY DEF BaseInv
<1>1. PICK l, o, m, how, q, i : Moves(t, l, o, m, how, q, i)
  BY StepProceeds DEF Proceeds
<1>2. CASE s # t
  <2>1. pc[s] = "dropHead" /\ attempts < DropAttempts
    BY <1>0, <1>1, <1>2, MovedThread DEF BaseInv
  <2>2. pc[t] \notin Writing
    BY <1>2, <2>1, SoleWriter DEF Writing
  <2>3. attempts' = attempts
    <3>1. CASE Enters(t)
      BY <3>1 DEF Enters, dropVars
    <3>2. CASE Run(t)
      <4>1. ~DropLoaded(t) /\ ~DropFailed(t) /\ ~Dropped(t) /\ pc[t] # "dropTest"
        BY <2>2 DEF DropLoaded, DropFailed, Dropped, Writing
      <4>2. QED
        BY <1>0, <3>2, <4>1, RunMoves DEF LoopKept, RingStep, dropVars, ModeSet, CountsDrop,
           StoresMessage, CountsUp, Moved, Advanced, AdvanceFailed, CountsDown, Closed
    <3>3. QED
      BY <3>1, <3>2 DEF Step
  <2>4. QED
    BY <2>1, <2>3
<1>3. CASE s = t
  <2>1. l = "dropHead"
    BY <1>0, <1>1, <1>3, MovedThread
  <2>2. CASE Enters(t)
    <3>1. \E ll \in {"check", "return", "close"} : pc' = [pc EXCEPT ![t] = ll]
      BY <1>0, <2>2, EnterMoves DEF EntersAs, Moves
    <3>2. QED
      BY <1>0, <1>3, <3>1 DEF TypeInv, TypeOK, CallTypeOK
  <2>3. CASE Run(t)
    <3>1. CASE PrimitiveStep(t)
      <4>1. pc'[t] \in {pc[t], "return"} /\ todo[t] # <<>>
        BY <1>0, <3>1, MovedThread DEF PrimitiveStep, Quietly, Primitive, Performs, GivesUp
      <4>2. pc[t] # "dropHead"
        BY <1>0, <4>1, HereTyped, ProgramItems DEF FlowInv, Flow
      <4>3. QED
        BY <1>3, <4>1, <4>2
    <3>2. CASE ControlStep(t) /\ LoopKept(t) /\ UNCHANGED <<semaphores, ringVars>>
      <4>1. Tested(t)
        <5>1. CASE Checked(t) \/ Asked(t) \/ Returned(t) \/ Loaded(t)
          <6>1. pc'[t] # "dropHead"
            BY <1>0, <5>1, MovedThread DEF Checked, Asked, Returned, Loaded, Goes
          <6>2. QED
            BY <1>3, <6>1
        <5>2. CASE Preworked(t) \/ Overflowed(t)
          <6>1. pc'[t] # "dropHead"
            BY <1>0, <5>2, MovedThread DEF Preworked, Overflowed, Goes, Performs
          <6>2. QED
            BY <1>3, <6>1
        <5>3. QED
          BY <3>2, <5>1, <5>2 DEF ControlStep
      <4>2. attempts < DropAttempts /\ attempts' = attempts
        BY <1>0, <1>3, <4>1, MovedThread DEF Tested, Goes
      <4>3. QED
        BY <4>2
    <3>3. CASE RingStep(t)
      <4>1. CASE ModeSet(t)
        <5>1. pc'[t] = pc[t] /\ todo[t] # <<>>
          BY <1>0, <4>1, MovedThread DEF ModeSet, Primitive, Performs
        <5>2. pc[t] # "dropHead"
          BY <1>0, <5>1, HereTyped, ProgramItems DEF FlowInv, Flow
        <5>3. QED
          BY <1>3, <5>1, <5>2
      <4>2. CASE ~ModeSet(t)
        <5>1. \E ll \in {"dropTest", "dropCount", "storeOver", "countUp", "return", "countDown",
                         "move", "advance"} : pc' = [pc EXCEPT ![t] = ll]
          BY <3>3, <4>2 DEF RingStep, DropLoaded, Dropped, DropFailed, CountsDrop, StoresMessage,
             CountsUp, Moved, Advanced, AdvanceFailed, CountsDown, Closed, Moves, Goes, Performs
        <5>2. QED
          BY <1>0, <1>3, <5>1 DEF TypeInv, TypeOK, CallTypeOK
      <4>3. QED
        BY <4>1, <4>2
    <3>4. QED
      BY <1>0, <2>3, <3>1, <3>2, <3>3, RunMoves
  <2>4. QED
    BY <2>2, <2>3 DEF Step
<1>4. QED
  BY <1>2, <1>3

(* The mutex is held by who has locked it and has not unlocked it.         *)
LEMMA BaseStep ==
  ASSUME BaseInv, NEW t \in Threads, Step(t)
  PROVE  BaseInv'
<1>0. TypeInv /\ (\A s \in Threads : FlowInv(s)) /\ \A s \in Threads : mutex = s <=> Locked(s)
  BY DEF BaseInv
<1>1. PICK l, o, m, how, q, i : Proceeds(t, l, o, m, how, q, i)
  BY StepProceeds
<1>2. /\ pc'[t] = l /\ op'[t] = o /\ msg'[t] = m /\ outcome'[t] = how /\ todo'[t] = q
      /\ index'[t] = i
      /\ \A s \in Threads \ {t} :
           /\ pc'[s] = pc[s] /\ op'[s] = op[s] /\ msg'[s] = msg[s]
           /\ outcome'[s] = outcome[s] /\ todo'[s] = todo[s] /\ index'[s] = index[s]
  BY <1>0, <1>1, MovedThread DEF Proceeds
<1>3. \A s \in Threads : FlowInv(s)'
  BY <1>0, <1>1, <1>2 DEF Proceeds, FlowInv
<1>4. \A s \in Threads : (mutex = s <=> Locked(s))'
  <2>1. (Locked(t)' <=> LockedAt(l, o, q)) /\ \A s \in Threads \ {t} : Locked(s)' <=> Locked(s)
    BY <1>2 DEF Locked
  <2>2. NoThread \notin Threads
    BY ThreadsAssumption
  <2>3. CASE LockKept(t, l, o, q)
    BY <1>0, <2>1, <2>3 DEF LockKept
  <2>4. CASE mutex = NoThread /\ mutex' = t /\ LockedAt(l, o, q)
    BY <1>0, <2>1, <2>2, <2>4
  <2>5. CASE Locked(t) /\ mutex' = NoThread /\ ~LockedAt(l, o, q)
    BY <1>0, <2>1, <2>2, <2>5
  <2>6. QED
    BY <1>1, <2>3, <2>4, <2>5 DEF Proceeds
<1>5. q \in Seq(Primitives)
  BY <1>1, ProgramItems DEF Proceeds, Flow
<1>6. /\ pc' \in [Threads -> Labels] /\ op' \in [Threads -> Ops]
      /\ msg' \in [Threads -> Messages \cup {NoMessage}] /\ outcome' \in [Threads -> Outcomes]
      /\ todo' \in [Threads -> Seq(Primitives)] /\ index' \in [Threads -> Slots \cup {NoSlot}]
  BY <1>0, <1>1, <1>5 DEF Proceeds, Moves, TypeInv, TypeOK, CallTypeOK
<1>7. SharedTypes' /\ passed' \subseteq {s \in Threads : Unadvanced(s)'}
  BY StepShared, PassedKept
<1>8. TypeInv'
  BY <1>6, <1>7 DEF SharedTypes, TypeInv, TypeOK, CallTypeOK
<1>9. QED
  BY <1>3, <1>4, <1>7, <1>8, AttemptsKept DEF BaseInv, SharedTypes

LEMMA BaseInit == Init => BaseInv
<1> SUFFICES ASSUME Init PROVE BaseInv
  OBVIOUS
<1>1. /\ pc = [t \in Threads |-> "idle"] /\ op = [t \in Threads |-> "none"]
      /\ msg = [t \in Threads |-> NoMessage] /\ outcome = [t \in Threads |-> "none"]
      /\ todo = [t \in Threads |-> <<>>] /\ index = [t \in Threads |-> NoSlot]
      /\ mutex = NoThread /\ passed = {} /\ alone = {} /\ overwriteMode = FALSE /\ attempts = 0
  BY DEF Init, CallInit, SyncInit
<1>2. TypeInv
  <2>1. CallTypeOK(Labels)
    BY DEF Init, CallInit, CallTypeOK, Labels, Roles, Ops, Outcomes
  <2>2. RingTypeOK
    BY SlotsIn, CountIn DEF Init, RingInit, RingTypeOK
  <2>3. todo \in [Threads -> Seq(Primitives)] /\ index \in [Threads -> Slots \cup {NoSlot}]
    BY <1>1
  <2>4. /\ free \in Nat /\ occupied \in Nat /\ writeSeq \in Slots /\ readSeq \in Slots
        /\ expected \in Slots /\ attempts \in 0..DropAttempts /\ broken \in BOOLEAN
    <3>1. /\ free = Capacity /\ occupied = 0 /\ writeSeq = 0 /\ readSeq = 0 /\ expected = 0
          /\ broken = FALSE
      BY DEF Init, SyncInit
    <3>2. 0 \in 0..DropAttempts
      BY AttemptsAssumption
    <3>3. QED
      BY <1>1, <3>1, <3>2, SlotsIn, CapacityAssumption
  <2>5. QED
    BY <1>1, <2>1, <2>2, <2>3, <2>4 DEF TypeInv, TypeOK
<1>3. \A t \in Threads : FlowInv(t)
  BY <1>1, EmptyProgram DEF FlowInv, Flow, SendOps, ReadOps, WriteLabels, ReadLabels, Decided
<1>4. \A t \in Threads : ~Locked(t) /\ mutex # t
  BY <1>1, ThreadsAssumption DEF Locked, LockedAt, LockOps, SendOps, ReadOps
<1>5. QED
  BY <1>1, <1>2, <1>3, <1>4 DEF BaseInv

LEMMA Stepping == [Next]_vars <=> (\E t \in Threads : Step(t)) \/ UNCHANGED vars
  BY DEF Next, Step, Stopped

LEMMA BaseStays ==
  ASSUME BaseInv, UNCHANGED vars
  PROVE  BaseInv'
  BY DEF BaseInv, TypeInv, TypeOK, CallTypeOK, RingTypeOK, FlowInv, Locked, Unadvanced, vars,
     queueVars, callVars, syncVars, ringVars, dropVars

(* Every variable has its type: the slots stay slots, the counters         *)
(* counters, and a sender tries DropAttempts times at most to drop.        *)
THEOREM TypeCorrect == Spec => []TypeOK
<1>1. BaseInv /\ [Next]_vars => BaseInv'
  BY BaseStep, BaseStays, Stepping
<1>2. BaseInv => TypeOK
  BY DEF BaseInv, TypeInv
<1>3. QED
  BY <1>1, <1>2, BaseInit, PTL DEF Spec

-----------------------------------------------------------------------------
(* Counting threads: what a step of one thread does to a sum.              *)
One(p) == IF p THEN 1 ELSE 0

LEMMA SetMoves ==
  ASSUME NEW S, IsFiniteSet(S), NEW T, NEW t, \A x : x # t => (x \in T <=> x \in S)
  PROVE  Cardinality(T) = Cardinality(S) + One(t \in T) - One(t \in S)
<1>0. Cardinality(S) \in Nat
  BY FS_CardinalityType
<1>1. CASE t \in S <=> t \in T
  <2>1. S = T
    BY <1>1
  <2>2. QED
    BY <1>0, <1>1, <2>1 DEF One
<1>2. CASE t \notin S /\ t \in T
  <2>1. T = S \cup {t}
    BY <1>2
  <2>2. QED
    BY <1>0, <1>2, <2>1, FS_AddElement DEF One
<1>3. CASE t \in S /\ t \notin T
  <2>1. T = S \ {t}
    BY <1>3
  <2>2. QED
    BY <1>0, <1>3, <2>1, FS_RemoveElement DEF One
<1>4. QED
  BY <1>1, <1>2, <1>3

LEMMA SetsFinite ==
  /\ RingCredits \subseteq Threads /\ Cardinality(RingCredits) \in 0..Cardinality(Threads)
  /\ Making \subseteq Threads /\ Cardinality(Making) \in 0..Cardinality(Threads)
  /\ Downs \subseteq Threads /\ Cardinality(Downs) \in 0..Cardinality(Threads)
  /\ Ups \subseteq Threads /\ Cardinality(Ups) \in 0..Cardinality(Threads)
  /\ \A S \in SUBSET Threads : IsFiniteSet(S)
  /\ Cardinality(Threads) \in Nat
<1>1. IsFiniteSet(Threads) /\ Cardinality(Threads) \in Nat
  BY ThreadsAssumption, FS_CardinalityType
<1>2. \A S \in SUBSET Threads : IsFiniteSet(S) /\ Cardinality(S) \in 0..Cardinality(Threads)
  BY <1>1, FS_Subset, FS_CardinalityType
<1>3. RingCredits \subseteq Threads /\ Making \subseteq Threads /\ Downs \subseteq Threads
      /\ Ups \subseteq Threads
  BY DEF RingCredits, Making, Downs, Ups
<1>4. QED
  BY <1>1, <1>2, <1>3

(* What a thread stands for in Stored and in Counted.                      *)
Weight(t) == One(InRing(t)) - One(t \in Making)
Lag(t) == One(t \in Downs) - One(t \in Ups)

Others(t) ==
  \A s \in Threads \ {t} :
    /\ pc'[s] = pc[s] /\ op'[s] = op[s] /\ msg'[s] = msg[s] /\ outcome'[s] = outcome[s]
    /\ todo'[s] = todo[s] /\ index'[s] = index[s]

LEMMA TalliesMove ==
  ASSUME NEW t \in Threads, Others(t), occupied \in Nat, occupied' \in Nat
  PROVE  /\ Stored \in Int /\ Counted \in Int
         /\ Stored' = Stored + (occupied' - occupied) + (Weight(t)' - Weight(t))
         /\ Counted' = Counted + (Stored' - Stored) + (Lag(t)' - Lag(t))
         /\ \A s : s # t => (s \in Making' <=> s \in Making)
<1>1. \A s : s # t => /\ s \in RingCredits' <=> s \in RingCredits
                      /\ s \in Making' <=> s \in Making
                      /\ s \in Downs' <=> s \in Downs
                      /\ s \in Ups' <=> s \in Ups
  BY DEF Others, RingCredits, InRing, Making, Downs, Ups
<1>2. (t \in RingCredits <=> InRing(t)) /\ (t \in RingCredits' <=> InRing(t)')
  BY DEF RingCredits
<1> DEFINE r == Cardinality(RingCredits)
           m == Cardinality(Making)
           d == Cardinality(Downs)
           u == Cardinality(Ups)
<1>3. r \in Nat /\ m \in Nat /\ d \in Nat /\ u \in Nat
  BY SetsFinite
<1>4. /\ IsFiniteSet(RingCredits) /\ IsFiniteSet(Making) /\ IsFiniteSet(Downs)
      /\ IsFiniteSet(Ups)
  BY SetsFinite
<1>5. r' = r + One(InRing(t)') - One(InRing(t))
  <2>1. r' = r + One(t \in RingCredits') - One(t \in RingCredits)
    BY <1>1, <1>4, SetMoves
  <2>2. QED
    BY <1>2, <2>1 DEF One
<1>6. m' = m + One(t \in Making') - One(t \in Making)
  BY <1>1, <1>4, SetMoves
<1>7. d' = d + One(t \in Downs') - One(t \in Downs)
  BY <1>1, <1>4, SetMoves
<1>8. u' = u + One(t \in Ups') - One(t \in Ups)
  BY <1>1, <1>4, SetMoves
<1>9. /\ Stored = occupied + r - m /\ Stored' = occupied' + r' - m'
      /\ Counted = Stored + d - u /\ Counted' = Stored' + d' - u'
  BY DEF Stored, Counted
<1>10. \A p : One(p) \in {0, 1}
  BY DEF One
<1> HIDE DEF r, m, d, u
<1>11. /\ Weight(t) = One(InRing(t)) - One(t \in Making)
       /\ Weight(t)' = One(InRing(t)') - One(t \in Making')
       /\ Lag(t) = One(t \in Downs) - One(t \in Ups)
       /\ Lag(t)' = One(t \in Downs') - One(t \in Ups')
  BY DEF Weight, Lag
<1>12. Stored \in Int /\ Counted \in Int
  BY <1>3, <1>9
<1>13. Stored' = Stored + (occupied' - occupied) + (Weight(t)' - Weight(t))
  BY <1>3, <1>5, <1>6, <1>9, <1>10, <1>11
<1>14. Counted' = Counted + (Stored' - Stored) + (Lag(t)' - Lag(t))
  <2>1. Stored' \in Int
    <3>1. r' \in Int /\ m' \in Int
      BY <1>3, <1>5, <1>6, <1>10
    <3>2. QED
      BY <1>9, <3>1
  <2>2. QED
    BY <1>3, <1>7, <1>8, <1>9, <1>10, <1>11, <1>12, <2>1
<1>15. QED
  BY <1>1, <1>12, <1>13, <1>14

(* The credit of a thread, by its label.                                   *)
LEMMA CreditAt ==
  ASSUME NEW o \in Ops, NEW l, NEW q \in Programs(o, l), l \in ReadLabels => o \in ReadOps
  PROVE  Credit(l, o, q) <=> IF l \in ReadLabels THEN ~Wants(q)
                             ELSE l \in {"countUp", "return"} /\ Publishes(q)
  BY ProgramItems DEF Credit, ReadLabels

LEMMA WeightAt ==
  ASSUME BaseInv, NEW t \in Threads
  PROVE  /\ InRing(t) <=> IF pc[t] \in ReadLabels THEN ~Wants(todo[t])
                          ELSE pc[t] \in {"countUp", "return"} /\ Publishes(todo[t])
         /\ t \in Making <=> pc[t] \in {"dropCount", "storeOver"}
         /\ t \in Downs <=> pc[t] \in {"countDown", "dropCount"}
         /\ t \in Ups <=> pc[t] = "countUp"
<1>1. op[t] \in Ops /\ FlowInv(t)
  BY HereTyped DEF BaseInv
<1>2. todo[t] \in Programs(op[t], pc[t]) /\ (pc[t] \in ReadLabels => op[t] \in ReadOps)
  BY <1>1 DEF FlowInv, Flow
<1>3. QED
  BY <1>1, <1>2, CreditAt DEF InRing, Making, Downs, Ups

LEMMA WeightThen ==
  ASSUME BaseInv', NEW t \in Threads
  PROVE  /\ InRing(t)' <=> IF pc'[t] \in ReadLabels THEN ~Wants(todo'[t])
                           ELSE pc'[t] \in {"countUp", "return"} /\ Publishes(todo'[t])
         /\ t \in Making' <=> pc'[t] \in {"dropCount", "storeOver"}
         /\ t \in Downs' <=> pc'[t] \in {"countDown", "dropCount"}
         /\ t \in Ups' <=> pc'[t] = "countUp"
<1>1. op'[t] \in Ops /\ FlowInv(t)'
  BY DEF BaseInv, TypeInv, TypeOK, CallTypeOK
<1>2. todo'[t] \in Programs(op'[t], pc'[t]) /\ (pc'[t] \in ReadLabels => op'[t] \in ReadOps)
  BY <1>1 DEF FlowInv, Flow
<1>3. QED
  BY <1>1, <1>2, CreditAt DEF InRing, Making, Downs, Ups

(* The kinds of steps, by what they do to the ring and to its readers.     *)
CountsAlong ==
  \/ count' = count /\ Counted' = Counted
  \/ count' = (count + 1) % CountModulus /\ Counted' = Counted + 1
  \/ count' = (count - 1) % CountModulus /\ Counted' = Counted - 1

SameCall(t) == op'[t] = op[t] /\ msg'[t] = msg[t] /\ outcome'[t] = outcome[t]

Quiet(t) ==
  /\ UNCHANGED <<buffer, head, tail>> /\ Stored' = Stored /\ Making' = Making
  /\ ~Unadvanced(t) /\ ~Unadvanced(t)'
  /\ pc'[t] \in {"countUp", "dropCount", "countDown"} => pc'[t] = pc[t]
Loads(t) ==
  /\ UNCHANGED <<buffer, head, tail>> /\ Stored' = Stored /\ Making' = Making
  /\ pc[t] \in {"take", "advance"} /\ pc'[t] = "move" /\ index'[t] = head /\ SameCall(t)
  /\ pc[t] = "advance" => head # index[t] \/ CasMayFail
MovesOut(t) ==
  /\ UNCHANGED <<head, tail>> /\ Stored' = Stored /\ Making' = Making
  /\ pc[t] = "move" /\ pc'[t] = "advance" /\ index'[t] = index[t]
  /\ op'[t] = op[t] /\ outcome'[t] = outcome[t]
  /\ msg'[t] = buffer[index[t]] /\ buffer' = [buffer EXCEPT ![index[t]] = NoMessage]
Stores(t) ==
  /\ head' = head /\ tail' = Succ(tail) /\ Stored' = Stored + 1 /\ Making' = Making \ {t}
  /\ pc[t] \in {"store", "storeOver"} /\ pc'[t] = "countUp"
  /\ msg[t] \in Messages /\ buffer' = [buffer EXCEPT ![tail] = msg[t]]
  /\ op'[t] = op[t] /\ msg'[t] = NoMessage /\ outcome'[t] = "returned"
Discards(t) ==
  /\ UNCHANGED <<buffer, tail>> /\ Stored' = Stored - 1 /\ Making' = Making \cup {t}
  /\ pc[t] = "dropHead" /\ pc'[t] = "dropCount" /\ head = expected /\ head' = Succ(head)
  /\ SameCall(t)
Takes(t) ==
  /\ UNCHANGED <<buffer, tail>> /\ Stored' = Stored - 1 /\ Making' = Making
  /\ pc[t] = "advance" /\ pc'[t] = "countDown" /\ head = index[t] /\ head' = Succ(head)
  /\ op'[t] = op[t] /\ msg'[t] = msg[t] /\ outcome'[t] = "returned"

RingEffect(t) ==
  /\ Quiet(t) \/ Loads(t) \/ MovesOut(t) \/ Stores(t) \/ Discards(t) \/ Takes(t)
  /\ CountsAlong

LEMMA StepOthers ==
  ASSUME BaseInv, NEW t \in Threads, Step(t)
  PROVE  Others(t)
<1>1. TypeInv
  BY DEF BaseInv
<1>2. PICK l, o, m, how, q, i : Moves(t, l, o, m, how, q, i)
  BY StepProceeds DEF Proceeds
<1>3. QED
  BY <1>1, <1>2, MovedThread DEF Others

LEMMA LedgerOf ==
  ASSUME BaseInv, BaseInv', NEW t \in Threads, Others(t)
  PROVE  /\ occupied \in Nat /\ occupied' \in Nat /\ Stored \in Int /\ Counted \in Int
         /\ \A d, k \in {-1, 0, 1} :
              Weight(t)' = Weight(t) + d /\ Lag(t)' = Lag(t) + k =>
                /\ occupied' = occupied => Stored' = Stored + d /\ Counted' = Counted + d + k
                /\ occupied' = occupied - d => Stored' = Stored /\ Counted' = Counted + k
<1>1. occupied \in Nat /\ occupied' \in Nat
  BY DEF BaseInv, TypeInv, TypeOK
<1>2. \A p : One(p) \in {0, 1}
  BY DEF One
<1>3. Weight(t) \in {-1, 0, 1} /\ Lag(t) \in {-1, 0, 1}
  BY <1>2 DEF Weight, Lag
<1>4. /\ Stored \in Int /\ Counted \in Int
      /\ Stored' = Stored + (occupied' - occupied) + (Weight(t)' - Weight(t))
      /\ Counted' = Counted + (Stored' - Stored) + (Lag(t)' - Lag(t))
  BY <1>1, TalliesMove
<1>5. ASSUME NEW d \in {-1, 0, 1}, NEW k \in {-1, 0, 1},
             Weight(t)' = Weight(t) + d, Lag(t)' = Lag(t) + k
      PROVE  /\ occupied' = occupied => Stored' = Stored + d /\ Counted' = Counted + d + k
             /\ occupied' = occupied - d => Stored' = Stored /\ Counted' = Counted + k
  <2>1. Weight(t)' - Weight(t) = d /\ Lag(t)' - Lag(t) = k
    BY <1>3, <1>5
  <2>2. ASSUME occupied' = occupied PROVE Stored' = Stored + d /\ Counted' = Counted + d + k
    <3>1. occupied' - occupied = 0
      BY <1>1, <2>2
    <3>2. Stored' = Stored + d
      BY <1>4, <2>1, <3>1
    <3>3. Stored' - Stored = d
      BY <1>4, <3>2
    <3>4. QED
      BY <1>4, <2>1, <3>2, <3>3
  <2>3. ASSUME occupied' = occupied - d PROVE Stored' = Stored /\ Counted' = Counted + k
    <3>1. occupied' - occupied = -d
      BY <1>1, <2>3
    <3>2. Stored' = Stored
      BY <1>4, <2>1, <3>1
    <3>3. Stored' - Stored = 0
      BY <1>4, <3>2
    <3>4. QED
      BY <1>4, <2>1, <3>3
  <2>4. QED
    BY <2>2, <2>3
<1>6. QED
  BY <1>1, <1>4, <1>5

(* A step that only hands a credit over, or none.                          *)
LEMMA QuietOf ==
  ASSUME BaseInv, BaseInv', NEW t \in Threads, Others(t), UNCHANGED <<buffer, head, tail, count>>,
         \/ occupied' = occupied /\ (InRing(t)' <=> InRing(t))
         \/ occupied' = occupied - 1 /\ ~InRing(t) /\ InRing(t)'
         \/ occupied' = occupied + 1 /\ InRing(t) /\ ~InRing(t)',
         t \notin Making, t \notin Making',
         t \in Downs' <=> t \in Downs, t \in Ups' <=> t \in Ups,
         ~Unadvanced(t), ~Unadvanced(t)'
  PROVE  RingEffect(t)
<1>1. One(t \in Making) = 0 /\ One(t \in Making') = 0 /\ Lag(t)' = Lag(t) + 0
  BY DEF One, Lag
<1>2. One(InRing(t)) = (IF InRing(t) THEN 1 ELSE 0) /\ One(InRing(t))' = IF InRing(t)' THEN 1 ELSE 0
  BY DEF One
<1>3. \E d \in {-1, 0, 1} : Weight(t)' = Weight(t) + d /\ occupied' = occupied - d
  <2>0. occupied \in Nat
    BY LedgerOf
  <2>1. CASE occupied' = occupied /\ (InRing(t)' <=> InRing(t))
    <3>1. Weight(t)' = Weight(t) + 0 /\ occupied' = occupied - 0
      BY <1>1, <1>2, <2>0, <2>1 DEF Weight
    <3>2. QED
      BY <3>1
  <2>2. CASE occupied' = occupied - 1 /\ ~InRing(t) /\ InRing(t)'
    <3>1. Weight(t)' = Weight(t) + 1 /\ occupied' = occupied - 1
      BY <1>1, <1>2, <2>2 DEF Weight
    <3>2. QED
      BY <3>1
  <2>3. CASE occupied' = occupied + 1 /\ InRing(t) /\ ~InRing(t)'
    <3>1. Weight(t)' = Weight(t) + (-1) /\ occupied' = occupied - (-1)
      BY <1>1, <1>2, <2>0, <2>3 DEF Weight
    <3>2. QED
      BY <3>1
  <2>4. QED
    BY <2>1, <2>2, <2>3
<1>4. Stored' = Stored /\ Counted' = Counted + 0 /\ Stored \in Int /\ Counted \in Int
  BY <1>1, <1>3, LedgerOf
<1>5. Making' = Making
  <2>1. \A s : s \in Making' <=> s \in Making
    BY LedgerOf, TalliesMove
  <2>2. QED
    BY <2>1
<1>6. pc'[t] \in {"countUp", "dropCount", "countDown"} => pc'[t] = pc[t]
  BY WeightAt, WeightThen
<1>7. QED
  BY <1>4, <1>5, <1>6 DEF RingEffect, Quiet, CountsAlong

LEMMA PrimitiveRing ==
  ASSUME BaseInv, BaseInv', NEW t \in Threads, Others(t), PrimitiveStep(t) \/ ModeSet(t),
         UNCHANGED ringVars
  PROVE  RingEffect(t)
<1> DEFINE h == Head(todo[t])
           rest == Tail(todo[t])
<1>0. TypeInv /\ FlowInv(t) /\ occupied \in Nat
  BY DEF BaseInv, TypeInv, TypeOK
<1>1. todo[t] # <<>> /\ Row(op[t], pc[t], h, todo[t], rest)
  BY <1>0, NextPrimitive DEF PrimitiveStep, ModeSet, Quietly, Primitive, GivesUp
<1> HIDE DEF h, rest
<1>2. /\ pc[t] \in {"overflow", "countUp", "tryEmpty", "take", "return"}
      /\ op[t] \in Ops /\ todo[t] \in Programs(op[t], pc[t])
  BY <1>0, <1>1, HereTyped, ProgramItems DEF FlowInv, Flow
<1>3. UNCHANGED <<buffer, head, tail, count>>
  BY DEF ringVars
<1>4. t \notin Making /\ t \notin Downs /\ ~Unadvanced(t)
  BY <1>2, WeightAt DEF Unadvanced
<1>5. CASE pc'[t] = pc[t] /\ todo'[t] = rest /\ UNCHANGED op
  <2>1. t \notin Making' /\ t \notin Downs' /\ (t \in Ups' <=> t \in Ups) /\ ~Unadvanced(t)'
    BY <1>2, <1>5, WeightAt, WeightThen DEF Unadvanced
  <2>2. CASE h \in OccupiedAcquires /\ occupied' = occupied - 1
    <3>1. ~InRing(t)
      BY <1>1, <2>2, WeightAt DEF Row, Wants, OccupiedAcquires, ReadLabels
    <3>2. InRing(t)'
      BY <1>1, <1>5, <2>2, WeightThen DEF Row, ReadLabels
    <3>3. QED
      BY <1>0, <1>3, <1>4, <2>1, <2>2, <3>1, <3>2, QuietOf DEF One
  <2>3. CASE h = "occupied.release" /\ occupied' = occupied + 1
    <3>1. InRing(t)
      BY <1>1, <2>3, WeightAt DEF Row, Publishes, ReadLabels
    <3>2. ~InRing(t)'
      BY <1>1, <1>5, <2>3, WeightThen DEF Row, ReadLabels
    <3>3. QED
      BY <1>0, <1>3, <1>4, <2>1, <2>3, <3>1, <3>2, QuietOf DEF One
  <2>4. CASE h \notin OccupiedAcquires \cup {"occupied.release"} /\ occupied' = occupied
    <3>1. (Wants(rest) <=> Wants(todo[t])) /\ (Publishes(rest) <=> Publishes(todo[t]))
      BY <1>1, <2>4 DEF Row, Wants, Publishes, OccupiedAcquires
    <3>2. InRing(t)' <=> InRing(t)
      BY <1>5, <3>1, WeightAt, WeightThen
    <3>3. QED
      BY <1>0, <1>3, <1>4, <2>1, <2>4, <3>2, QuietOf DEF One
  <2>5. \/ h \in OccupiedAcquires /\ occupied' = occupied - 1
        \/ h = "occupied.release" /\ occupied' = occupied + 1
        \/ h \notin OccupiedAcquires \cup {"occupied.release"} /\ occupied' = occupied
        \/ GivesUp(t)
    BY DEF PrimitiveStep, ModeSet, Quietly, Primitive, OccupiedAcquires, Locks, h, semaphores
  <2>6. CASE GivesUp(t)
    <3>1. pc'[t] = "return" /\ h \in {"occupied.try_acquire", "mutex.try_lock"}
      BY <1>0, <2>6, MovedThread DEF GivesUp, h
    <3>2. pc[t] # "return"
      BY <1>1, <3>1 DEF Row, OccupiedAcquires, Locks
    <3>3. QED
      BY <1>5, <3>1, <3>2
  <2>7. QED
    BY <2>2, <2>3, <2>4, <2>5, <2>6
<1>6. CASE GivesUp(t) /\ occupied' = occupied
  <2>1. /\ pc'[t] = "return" /\ todo'[t] = Abandoned(t)
        /\ h \in {"occupied.try_acquire", "mutex.try_lock"}
    BY <1>0, <1>6, MovedThread DEF GivesUp, h
  <2>2. pc[t] \in {"overflow", "tryEmpty", "take"}
    BY <1>1, <2>1 DEF Row, OccupiedAcquires, Locks
  <2>3. ~InRing(t)
    <3>1. pc[t] \in ReadLabels => Wants(todo[t])
      BY <1>1, <2>1, <2>2 DEF Row, OccupiedAcquires, Locks, Wants, ReadLabels
    <3>2. QED
      BY <2>2, <3>1, WeightAt
  <2>4. ~Publishes(Abandoned(t))
    BY ReadPrograms, EmptyProgram DEF Abandoned, ReadOps
  <2>5. ~InRing(t)'
    BY <2>1, <2>4, WeightThen DEF ReadLabels
  <2>6. t \notin Making' /\ t \notin Downs' /\ t \notin Ups' /\ t \notin Ups /\ ~Unadvanced(t)'
    BY <2>1, <2>2, WeightAt, WeightThen DEF Unadvanced
  <2>7. QED
    BY <1>0, <1>3, <1>4, <1>6, <2>3, <2>5, <2>6, QuietOf DEF One
<1>7. \/ pc'[t] = pc[t] /\ todo'[t] = rest /\ UNCHANGED op
      \/ GivesUp(t) /\ occupied' = occupied
  <2>1. ASSUME NEW a, Primitive(t, a) PROVE pc'[t] = pc[t] /\ todo'[t] = rest /\ UNCHANGED op
    <3>1. Moves(t, pc[t], op[t], msg[t], outcome[t], rest, index[t])
      BY <2>1 DEF Primitive, Performs, rest
    <3>2. UNCHANGED op
      BY <1>0, <3>1, Unmoved DEF Moves
    <3>3. QED
      BY <1>0, <3>1, <3>2, MovedThread
  <2>2. ASSUME Moves(t, pc[t], op[t], msg[t], outcome[t], Tail(todo[t]), readSeq)
        PROVE  pc'[t] = pc[t] /\ todo'[t] = rest /\ UNCHANGED op
    <3>1. Moves(t, pc[t], op[t], msg[t], outcome[t], rest, readSeq)
      BY <2>2 DEF rest
    <3>2. UNCHANGED op
      BY <1>0, <3>1, Unmoved DEF Moves
    <3>3. QED
      BY <1>0, <3>1, <3>2, MovedThread
  <2>3. QED
    BY <2>1, <2>2 DEF PrimitiveStep, ModeSet, Quietly
<1>8. QED
  BY <1>5, <1>6, <1>7

(* A step between labels that touch neither the ring nor a count.          *)
LEMMA QuietAt ==
  ASSUME BaseInv, BaseInv', NEW t \in Threads, Others(t),
         UNCHANGED <<buffer, head, tail, count, occupied>>,
         InRing(t)' <=> InRing(t),
         {pc[t], pc'[t]} \cap {"dropCount", "storeOver", "countDown", "countUp", "move", "advance"} = {}
  PROVE  RingEffect(t)
  BY QuietOf, WeightAt, WeightThen DEF Unadvanced

LEMMA EnterRing ==
  ASSUME BaseInv, BaseInv', NEW t \in Threads, Others(t), Enters(t)
  PROVE  RingEffect(t)
<1>0. TypeInv /\ FlowInv(t)
  BY DEF BaseInv
<1>1. pc[t] = "idle" /\ todo[t] = <<>>
  BY <1>0, EnterMoves, HereTyped, ProgramItems DEF FlowInv, Flow
<1>2. \E o, m : EntersAs(t, o, m)
  BY <1>0, EnterMoves
<1>3. pc'[t] \in {"check", "return", "close"} /\ todo'[t] = <<>>
  BY <1>0, <1>1, <1>2, MovedThread DEF EntersAs
<1>4. ~InRing(t) /\ ~InRing(t)'
  BY <1>1, <1>3, WeightAt, WeightThen, EmptyProgram DEF ReadLabels
<1>5. UNCHANGED <<buffer, head, tail, count, occupied>>
  BY DEF Enters, Call, ringVars, syncVars
<1>6. QED
  BY <1>1, <1>3, <1>4, <1>5, QuietAt

LEMMA ControlRing ==
  ASSUME BaseInv, BaseInv', NEW t \in Threads, Others(t), ControlStep(t),
         UNCHANGED <<semaphores, ringVars>>
  PROVE  RingEffect(t)
<1>0. TypeInv /\ FlowInv(t) /\ op[t] \in Ops
  BY HereTyped DEF BaseInv
<1>1. UNCHANGED <<buffer, head, tail, count, occupied>>
  BY DEF ringVars, semaphores
<1>2. todo[t] \in Programs(op[t], pc[t])
  BY <1>0 DEF FlowInv, Flow
<1>3. CASE Checked(t)
  <2>1. pc[t] = "check" /\ pc'[t] \in {"sync", "return"} /\ todo'[t] = todo[t] /\ todo[t] = <<>>
    <3>1. \E how : Moves(t, "sync", op[t], msg[t], how, todo[t], index[t])
                   \/ Moves(t, "return", op[t], msg[t], how, todo[t], index[t])
      BY <1>3 DEF Checked, Goes
    <3>2. pc'[t] \in {"sync", "return"} /\ todo'[t] = todo[t]
      BY <1>0, <3>1, MovedThread
    <3>3. QED
      BY <1>0, <1>2, <1>3, <3>2, ProgramItems DEF Checked
  <2>2. ~InRing(t) /\ ~InRing(t)'
    BY <2>1, WeightAt, WeightThen, EmptyProgram DEF ReadLabels
  <2>3. QED
    BY <1>1, <2>1, <2>2, QuietAt
<1>4. CASE Preworked(t)
  <2>1. ASSUME op[t] \in SendOps, Performs(t, "overflow", OverwriteSync[op[t]])
        PROVE  RingEffect(t)
    <3>1. Moves(t, "overflow", op[t], msg[t], outcome[t], OverwriteSync[op[t]], index[t])
      BY <2>1 DEF Performs
    <3>2. pc'[t] = "overflow"
      BY <1>0, <3>1, MovedThread
    <3>3. pc[t] = "sync"
      BY <1>4 DEF Preworked
    <3>4. ~InRing(t) /\ ~InRing(t)'
      BY <3>2, <3>3, WeightAt, WeightThen DEF ReadLabels
    <3>5. QED
      BY <1>1, <3>2, <3>3, <3>4, QuietAt
  <2>2. ASSUME op[t] \in ReadOps, NEW l \in {"take", "tryEmpty"},
               Performs(t, l, AcquireRead(op[t]))
        PROVE  RingEffect(t)
    <3>1. Moves(t, l, op[t], msg[t], outcome[t], AcquireRead(op[t]), index[t])
      BY <2>2 DEF Performs
    <3>2. pc'[t] = l /\ todo'[t] = AcquireRead(op[t])
      BY <1>0, <3>1, MovedThread
    <3>3. pc[t] = "sync"
      BY <1>4 DEF Preworked
    <3>4. Wants(AcquireRead(op[t]))
      BY <2>2, ReadPrograms DEF AcquireRead
    <3>5. ~InRing(t) /\ ~InRing(t)'
      BY <3>2, <3>3, <3>4, WeightAt, WeightThen DEF ReadLabels
    <3>6. QED
      BY <1>1, <3>2, <3>3, <3>5, QuietAt
  <2>3. QED
    BY <1>4, <2>1, <2>2 DEF Preworked
<1>5. CASE Overflowed(t) \/ Tested(t)
  <2>1. PICK l \in {"dropLoad", "store", "dropHead"} : Goes(t, l)
    BY <1>5 DEF Overflowed, Tested
  <2>2. Moves(t, l, op[t], msg[t], outcome[t], todo[t], index[t])
    BY <2>1 DEF Goes
  <2>3. pc'[t] = l /\ pc[t] \in {"overflow", "dropTest"}
    BY <1>0, <1>5, <2>2, MovedThread DEF Overflowed, Tested
  <2>4. ~InRing(t) /\ ~InRing(t)'
    BY <2>3, WeightAt, WeightThen DEF ReadLabels
  <2>5. QED
    BY <1>1, <2>3, <2>4, QuietAt
<1>6. CASE Asked(t)
  <2>1. pc[t] = "tryEmpty" /\ todo[t] = <<>> /\ op[t] \in ReadOps
    BY <1>0, <1>6 DEF Asked, FlowInv, Flow, ReadLabels
  <2>2. InRing(t)
    BY <2>1, WeightAt, EmptyProgram DEF ReadLabels
  <2>3. \/ pc'[t] = "take" /\ todo'[t] = <<>>
        \/ pc'[t] = "return" /\ todo'[t] = Sync.cancelRead
    <3>1. \/ Moves(t, "return", op[t], msg[t], "false", Sync.cancelRead, index[t])
          \/ Moves(t, "take", op[t], msg[t], outcome[t], <<>>, index[t])
      BY <1>6, <2>1 DEF Asked, Goes
    <3>2. QED
      BY <1>0, <3>1, MovedThread
  <2>4. InRing(t)'
    BY <2>1, <2>3, ReadPrograms, WeightThen, EmptyProgram DEF ReadLabels
  <2>5. QED
    BY <1>1, <2>1, <2>2, <2>3, <2>4, QuietAt
<1>7. CASE Returned(t)
  <2>1. pc[t] = "return" /\ todo[t] = <<>> /\ pc'[t] = "idle"
    BY <1>0, <1>7, MovedThread DEF Returned
  <2>2. ~InRing(t) /\ ~InRing(t)'
    BY <2>1, WeightAt, WeightThen, EmptyProgram DEF ReadLabels
  <2>3. QED
    BY <1>1, <2>1, <2>2, QuietAt
<1>8. CASE Loaded(t)
  <2>1. /\ pc[t] = "take" /\ todo[t] = <<>> /\ pc'[t] = "move" /\ todo'[t] = <<>>
        /\ index'[t] = head /\ SameCall(t)
    BY <1>0, <1>8, MovedThread DEF Loaded, SameCall
  <2>2. InRing(t) /\ InRing(t)'
    BY <2>1, WeightAt, WeightThen, EmptyProgram DEF ReadLabels
  <2>3. t \notin Making /\ t \notin Making' /\ Lag(t)' = Lag(t) + 0
    BY <2>1, WeightAt, WeightThen DEF Lag, One
  <2>4. Weight(t)' = Weight(t) + 0
    BY <2>2, <2>3 DEF Weight, One
  <2>5. Stored' = Stored + 0 /\ Counted' = Counted + 0 + 0 /\ Stored \in Int /\ Counted \in Int
    BY <1>1, <2>3, <2>4, LedgerOf
  <2>6. Making' = Making
    BY <2>3, LedgerOf, TalliesMove
  <2>7. QED
    BY <1>1, <2>1, <2>5, <2>6 DEF RingEffect, Loads, CountsAlong
<1>9. QED
  BY <1>3, <1>4, <1>5, <1>6, <1>7, <1>8 DEF ControlStep

(* What a step between two labels adds to Stored and to Counted.           *)
LEMMA Reckoned ==
  ASSUME BaseInv, BaseInv', NEW t \in Threads, Others(t), UNCHANGED occupied,
         NEW d \in {-1, 0, 1}, NEW k \in {-1, 0, 1},
         Weight(t)' = Weight(t) + d, Lag(t)' = Lag(t) + k
  PROVE  /\ Stored' = Stored + d /\ Counted' = Counted + d + k
         /\ Stored \in Int /\ Counted \in Int
         /\ (t \in Making' <=> t \in Making) => Making' = Making
         /\ t \in Making' => Making' = Making \cup {t}
         /\ t \notin Making' => Making' = Making \ {t}
<1>1. \A s : s # t => (s \in Making' <=> s \in Making)
  BY LedgerOf, TalliesMove
<1>2. ASSUME t \in Making' <=> t \in Making PROVE Making' = Making
  <2>1. \A s : s \in Making' <=> s \in Making
    BY <1>1, <1>2
  <2>2. QED
    BY <2>1
<1>3. ASSUME t \in Making' PROVE Making' = Making \cup {t}
  <2>1. \A s : s \in Making' <=> s \in Making \cup {t}
    BY <1>1, <1>3
  <2>2. QED
    BY <2>1
<1>4. ASSUME t \notin Making' PROVE Making' = Making \ {t}
  <2>1. \A s : s \in Making' <=> s \in Making \ {t}
    BY <1>1, <1>4
  <2>2. QED
    BY <2>1
<1>5. QED
  BY <1>2, <1>3, <1>4, LedgerOf

LEMMA RingRing ==
  ASSUME BaseInv, BaseInv', NEW t \in Threads, Others(t), RingStep(t),
         ~cleared', pc[t] = "take" => index[t] = NoSlot \/ todo[t] # <<>>
  PROVE  RingEffect(t)
<1>0. TypeInv /\ FlowInv(t) /\ op[t] \in Ops
  BY HereTyped DEF BaseInv
<1>1. todo[t] \in Programs(op[t], pc[t])
  BY <1>0 DEF FlowInv, Flow
<1>2. CASE ModeSet(t)
  BY <1>2, PrimitiveRing DEF ModeSet
<1>3. CASE DropLoaded(t) \/ DropFailed(t)
  <2>1. Goes(t, "dropTest") /\ pc[t] \in {"dropLoad", "dropHead"}
        /\ UNCHANGED <<buffer, head, tail, count, occupied>>
    BY <1>3 DEF DropLoaded, DropFailed, semaphores, ringVars
  <2>2. Moves(t, "dropTest", op[t], msg[t], outcome[t], todo[t], index[t])
    BY <2>1 DEF Goes
  <2>3. pc'[t] = "dropTest"
    BY <1>0, <2>2, MovedThread
  <2>4. ~InRing(t) /\ ~InRing(t)'
    BY <2>1, <2>3, WeightAt, WeightThen DEF ReadLabels
  <2>5. QED
    BY <2>1, <2>3, <2>4, QuietAt
<1>4. CASE CountsDrop(t)
  <2>1. /\ pc[t] = "dropCount" /\ UNCHANGED <<buffer, head, tail, occupied>>
        /\ count' = (count - 1) % CountModulus
        /\ Moves(t, "storeOver", op[t], msg[t], outcome[t], todo[t], index[t])
    BY <1>4 DEF CountsDrop, Goes, semaphores
  <2>2. pc'[t] = "storeOver"
    BY <1>0, <2>1, MovedThread
  <2>3. /\ ~InRing(t) /\ ~InRing(t)' /\ t \in Making /\ t \in Making'
        /\ t \in Downs /\ t \notin Downs' /\ t \notin Ups /\ t \notin Ups'
    BY <2>1, <2>2, WeightAt, WeightThen DEF ReadLabels
  <2>4. Weight(t)' = Weight(t) + 0 /\ Lag(t)' = Lag(t) + (-1)
    BY <2>3 DEF Weight, Lag, One
  <2>5. /\ Stored' = Stored + 0 /\ Counted' = Counted + 0 + (-1) /\ Making' = Making
        /\ Stored \in Int /\ Counted \in Int
    BY <2>1, <2>3, <2>4, Reckoned
  <2>6. QED
    BY <2>1, <2>2, <2>5 DEF RingEffect, Quiet, CountsAlong, Unadvanced
<1>5. ASSUME NEW label \in {"store", "storeOver"}, NEW commit, StoresMessage(t, label, commit),
             label = "store" => Publishes(commit), label = "storeOver" => ~Publishes(commit)
      PROVE  RingEffect(t)
  <2>1. /\ pc[t] = label /\ UNCHANGED <<head, count, occupied>>
        /\ buffer' = [buffer EXCEPT ![tail] = msg[t]] /\ tail' = Succ(tail)
        /\ Moves(t, "countUp", op[t], NoMessage, "returned", commit, index[t])
    BY <1>5 DEF StoresMessage, semaphores
  <2>2. /\ pc'[t] = "countUp" /\ todo'[t] = commit
        /\ op'[t] = op[t] /\ msg'[t] = NoMessage /\ outcome'[t] = "returned"
    BY <1>0, <2>1, MovedThread
  <2>3. msg[t] \in Messages
    BY <1>0, <2>1 DEF FlowInv, Flow, WriteLabels, Decided
  <2>4. /\ ~InRing(t) /\ (InRing(t)' <=> label = "store") /\ (t \in Making <=> label = "storeOver")
        /\ t \notin Making' /\ t \notin Downs /\ t \notin Downs' /\ t \notin Ups /\ t \in Ups'
    BY <1>5, <2>1, <2>2, WeightAt, WeightThen DEF ReadLabels
  <2>5. Weight(t)' = Weight(t) + 1 /\ Lag(t)' = Lag(t) + (-1)
    BY <2>4 DEF Weight, Lag, One
  <2>6. /\ Stored' = Stored + 1 /\ Counted' = Counted + 1 + (-1) /\ Making' = Making \ {t}
        /\ Stored \in Int /\ Counted \in Int
    BY <2>1, <2>4, <2>5, Reckoned
  <2>7. Stores(t)
    BY <2>1, <2>2, <2>3, <2>6 DEF Stores
  <2>8. QED
    BY <2>1, <2>6, <2>7 DEF RingEffect, CountsAlong
<1>6. CASE CountsUp(t)
  <2>1. /\ pc[t] = "countUp" /\ todo[t] = <<>> /\ UNCHANGED <<buffer, head, tail, occupied>>
        /\ count' = (count + 1) % CountModulus
        /\ Moves(t, "return", op[t], msg[t], outcome[t], todo[t], index[t])
    BY <1>6 DEF CountsUp, Goes, semaphores
  <2>2. pc'[t] = "return" /\ todo'[t] = <<>>
    BY <1>0, <2>1, MovedThread
  <2>3. /\ ~InRing(t) /\ ~InRing(t)' /\ t \notin Making /\ t \notin Making'
        /\ t \notin Downs /\ t \notin Downs' /\ t \in Ups /\ t \notin Ups'
    BY <2>1, <2>2, WeightAt, WeightThen, EmptyProgram DEF ReadLabels
  <2>4. Weight(t)' = Weight(t) + 0 /\ Lag(t)' = Lag(t) + 1
    BY <2>3 DEF Weight, Lag, One
  <2>5. /\ Stored' = Stored + 0 /\ Counted' = Counted + 0 + 1 /\ Making' = Making
        /\ Stored \in Int /\ Counted \in Int
    BY <2>1, <2>3, <2>4, Reckoned
  <2>6. QED
    BY <2>1, <2>2, <2>5 DEF RingEffect, Quiet, CountsAlong, Unadvanced
<1>7. CASE CountsDown(t)
  <2>1. /\ pc[t] = "countDown" /\ UNCHANGED <<buffer, head, tail, occupied>>
        /\ count' = (count - 1) % CountModulus
        /\ Moves(t, "return", op[t], msg[t], outcome[t], Sync.read, index[t])
    BY <1>7 DEF CountsDown, Performs, semaphores
  <2>2. pc'[t] = "return" /\ todo'[t] = Sync.read
    BY <1>0, <2>1, MovedThread
  <2>3. ~Publishes(Sync.read)
    BY ReadPrograms DEF ReadOps
  <2>4. /\ ~InRing(t) /\ ~InRing(t)' /\ t \notin Making /\ t \notin Making'
        /\ t \in Downs /\ t \notin Downs' /\ t \notin Ups /\ t \notin Ups'
    BY <2>1, <2>2, <2>3, WeightAt, WeightThen, EmptyProgram DEF ReadLabels
  <2>5. Weight(t)' = Weight(t) + 0 /\ Lag(t)' = Lag(t) + (-1)
    BY <2>4 DEF Weight, Lag, One
  <2>6. /\ Stored' = Stored + 0 /\ Counted' = Counted + 0 + (-1) /\ Making' = Making
        /\ Stored \in Int /\ Counted \in Int
    BY <2>1, <2>4, <2>5, Reckoned
  <2>7. QED
    BY <2>1, <2>2, <2>6 DEF RingEffect, Quiet, CountsAlong, Unadvanced
<1>8. CASE Dropped(t)
  <2>1. /\ pc[t] = "dropHead" /\ UNCHANGED <<buffer, tail, count, occupied>>
        /\ head = expected /\ head' = Succ(head)
        /\ Moves(t, "dropCount", op[t], msg[t], outcome[t], todo[t], index[t])
    BY <1>8 DEF Dropped, Goes, semaphores
  <2>2. pc'[t] = "dropCount" /\ SameCall(t)
    BY <1>0, <2>1, MovedThread DEF SameCall
  <2>3. /\ ~InRing(t) /\ ~InRing(t)' /\ t \notin Making /\ t \in Making'
        /\ t \notin Downs /\ t \in Downs' /\ t \notin Ups /\ t \notin Ups'
    BY <2>1, <2>2, WeightAt, WeightThen DEF ReadLabels
  <2>4. Weight(t)' = Weight(t) + (-1) /\ Lag(t)' = Lag(t) + 1
    BY <2>3 DEF Weight, Lag, One
  <2>5. /\ Stored' = Stored + (-1) /\ Counted' = Counted + (-1) + 1
        /\ Making' = Making \cup {t} /\ Stored \in Int /\ Counted \in Int
    BY <2>1, <2>3, <2>4, Reckoned
  <2>6. QED
    BY <2>1, <2>2, <2>5 DEF RingEffect, Discards, CountsAlong
<1>9. todo[t] = <<>> \/ pc[t] \notin {"move", "advance"}
  BY <1>0, <1>1, ProgramItems
<1>10. CASE Advanced(t)
  <2>1. /\ pc[t] = "advance" /\ UNCHANGED <<buffer, tail, count, occupied>>
        /\ head = index[t] /\ head' = Succ(head)
        /\ Moves(t, "countDown", op[t], msg[t], "returned", todo[t], index[t])
    BY <1>10 DEF Advanced, semaphores
  <2>2. /\ pc'[t] = "countDown"
        /\ op'[t] = op[t] /\ msg'[t] = msg[t] /\ outcome'[t] = "returned"
    BY <1>0, <2>1, MovedThread
  <2>3. /\ InRing(t) /\ ~InRing(t)' /\ t \notin Making /\ t \notin Making'
        /\ t \notin Downs /\ t \in Downs' /\ t \notin Ups /\ t \notin Ups'
    BY <1>9, <2>1, <2>2, WeightAt, WeightThen, EmptyProgram DEF ReadLabels
  <2>4. Weight(t)' = Weight(t) + (-1) /\ Lag(t)' = Lag(t) + 1
    BY <2>3 DEF Weight, Lag, One
  <2>5. /\ Stored' = Stored + (-1) /\ Counted' = Counted + (-1) + 1 /\ Making' = Making
        /\ Stored \in Int /\ Counted \in Int
    BY <2>1, <2>3, <2>4, Reckoned
  <2>6. QED
    BY <2>1, <2>2, <2>5 DEF RingEffect, Takes, CountsAlong
<1>11. ASSUME NEW l \in {"move", "advance"}, NEW m, NEW i, pc[t] \in {"move", "advance"},
              Moves(t, l, op[t], m, outcome[t], todo[t], i), UNCHANGED occupied
       PROVE  /\ pc'[t] = l /\ msg'[t] = m /\ index'[t] = i
              /\ op'[t] = op[t] /\ outcome'[t] = outcome[t]
              /\ Stored' = Stored /\ Counted' = Counted /\ Making' = Making
  <2>1. /\ pc'[t] = l /\ msg'[t] = m /\ index'[t] = i /\ todo'[t] = todo[t]
        /\ op'[t] = op[t] /\ outcome'[t] = outcome[t]
    BY <1>0, <1>11, MovedThread
  <2>2. /\ InRing(t) /\ InRing(t)' /\ t \notin Making /\ t \notin Making'
        /\ t \notin Downs /\ t \notin Downs' /\ t \notin Ups /\ t \notin Ups'
    BY <1>9, <1>11, <2>1, WeightAt, WeightThen, EmptyProgram DEF ReadLabels
  <2>3. Weight(t)' = Weight(t) + 0 /\ Lag(t)' = Lag(t) + 0
    BY <2>2 DEF Weight, Lag, One
  <2>4. /\ Stored' = Stored + 0 /\ Counted' = Counted + 0 + 0 /\ Making' = Making
        /\ Stored \in Int /\ Counted \in Int
    BY <1>11, <2>2, <2>3, Reckoned
  <2>5. QED
    BY <2>1, <2>4
<1>12. CASE AdvanceFailed(t)
  <2>1. /\ pc[t] = "advance" /\ UNCHANGED <<buffer, head, tail, count, occupied>>
        /\ head # index[t] \/ CasMayFail
        /\ Moves(t, "move", op[t], msg[t], outcome[t], todo[t], head)
    BY <1>12 DEF AdvanceFailed, semaphores, ringVars
  <2>2. QED
    BY <1>11, <2>1 DEF RingEffect, Loads, CountsAlong, SameCall
<1>13. CASE pc[t] = "move" /\ Moved(t, "advance", outcome[t])
  <2>1. /\ pc[t] = "move" /\ UNCHANGED <<head, tail, count, occupied>>
        /\ Moves(t, "advance", op[t], buffer[index[t]], outcome[t], todo[t], index[t])
        /\ buffer' = [buffer EXCEPT ![index[t]] = NoMessage]
    BY <1>13 DEF Moved, semaphores
  <2>2. /\ pc'[t] = "advance" /\ msg'[t] = buffer[index[t]] /\ index'[t] = index[t]
        /\ op'[t] = op[t] /\ outcome'[t] = outcome[t]
        /\ Stored' = Stored /\ Counted' = Counted /\ Making' = Making
    BY <1>11, <2>1
  <2>3. QED
    BY <2>1, <2>2 DEF RingEffect, MovesOut, CountsAlong
<1>14. ~Closed(t) /\ (pc[t] = "take" /\ todo[t] = <<>> => index[t] = NoSlot)
  BY DEF Closed
<1>15. Publishes(OverwriteSync.sent) /\ ~Publishes(OverwriteSync.overwritten)
  BY SendPrograms DEF SendOps
<1>16. ASSUME StoresMessage(t, "store", OverwriteSync.sent)
              \/ StoresMessage(t, "storeOver", OverwriteSync.overwritten)
       PROVE  RingEffect(t)
  BY <1>5, <1>15, <1>16
<1>17. QED
  BY <1>2, <1>3, <1>4, <1>6, <1>7, <1>8, <1>10, <1>12, <1>13, <1>14, <1>16 DEF RingStep

(* Unless it breaks the ring or the queue is closed, a step is of one     *)
(* kind.                                                                   *)
LEMMA StepRing ==
  ASSUME BaseInv, BaseInv', NEW t \in Threads, Step(t), ~broken', ~cleared'
  PROVE  RingEffect(t) /\ ~broken /\ ~cleared /\ ~Breaks(t)
<1>0. TypeInv /\ FlowInv(t) /\ Others(t)
  BY StepOthers DEF BaseInv
<1>1. CASE Enters(t)
  <2>1. pc[t] = "idle" /\ UNCHANGED <<cleared, broken>>
    BY <1>0, <1>1, EnterMoves DEF Enters, Call, ringVars
  <2>2. ~Breaks(t)
    BY <2>1 DEF Breaks
  <2>3. QED
    BY <1>0, <1>1, <2>1, <2>2, EnterRing
<1>2. CASE Run(t)
  <2>1. /\ \/ PrimitiveStep(t) /\ UNCHANGED <<ringVars, dropVars>>
           \/ ControlStep(t) /\ LoopKept(t) /\ UNCHANGED <<semaphores, ringVars>>
           \/ RingStep(t)
        /\ ~broken /\ ~Breaks(t)
    BY <1>0, <1>2, RunMoves DEF RecordHistory
  <2>2. pc[t] = "take" => index[t] = NoSlot \/ todo[t] # <<>>
    BY <2>1 DEF Breaks, HasReserved, Ready
  <2>3. ~cleared
    BY <2>1 DEF ringVars, RingStep, ModeSet, DropLoaded, Dropped, DropFailed, CountsDrop,
       StoresMessage, CountsUp, Advanced, AdvanceFailed, CountsDown, Closed, Moved
  <2>4. RingEffect(t)
    BY <1>0, <2>1, <2>2, PrimitiveRing, ControlRing, RingRing
  <2>5. QED
    BY <2>1, <2>3, <2>4
<1>3. QED
  BY <1>1, <1>2 DEF Step

-----------------------------------------------------------------------------
(* What a step does to the readers that have been overtaken.               *)
Passing(t) ==
  /\ \A s \in Threads \ {t} :
       s \in passed' <=> IF head' = head THEN s \in passed ELSE Unadvanced(s)
  /\ t \in passed' <=> /\ pc[t] = "move" /\ Unadvanced(t)'
                       /\ t \in passed \/ head' # head

LEMMA StepPassing ==
  ASSUME BaseInv, NEW t \in Threads, Step(t)
  PROVE  Passing(t)
<1>1. TypeInv /\ Others(t) /\ passed \subseteq {s \in Threads : Unadvanced(s)} /\ FlowInv(t)
  BY StepOthers DEF BaseInv
<1>2. \A s \in Threads \ {t} : Unadvanced(s)' <=> Unadvanced(s)
  BY <1>1 DEF Others, Unadvanced
<1>3. CASE Enters(t)
  <2>1. pc[t] = "idle" /\ passed' = passed /\ head' = head
    BY <1>1, <1>3, EnterMoves DEF Enters, Call, ringVars
  <2>2. t \notin passed
    BY <1>1, <2>1 DEF Unadvanced
  <2>3. QED
    BY <2>1, <2>2 DEF Passing
<1>4. CASE Run(t)
  <2>1. passed' = {r \in Threads : Unadvanced(r)' /\ (r \in passed \/ head' # head)
                                   /\ (r # t \/ pc[t] = "move")}
    BY <1>4 DEF Run, RecordHistory, Unadvanced
  <2>2. QED
    BY <1>1, <1>2, <2>1 DEF Passing
<1>5. QED
  BY <1>3, <1>4 DEF Step

(* The content of a slot is what is stored there, but for a message on its *)
(* way out of the head.                                                    *)
MovedFrom(t, i) == t \notin passed /\ pc[t] = "advance" /\ index[t] = i /\ head = i

LEMMA ContentOf ==
  ASSUME NEW i
  PROVE  /\ (\A t \in Threads : ~MovedFrom(t, i)) => SlotContent(i) = buffer[i]
         /\ \A t \in Threads :
              MovedFrom(t, i) /\ (\A s \in Threads : MovedFrom(s, i) => s = t)
                => SlotContent(i) = msg[t]
         /\ (\A t \in Threads : ~MovedFrom(t, i)') => SlotContent(i)' = buffer'[i]
         /\ \A t \in Threads :
              MovedFrom(t, i)' /\ (\A s \in Threads : MovedFrom(s, i)' => s = t)
                => SlotContent(i)' = msg'[t]
<1> DEFINE M == {t \in Threads : MovedFrom(t, i)}
<1>1. /\ SlotContent(i) = IF M = {} THEN buffer[i] ELSE msg[CHOOSE t \in M : TRUE]
      /\ SlotContent(i)' = IF M' = {} THEN buffer'[i] ELSE msg'[CHOOSE t \in M' : TRUE]
  <2>1. /\ M = {t \in Threads \ passed : pc[t] = "advance" /\ index[t] = i /\ head = i}
        /\ M' = {t \in Threads \ passed' : pc'[t] = "advance" /\ index'[t] = i /\ head' = i}
    BY DEF MovedFrom
  <2> HIDE DEF M
  <2>2. QED
    BY <2>1 DEF SlotContent, Content
<1>2. \A t \in Threads :
        /\ MovedFrom(t, i) /\ (\A s \in Threads : MovedFrom(s, i) => s = t) => M = {t}
        /\ MovedFrom(t, i)' /\ (\A s \in Threads : MovedFrom(s, i)' => s = t) => M' = {t}
  OBVIOUS
<1>3. /\ (\A t \in Threads : ~MovedFrom(t, i)) => M = {}
      /\ (\A t \in Threads : ~MovedFrom(t, i)') => M' = {}
  OBVIOUS
<1>4. \A t : (CHOOSE x \in {t} : TRUE) = t
  OBVIOUS
<1> HIDE DEF M
<1>5. QED
  BY <1>1, <1>2, <1>3, <1>4

LEMMA ContentIs ==
  ASSUME Readers
  PROVE  /\ \A i : i # head \/ (\A f \in Threads : ~Front(f)) => SlotContent(i) = buffer[i]
         /\ \A f \in Threads : Front(f) => SlotContent(head) = msg[f]
<1>1. \A f \in Threads : MovedFrom(f, head) <=> Front(f)
  BY DEF MovedFrom, Front, Readers
<1>2. \A i : i # head \/ (\A f \in Threads : ~Front(f)) => \A f \in Threads : ~MovedFrom(f, i)
  BY DEF MovedFrom, Front
<1>3. \A s, f \in Threads : MovedFrom(s, head) /\ MovedFrom(f, head) => s = f
  BY <1>1 DEF Readers
<1>4. QED
  BY <1>1, <1>2, <1>3, ContentOf

LEMMA ContentIsThen ==
  ASSUME Readers'
  PROVE  /\ \A i : i # head' \/ (\A f \in Threads : ~Front(f)') => SlotContent(i)' = buffer'[i]
         /\ \A f \in Threads : Front(f)' => SlotContent(head)' = msg'[f]
<1>1. \A f \in Threads : MovedFrom(f, head)' <=> Front(f)'
  BY DEF MovedFrom, Front, Readers
<1>2. \A i : i # head' \/ (\A f \in Threads : ~Front(f)') => \A f \in Threads : ~MovedFrom(f, i)'
  BY DEF MovedFrom, Front
<1>3. \A s, f \in Threads : MovedFrom(s, head)' /\ MovedFrom(f, head)' => s = f
  BY <1>1 DEF Readers
<1>4. QED
  BY <1>1, <1>2, <1>3, ContentOf

(* Distances around the ring. *)
LEMMA FarMath ==
  /\ \A i, h \in Slots : Far(i, h) \in Slots /\ (Far(i, h) = 0 <=> i = h)
  /\ \A i, j, h \in Slots : Far(i, h) = Far(j, h) => i = j
  /\ \A i, h \in Slots :
       Far(i, Succ(h)) = IF i = h THEN Capacity - 1 ELSE Far(i, h) - 1
  /\ \A i, h \in Slots :
       IF Far(i, h) = Capacity - 1 THEN Succ(i) = h ELSE Far(Succ(i), h) = Far(i, h) + 1
<1>1. Capacity \in Nat /\ Capacity > 0
  BY CapacityAssumption
<1>2. \A i \in Slots : Succ(i) = IF i = Capacity - 1 THEN 0 ELSE i + 1
  BY <1>1 DEF Slots, Succ
<1>3. \A i, h \in Slots : Far(i, h) \in Slots /\ (Far(i, h) = 0 <=> i = h)
  BY <1>1 DEF Slots, Far
<1>4. \A i, j, h \in Slots : Far(i, h) = Far(j, h) => i = j
  BY <1>1 DEF Slots, Far
<1>5. ASSUME NEW i \in Slots, NEW h \in Slots
      PROVE  Far(i, Succ(h)) = IF i = h THEN Capacity - 1 ELSE Far(i, h) - 1
  <2>1. CASE h = Capacity - 1
    BY <1>1, <1>2, <2>1 DEF Slots, Far
  <2>2. CASE h # Capacity - 1
    BY <1>1, <1>2, <2>2 DEF Slots, Far
  <2>3. QED
    BY <2>1, <2>2
<1>6. ASSUME NEW i \in Slots, NEW h \in Slots
      PROVE  IF Far(i, h) = Capacity - 1 THEN Succ(i) = h ELSE Far(Succ(i), h) = Far(i, h) + 1
  <2>1. CASE i = Capacity - 1
    BY <1>1, <1>2, <2>1 DEF Slots, Far
  <2>2. CASE i # Capacity - 1
    BY <1>1, <1>2, <2>2 DEF Slots, Far
  <2>3. QED
    BY <2>1, <2>2
<1>7. QED
  BY <1>3, <1>4, <1>5, <1>6

LEMMA FarApart ==
  ASSUME NEW i \in Slots, NEW j \in Slots, NEW h \in Slots, Far(i, h) = Far(j, h)
  PROVE  i = j
  BY FarMath

(* Between the steps of a call, where its thread stands.                   *)
LEMMA AtLabel ==
  ASSUME BaseInv, NEW t \in Threads
  PROVE  /\ head \in Slots /\ tail \in Slots /\ count \in 0..(CountModulus - 1)
         /\ buffer \in [Slots -> Messages \cup {NoMessage}]
         /\ Unadvanced(t) => index[t] \in Slots
         /\ t \in passed => Unadvanced(t)
         /\ pc[t] \in {"store", "storeOver"} => Ready(t)
<1>1. TypeInv /\ FlowInv(t) /\ op[t] \in Ops
  BY HereTyped DEF BaseInv
<1>2. todo[t] \in Programs(op[t], pc[t])
  BY <1>1 DEF FlowInv, Flow
<1>3. pc[t] \in {"store", "storeOver"} => Ready(t)
  BY <1>1, <1>2, ProgramItems DEF Ready
<1>4. QED
  BY <1>1, <1>3 DEF BaseInv, TypeInv, TypeOK, RingTypeOK, FlowInv, Flow, Unadvanced

(* A reader that is still at the head is in the way of a store there.      *)
LEMMA StoreKeepsApart ==
  ASSUME BaseInv, RingInv, NEW t \in Threads, pc[t] \in {"store", "storeOver"}, ~Breaks(t),
         NEW r \in Threads
  PROVE  /\ pc[r] = "move" => index[r] # tail
         /\ AtHead(r) => tail # head
<1>1. Ready(t)
  BY AtLabel
<1>2. Unadvanced(r) /\ index[r] = tail => pc[r] # "move" /\ head # tail
  BY <1>1 DEF Breaks
<1>3. AtHead(r) => index[r] = head
  BY DEF RingInv, Readers, AtHead, Front, Unadvanced
<1>4. QED
  BY <1>2, <1>3 DEF AtHead, Unadvanced

LEMMA WriterAlone ==
  ASSUME BaseInv, NEW t \in Threads, pc[t] \in Writing
  PROVE  Making \subseteq {t}
  BY SoleWriter DEF Making, Writing

(* What is left to a store, and to a drop or a read.                       *)
LEMMA RoomToStore ==
  ASSUME BaseInv, RingInv, NEW t \in Threads, pc[t] \in {"store", "storeOver"}, ~Breaks(t)
  PROVE  Stored < Capacity
<1>1. Making \subseteq {t}
  BY WriterAlone DEF Writing
<1>2. CASE pc[t] = "storeOver"
  BY <1>2 DEF RingInv, Contiguous, Making
<1>3. CASE pc[t] = "store"
  <2>1. SUFFICES ASSUME Stored = Capacity PROVE FALSE
    BY CapacityAssumption DEF RingInv, Contiguous
  <2>2. tail = head /\ Making = {}
    BY <1>1, <1>3, <2>1 DEF RingInv, Contiguous, Making
  <2>3. \A r \in Threads : ~AtHead(r)
    BY <1>3, <2>2, StoreKeepsApart
  <2>4. \A i \in Slots : Dist(i) < Stored
    <3>1. head \in Slots /\ Capacity \in Nat
      BY AtLabel, CapacityAssumption
    <3>2. \A i \in Slots : Dist(i) \in 0..(Capacity - 1)
      BY <3>1, FarMath DEF Dist, Slots
    <3>3. QED
      BY <2>1, <3>1, <3>2
  <2>5. \A i \in Slots : SlotContent(i) # NoMessage
    BY <2>3, <2>4 DEF RingInv, Contiguous
  <2>6. Size = Capacity
    BY <2>2, <2>5 DEF Size
  <2>7. QED
    BY <1>3, <2>6, AtLabel DEF Breaks
<1>4. QED
  BY <1>2, <1>3

LEMMA SizeWhenEmpty ==
  ASSUME BaseInv, RingInv, Stored = 0
  PROVE  Size = 0
<1>1. Capacity \in Nat /\ Capacity > 0
  BY CapacityAssumption
<1>2. head \in Slots /\ tail \in Slots
  BY DEF BaseInv, TypeInv, TypeOK, RingTypeOK
<1>3. tail = head
  BY <1>1, <1>2, FarMath DEF RingInv, Contiguous, Dist
<1>4. Making = {} => \E i \in Slots : SlotContent(i) = NoMessage
  BY DEF RingInv, Contiguous
<1>5. (tail - head) % Capacity = 0
  BY <1>1, <1>2, <1>3 DEF Slots
<1>6. QED
  BY <1>4, <1>5 DEF Size

LEMMA SomethingThere ==
  ASSUME BaseInv, RingInv, NEW t \in Threads, ~Breaks(t),
         Discards(t) \/ Takes(t)
  PROVE  Stored > 0
  BY SizeWhenEmpty DEF Breaks, Discards, Takes, RingInv, Contiguous

(* The readers, after a step of each kind.                                 *)
LEMMA ReadersThen ==
  ASSUME \A s \in Threads : pc'[s] = "move" =>
           IF s \in passed' THEN Far(index'[s], head') >= Stored' ELSE index'[s] = head',
         \A s \in Threads : Front(s)' => index'[s] = head' /\ buffer'[head'] = NoMessage,
         \A r, s \in Threads : Front(r)' /\ Front(s)' => r = s
  PROVE  Readers'
  BY DEF Readers, Dist

LEMMA ReadersStay ==
  ASSUME BaseInv, BaseInv', RingInv, NEW t \in Threads, Others(t), Passing(t), ~Breaks(t),
         Quiet(t) \/ Loads(t) \/ MovesOut(t) \/ Stores(t)
  PROVE  Readers'
<1>0. /\ head \in Slots /\ tail \in Slots /\ head' = head /\ Stored \in 0..Capacity
      /\ Capacity \in Nat
      /\ buffer \in [Slots -> Messages \cup {NoMessage}]
  BY AtLabel, CapacityAssumption DEF Quiet, Loads, MovesOut, Stores, RingInv, Contiguous
<1>1. \A s \in Threads \ {t} : /\ pc'[s] = pc[s] /\ index'[s] = index[s]
                               /\ s \in passed' <=> s \in passed
                               /\ Front(s)' <=> Front(s)
  BY <1>0 DEF Others, Passing, Front
<1>2. t \in passed' <=> pc[t] = "move" /\ Unadvanced(t)' /\ t \in passed
  BY <1>0 DEF Passing
<1>3. \A s \in Threads :
        /\ pc[s] = "move" =>
             IF s \in passed THEN Far(index[s], head) >= Stored ELSE index[s] = head
        /\ Front(s) => index[s] = head /\ buffer[head] = NoMessage
        /\ \A r \in Threads : Front(s) /\ Front(r) => s = r
  BY DEF RingInv, Readers, Dist
<1>4. CASE Quiet(t) \/ Loads(t)
  <2>1. /\ Stored' = Stored /\ buffer' = buffer /\ ~Front(t)'
        /\ pc'[t] = "move" => index'[t] = head /\ t \notin passed'
    BY <1>2, <1>4 DEF Quiet, Loads, Front, Unadvanced
  <2>2. \A s \in Threads : pc'[s] = "move" =>
          IF s \in passed' THEN Far(index'[s], head') >= Stored' ELSE index'[s] = head'
    BY <1>0, <1>1, <1>3, <2>1
  <2>3. \A s \in Threads : Front(s)' => index'[s] = head' /\ buffer'[head'] = NoMessage
    BY <1>0, <1>1, <1>3, <2>1
  <2>4. \A r, s \in Threads : Front(r)' /\ Front(s)' => r = s
    BY <1>1, <1>3, <2>1
  <2>5. QED
    BY <2>2, <2>3, <2>4, ReadersThen
<1>5. CASE MovesOut(t)
  <2>1. /\ Stored' = Stored /\ pc[t] = "move" /\ pc'[t] = "advance" /\ index'[t] = index[t]
        /\ buffer' = [buffer EXCEPT ![index[t]] = NoMessage]
        /\ t \in passed' <=> t \in passed
    BY <1>2, <1>5 DEF MovesOut, Unadvanced
  <2>2. \A i \in Slots : buffer[i] = NoMessage => buffer'[i] = NoMessage
    BY <1>0, <2>1
  <2>3. Front(t)' => index'[t] = head /\ buffer'[head] = NoMessage
    BY <1>0, <1>3, <2>1 DEF Front
  <2>4. ASSUME Front(t)', NEW s \in Threads \ {t}, Front(s) PROVE FALSE
    <3>1. index[s] = head /\ index[t] = head
      BY <1>3, <2>1, <2>3, <2>4
    <3>2. QED
      BY <2>1, <2>4, <3>1 DEF Breaks, Front, Unadvanced
  <2>5. \A r, s \in Threads : Front(r)' /\ Front(s)' => r = s
    BY <1>1, <1>3, <2>4
  <2>6. \A s \in Threads : pc'[s] = "move" =>
          IF s \in passed' THEN Far(index'[s], head') >= Stored' ELSE index'[s] = head'
    BY <1>0, <1>1, <1>3, <2>1
  <2>7. \A s \in Threads : Front(s)' => index'[s] = head' /\ buffer'[head'] = NoMessage
    BY <1>0, <1>1, <1>3, <2>2, <2>3
  <2>8. QED
    BY <2>5, <2>6, <2>7, ReadersThen
<1>6. CASE Stores(t)
  <2>1. /\ Stored' = Stored + 1 /\ pc[t] \in {"store", "storeOver"} /\ pc'[t] = "countUp"
        /\ buffer' = [buffer EXCEPT ![tail] = msg[t]] /\ ~Front(t)'
    BY <1>6 DEF Stores, Front
  <2>2. Stored < Capacity /\ Far(tail, head) = Stored
    BY <2>1, RoomToStore DEF RingInv, Contiguous, Dist
  <2>3. \A s \in Threads : Front(s) => tail # head
    BY <2>1, StoreKeepsApart DEF Front, AtHead, Unadvanced
  <2>4. \A s \in Threads : Front(s)' => index'[s] = head' /\ buffer'[head'] = NoMessage
    BY <1>0, <1>1, <1>3, <2>1, <2>3
  <2>5. ASSUME NEW s \in Threads, pc'[s] = "move"
        PROVE  IF s \in passed' THEN Far(index'[s], head') >= Stored' ELSE index'[s] = head'
    <3>0. s # t /\ pc[s] = "move"
      BY <1>1, <2>1, <2>5
    <3>1. index[s] \in Slots /\ index[s] # tail
      BY <2>1, <3>0, StoreKeepsApart, AtLabel DEF Unadvanced
    <3>2. Far(index[s], head) # Stored /\ Far(index[s], head) \in Nat
      <4>1. Slots \subseteq Nat
        BY DEF Slots
      <4>2. Far(index[s], head) \in Slots
        BY <1>0, <3>1, FarMath
      <4>3. Far(index[s], head) = Far(tail, head) => index[s] = tail
        BY <1>0, <3>1, FarApart
      <4>4. QED
        BY <2>2, <3>1, <4>1, <4>2, <4>3
    <3>3. QED
      BY <1>0, <1>1, <1>3, <2>1, <3>0, <3>2
  <2>6. \A r, s \in Threads : Front(r)' /\ Front(s)' => r = s
    BY <1>1, <1>3, <2>1
  <2>7. QED
    BY <2>4, <2>5, <2>6, ReadersThen
<1>7. QED
  BY <1>4, <1>5, <1>6

(* In a ring of one slot the head comes back to where it was at once.      *)
LEMMA ReadersOvertaken ==
  ASSUME BaseInv, RingInv, NEW t \in Threads, Others(t), Passing(t), ~Breaks(t),
         Discards(t) \/ Takes(t)
  PROVE  /\ Readers'
         /\ Capacity > 1 \/ Takes(t) => \A f \in Threads : ~Front(f)'
<1>0. /\ head \in Slots /\ head' = Succ(head) /\ Stored \in 0..Capacity /\ Stored > 0
      /\ Stored' = Stored - 1 /\ Capacity \in Nat /\ pc'[t] \notin {"move", "advance"}
      /\ buffer' = buffer
  BY AtLabel, CapacityAssumption, SomethingThere DEF Discards, Takes, RingInv, Contiguous
<1>1. \A s \in Threads : pc'[s] \in {"move", "advance"} =>
        /\ s # t /\ pc[s] = pc'[s] /\ index'[s] = index[s] /\ index[s] \in Slots
        /\ s \in passed' <=> (head' # head \/ s \in passed)
  BY <1>0, AtLabel DEF Others, Unadvanced, Passing
<1>2. ASSUME NEW s \in Threads, pc'[s] = "move"
      PROVE  Far(index'[s], head') >= Stored'
  <2>1. Far(index[s], head) \in Nat
        /\ Far(index[s], head') = IF index[s] = head THEN Capacity - 1 ELSE Far(index[s], head) - 1
    <3>1. index[s] \in Slots /\ Slots \subseteq Nat
      BY <1>0, <1>1, <1>2 DEF Slots
    <3>2. /\ Far(index[s], head) \in Slots
          /\ Far(index[s], Succ(head)) = IF index[s] = head THEN Capacity - 1 ELSE Far(index[s], head) - 1
      BY <1>0, <3>1, FarMath
    <3>3. QED
      BY <1>0, <3>1, <3>2
  <2>2. index[s] = head \/ Far(index[s], head) >= Stored
    BY <1>1, <1>2 DEF RingInv, Readers, Dist
  <2>3. QED
    BY <1>0, <1>1, <1>2, <2>1, <2>2
<1>3. CASE Capacity > 1
  <2>1. head' # head
    BY <1>0, <1>3 DEF Succ, Slots
  <2>2. \A s \in Threads : ~Front(s)' /\ (pc'[s] = "move" => s \in passed')
    BY <1>1, <2>1 DEF Front
  <2>3. QED
    BY <1>2, <2>2, ReadersThen
<1>4. CASE ~(Capacity > 1)
  <2>1. Slots = {0}
    BY <1>0, <1>4 DEF Slots
  <2>2. head' = head
    BY <1>0, <2>1, SlotsIn
  <2>3. \A s \in Threads : Front(s)' => Front(s) /\ s # t
    BY <1>1, <2>2 DEF Front
  <2>4. \A s \in Threads : Front(s)' => index'[s] = head' /\ buffer'[head'] = NoMessage
    BY <1>0, <1>1, <2>2, <2>3 DEF RingInv, Readers, Front
  <2>5. \A s \in Threads : pc'[s] = "move" => index'[s] = head'
    BY <1>0, <1>1, <2>1, <2>2
  <2>6. \A r, s \in Threads : Front(r)' /\ Front(s)' => r = s
    BY <2>3 DEF RingInv, Readers
  <2>7. Takes(t) => Front(t)
    BY DEF Takes, Front, Breaks
  <2>8. Takes(t) => \A f \in Threads : ~Front(f)'
    BY <2>3, <2>7 DEF RingInv, Readers
  <2>9. QED
    BY <1>2, <1>4, <2>4, <2>5, <2>6, <2>8, ReadersThen
<1>5. QED
  BY <1>3, <1>4

(* A step that leaves head and tail alone blanks no message that is there, *)
(* except when a reader whose exchange failed forgets what it has moved.   *)
LEMMA ContentStays ==
  ASSUME BaseInv, BaseInv', RingInv, Readers', NEW t \in Threads, Others(t), Passing(t),
         Quiet(t) \/ Loads(t) \/ MovesOut(t)
  PROVE  /\ \A i \in Slots :
              /\ SlotContent(i)' \in {SlotContent(i), NoMessage}
              /\ Dist(i) < Stored /\ (i # head \/ ~Front(t)) => SlotContent(i)' = SlotContent(i)
         /\ (\E f \in Threads : AtHead(f)) => \E f \in Threads : AtHead(f)'
         /\ Front(t) => AtHead(t)'
<1>0. /\ head \in Slots /\ head' = head /\ buffer \in [Slots -> Messages \cup {NoMessage}]
      /\ Readers
  BY AtLabel DEF Quiet, Loads, MovesOut, RingInv
<1>1. \A s \in Threads \ {t} : /\ pc'[s] = pc[s] /\ msg'[s] = msg[s]
                               /\ Front(s)' <=> Front(s)
                               /\ AtHead(s)' <=> AtHead(s)
  BY <1>0 DEF Others, Passing, Front, AtHead, Unadvanced
<1>2. t \in passed' <=> pc[t] = "move" /\ Unadvanced(t)' /\ t \in passed
  BY <1>0 DEF Passing
<1>3. AtHead(t) => AtHead(t)'
  BY <1>2 DEF Quiet, Loads, MovesOut, AtHead, Unadvanced
<1>4. ((\E f \in Threads : AtHead(f)) => \E f \in Threads : AtHead(f)') /\ (Front(t) => AtHead(t)')
  BY <1>1, <1>3 DEF Front, AtHead, Unadvanced
<1>5. \A f \in Threads \ {t} : Front(f) => SlotContent(head) = msg[f] /\ SlotContent(head)' = msg[f]
  BY <1>0, <1>1, ContentIs, ContentIsThen
<1> DEFINE Kept(i) == /\ SlotContent(i)' \in {SlotContent(i), NoMessage}
                      /\ Dist(i) < Stored /\ (i # head \/ ~Front(t)) =>
                           SlotContent(i)' = SlotContent(i)
<1>6. (\E f \in Threads \ {t} : Front(f)) => Kept(head)
  BY <1>5
<1>7. \A i \in Slots : i # head => SlotContent(i) = buffer[i] /\ SlotContent(i)' = buffer'[i]
  BY <1>0, ContentIs, ContentIsThen
<1>8. CASE Quiet(t) \/ Loads(t)
  <2>1. buffer' = buffer /\ ~Front(t)'
    BY <1>8 DEF Quiet, Loads, Front, Unadvanced
  <2>2. ASSUME \A f \in Threads \ {t} : ~Front(f) PROVE Kept(head)
    <3>1. SlotContent(head)' = buffer[head]
      BY <1>0, <1>1, <2>1, <2>2, ContentIsThen
    <3>2. ~Front(t) => SlotContent(head) = buffer[head]
      BY <1>0, <2>2, ContentIs
    <3>3. Front(t) => buffer[head] = NoMessage
      BY <1>0 DEF Readers
    <3>4. QED
      BY <3>1, <3>2, <3>3
  <2>3. \A i \in Slots : Kept(i)
    <3>1. \A i \in Slots : i # head => Kept(i)
      BY <1>7, <2>1
    <3> HIDE DEF Kept
    <3>2. Kept(head)
      BY <1>6, <2>2
    <3>3. QED
      BY <3>1, <3>2
  <2>4. QED
    BY <1>4, <2>3
<1>9. CASE MovesOut(t)
  <2>1. /\ pc[t] = "move" /\ pc'[t] = "advance" /\ index[t] \in Slots
        /\ msg'[t] = buffer[index[t]] /\ buffer' = [buffer EXCEPT ![index[t]] = NoMessage]
        /\ index'[t] = index[t] /\ ~Front(t)
    BY <1>9, AtLabel DEF MovesOut, Unadvanced, Front
  <2>2. (t \in passed' <=> t \in passed) /\ (Front(t)' <=> t \notin passed)
    BY <1>2, <2>1 DEF Unadvanced, Front
  <2>3. IF t \in passed THEN ~(Dist(index[t]) < Stored) ELSE index[t] = head
    <3>1. IF t \in passed THEN Dist(index[t]) >= Stored ELSE index[t] = head
      BY <1>0, <2>1 DEF Readers
    <3>2. Dist(index[t]) \in Nat /\ Stored \in Int
      <4>1. Dist(index[t]) \in Slots
        BY <1>0, <2>1, FarMath DEF Dist
      <4>2. QED
        BY <4>1 DEF Slots, RingInv, Contiguous
    <3>3. QED
      BY <3>1, <3>2
  <2>4. ASSUME NEW i \in Slots, i # head PROVE Kept(i)
    <3>1. buffer'[i] = IF i = index[t] THEN NoMessage ELSE buffer[i]
      BY <1>0, <2>1
    <3>2. i = index[t] => ~(Dist(i) < Stored)
      BY <2>3, <2>4
    <3>3. QED
      BY <1>7, <2>4, <3>1, <3>2
  <2>5. ASSUME \A f \in Threads \ {t} : ~Front(f) PROVE Kept(head)
    <3>1. SlotContent(head) = buffer[head]
      BY <1>0, <2>1, <2>5, ContentIs
    <3>2. CASE t \notin passed
      <4>1. SlotContent(head)' = buffer[head]
        BY <1>0, <2>1, <2>2, <2>3, <3>2, ContentIsThen
      <4>2. QED
        BY <3>1, <4>1
    <3>3. CASE t \in passed
      <4>1. SlotContent(head)' = buffer'[head]
        BY <1>0, <1>1, <2>2, <2>5, <3>3, ContentIsThen
      <4>2. buffer'[head] = IF head = index[t] THEN NoMessage ELSE buffer[head]
        BY <1>0, <2>1
      <4>3. head = index[t] => ~(Dist(head) < Stored)
        BY <2>3, <3>3
      <4>4. QED
        BY <3>1, <4>1, <4>2, <4>3
    <3>4. QED
      BY <3>2, <3>3
  <2>6. \A i \in Slots : Kept(i)
    <3> HIDE DEF Kept
    <3>1. Kept(head)
      BY <1>6, <2>5
    <3>2. QED
      BY <2>4, <3>1
  <2>7. QED
    BY <1>4, <2>6
<1>10. QED
  BY <1>8, <1>9

(* What a store puts behind the last message. *)
LEMMA ContentGrows ==
  ASSUME BaseInv, BaseInv', RingInv, Readers', NEW t \in Threads, Others(t), Passing(t), ~Breaks(t),
         Stores(t)
  PROVE  /\ \A i \in Slots : SlotContent(i)' = IF i = tail THEN msg[t] ELSE SlotContent(i)
         /\ \A f \in Threads : AtHead(f) => AtHead(f)'
<1>0. /\ head \in Slots /\ tail \in Slots /\ head' = head /\ Readers
      /\ buffer \in [Slots -> Messages \cup {NoMessage}]
      /\ pc[t] \in {"store", "storeOver"} /\ pc'[t] = "countUp"
      /\ buffer' = [buffer EXCEPT ![tail] = msg[t]]
  BY AtLabel DEF Stores, RingInv
<1>1. \A s \in Threads \ {t} : /\ msg'[s] = msg[s]
                               /\ Front(s)' <=> Front(s)
                               /\ AtHead(s)' <=> AtHead(s)
  BY <1>0 DEF Others, Passing, Front, AtHead, Unadvanced
<1>2. ~Front(t) /\ ~Front(t)' /\ ~AtHead(t)
  BY <1>0 DEF Front, AtHead, Unadvanced
<1>3. \A f \in Threads : Front(f) => tail # head
  BY <1>0, StoreKeepsApart DEF Front, AtHead, Unadvanced
<1>4. ASSUME NEW i \in Slots
      PROVE  SlotContent(i)' = IF i = tail THEN msg[t] ELSE SlotContent(i)
  <2>1. buffer'[i] = IF i = tail THEN msg[t] ELSE buffer[i]
    BY <1>0
  <2>2. CASE i # head \/ \A f \in Threads : ~Front(f)
    BY <1>0, <1>1, <1>2, <2>1, <2>2, ContentIs, ContentIsThen
  <2>3. ASSUME i = head, NEW f \in Threads, Front(f)
        PROVE  SlotContent(i)' = IF i = tail THEN msg[t] ELSE SlotContent(i)
    BY <1>0, <1>1, <1>2, <1>3, <2>3, ContentIs, ContentIsThen
  <2>4. QED
    BY <2>2, <2>3
<1>5. QED
  BY <1>1, <1>2, <1>4

(* A drop or a read leaves the other messages where they are. *)
LEMMA ContentShrinks ==
  ASSUME BaseInv, RingInv, NEW t \in Threads, Others(t), Passing(t), ~Breaks(t),
         Discards(t) \/ Takes(t)
  PROVE  /\ \A i \in Slots : i # head => SlotContent(i)' = SlotContent(i)
         /\ Takes(t) => \A i \in Slots : i = head => SlotContent(i)' = NoMessage
<1>0. buffer' = buffer /\ Readers /\ Readers' /\ head \in Slots
  BY ReadersOvertaken, AtLabel DEF Discards, Takes, RingInv
<1>1. \A i \in Slots : i # head => SlotContent(i) = buffer[i]
  BY <1>0, ContentIs
<1>2. CASE Capacity > 1 \/ Takes(t)
  <2>1. \A i \in Slots : SlotContent(i)' = buffer[i]
    BY <1>0, <1>2, ReadersOvertaken, ContentIsThen
  <2>2. Takes(t) => buffer[head] = NoMessage
    BY <1>0 DEF Takes, Breaks, Front, Readers
  <2>3. QED
    BY <1>0, <1>1, <2>1, <2>2
<1>3. CASE ~(Capacity > 1) /\ ~Takes(t)
  <2>1. Slots = {0}
    BY <1>3, CapacityAssumption DEF Slots
  <2>2. QED
    BY <1>0, <1>3, <2>1
<1>4. QED
  BY <1>2, <1>3

(* The messages stay contiguous. *)
LEMMA ContiguousThen ==
  ASSUME Stored' \in 0..Capacity,
         Making' # {} => Stored' < Capacity,
         IF Stored' = Capacity THEN tail' = head' ELSE Far(tail', head') = Stored',
         \A i \in Slots : Far(i, head') < Stored' =>
            SlotContent(i)' # NoMessage \/ (i = head' /\ \E t \in Threads : AtHead(t)'),
         Stored' = 0 /\ Making' = {} => \E i \in Slots : SlotContent(i)' = NoMessage
  PROVE  Contiguous'
  BY DEF Contiguous, Dist

LEMMA ContiguousStays ==
  ASSUME BaseInv, BaseInv', RingInv, Readers', NEW t \in Threads, Others(t), Passing(t),
         Quiet(t) \/ Loads(t) \/ MovesOut(t)
  PROVE  Contiguous'
<1>0. head' = head /\ tail' = tail /\ Stored' = Stored /\ Making' = Making /\ Contiguous
  BY DEF Quiet, Loads, MovesOut, RingInv
<1>1. \A i \in Slots : Far(i, head') < Stored' =>
        SlotContent(i)' # NoMessage \/ (i = head' /\ \E f \in Threads : AtHead(f)')
  <2>1. SUFFICES ASSUME NEW i \in Slots, Dist(i) < Stored
                 PROVE  SlotContent(i)' # NoMessage \/ (i = head /\ \E f \in Threads : AtHead(f)')
    BY <1>0 DEF Dist
  <2>2. SlotContent(i) # NoMessage \/ (i = head /\ \E f \in Threads : AtHead(f))
    BY <1>0, <2>1 DEF Contiguous
  <2>3. SlotContent(i)' = SlotContent(i) \/ (i = head /\ Front(t))
    BY <2>1, ContentStays
  <2>4. /\ (\E f \in Threads : AtHead(f)) => \E f \in Threads : AtHead(f)'
        /\ Front(t) => AtHead(t)'
    BY ContentStays
  <2>5. QED
    BY <2>2, <2>3, <2>4
<1>2. Stored' = 0 /\ Making' = {} => \E i \in Slots : SlotContent(i)' = NoMessage
  <2>1. \A i \in Slots : SlotContent(i) = NoMessage => SlotContent(i)' = NoMessage
    BY ContentStays
  <2>2. QED
    BY <1>0, <2>1 DEF Contiguous
<1>3. IF Stored' = Capacity THEN tail' = head' ELSE Far(tail', head') = Stored'
  BY <1>0 DEF Contiguous, Dist
<1>4. Stored' \in 0..Capacity /\ (Making' # {} => Stored' < Capacity)
  BY <1>0 DEF Contiguous
<1>5. QED
  BY <1>1, <1>2, <1>3, <1>4, ContiguousThen

LEMMA ContiguousGrows ==
  ASSUME BaseInv, BaseInv', RingInv, Readers', NEW t \in Threads, Others(t), Passing(t), ~Breaks(t),
         Stores(t)
  PROVE  Contiguous'
<1>0. /\ head' = head /\ tail' = Succ(tail) /\ Stored' = Stored + 1 /\ Making' = {}
      /\ msg[t] # NoMessage /\ Contiguous /\ head \in Slots /\ tail \in Slots
  <2>1. Making \subseteq {t}
    BY WriterAlone DEF Stores, Writing
  <2>2. QED
    BY <2>1, AtLabel, MessagesAssumption DEF Stores, RingInv
<1>1. Stored \in 0..Capacity /\ Stored < Capacity /\ Capacity \in Nat /\ Far(tail, head) = Stored
  BY <1>0, RoomToStore, CapacityAssumption DEF Stores, Contiguous, Dist
<1>2. Stored' \in 0..Capacity /\ Stored' # 0
  BY <1>0, <1>1
<1>3. IF Stored' = Capacity THEN tail' = head' ELSE Far(tail', head') = Stored'
  <2>1. IF Far(tail, head) = Capacity - 1 THEN Succ(tail) = head
        ELSE Far(Succ(tail), head) = Far(tail, head) + 1
    BY <1>0, FarMath
  <2>2. QED
    BY <1>0, <1>1, <2>1
<1>4. ASSUME NEW i \in Slots, Far(i, head') < Stored'
      PROVE  SlotContent(i)' # NoMessage \/ (i = head' /\ \E f \in Threads : AtHead(f)')
  <2>1. SlotContent(i)' = IF i = tail THEN msg[t] ELSE SlotContent(i)
    BY ContentGrows
  <2>2. CASE i = tail
    BY <1>0, <2>1, <2>2
  <2>3. CASE i # tail
    <3>1. Far(i, head) # Stored
      BY <1>0, <1>1, <2>3, FarApart
    <3>2. Far(i, head) \in Nat
      <4>1. Far(i, head) \in Slots
        BY <1>0, FarMath
      <4>2. QED
        BY <4>1 DEF Slots
    <3>3. Dist(i) < Stored
      BY <1>0, <1>1, <1>4, <3>1, <3>2 DEF Dist
    <3>4. SlotContent(i) # NoMessage \/ (i = head /\ \E f \in Threads : AtHead(f))
      BY <1>0, <3>3 DEF Contiguous
    <3>5. QED
      BY <1>0, <2>1, <2>3, <3>4, ContentGrows
  <2>4. QED
    BY <2>2, <2>3
<1>5. QED
  BY <1>0, <1>2, <1>3, <1>4, ContiguousThen

LEMMA ContiguousShrinks ==
  ASSUME BaseInv, RingInv, NEW t \in Threads, Others(t), Passing(t), ~Breaks(t),
         Discards(t) \/ Takes(t)
  PROVE  Contiguous'
<1>0. /\ head' = Succ(head) /\ tail' = tail /\ Stored' = Stored - 1 /\ Stored > 0
      /\ Stored \in 0..Capacity /\ Capacity \in Nat /\ Capacity > 0
      /\ Contiguous /\ head \in Slots /\ tail \in Slots
  BY AtLabel, SomethingThere, CapacityAssumption DEF Discards, Takes, RingInv, Contiguous
<1>1. Stored' \in 0..Capacity /\ Stored' < Capacity
  BY <1>0
<1>2. Far(tail', head') = Stored'
  <2>1. Far(tail, Succ(head)) = IF tail = head THEN Capacity - 1 ELSE Far(tail, head) - 1
    BY <1>0, FarMath
  <2>2. Stored = Capacity <=> tail = head
    <3>1. Far(tail, head) = 0 <=> tail = head
      BY <1>0, FarMath
    <3>2. QED
      BY <1>0, <3>1 DEF Contiguous, Dist
  <2>3. QED
    BY <1>0, <2>1, <2>2 DEF Contiguous, Dist
<1>3. ASSUME NEW i \in Slots, Far(i, head') < Stored'
      PROVE  SlotContent(i)' # NoMessage
  <2>1. Far(i, Succ(head)) = IF i = head THEN Capacity - 1 ELSE Far(i, head) - 1
    BY <1>0, FarMath
  <2>2. Far(i, head) \in Nat
    <3>1. Far(i, head) \in Slots
      BY <1>0, FarMath
    <3>2. QED
      BY <3>1 DEF Slots
  <2>3. i # head /\ Dist(i) < Stored
    BY <1>0, <1>3, <2>1, <2>2 DEF Dist
  <2>4. SlotContent(i) # NoMessage
    BY <1>0, <2>3 DEF Contiguous
  <2>5. QED
    BY <2>3, <2>4, ContentShrinks
<1>4. Making' = {} => \E i \in Slots : SlotContent(i)' = NoMessage
  <2>1. CASE Takes(t)
    BY <1>0, <2>1, ContentShrinks
  <2>2. CASE Discards(t)
    <3>1. Making' = Making \cup {t}
      BY <2>2 DEF Discards
    <3>2. QED
      BY <3>1
  <2>3. QED
    BY <2>1, <2>2
<1>5. QED
  BY <1>1, <1>2, <1>3, <1>4, ContiguousThen

(* The counter, modulo its width. *)
LEMMA WrapStep ==
  ASSUME NEW n \in Int, -CountModulus < n - 1, n + 1 < CountModulus
  PROVE  /\ (Wrapped(n) + 1) % CountModulus = Wrapped(n + 1)
         /\ (Wrapped(n) - 1) % CountModulus = Wrapped(n - 1)
<1>1. CountModulus \in Nat /\ CountModulus > 1
  BY CountIn
<1>2. CASE n < 0
  BY <1>1, <1>2 DEF Wrapped
<1>3. CASE n >= 0
  BY <1>1, <1>3 DEF Wrapped
<1>4. QED
  BY <1>2, <1>3

LEMMA CountedBounds ==
  ASSUME Contiguous
  PROVE  Counted \in Int /\ -CountModulus < Counted - 1 /\ Counted + 1 < CountModulus
<1> DEFINE d == Cardinality(Downs)
           u == Cardinality(Ups)
           n == Cardinality(Threads)
<1>1. n \in Nat /\ d \in 0..n /\ u \in 0..n
  BY SetsFinite
<1>2. Capacity \in Nat /\ Capacity > 0 /\ Stored \in 0..Capacity
  BY CapacityAssumption DEF Contiguous
<1>3. CountModulus \in Nat /\ CountModulus > 2 * (Capacity + n)
  BY CountIn
<1>4. Counted = Stored + d - u
  BY DEF Counted
<1> HIDE DEF d, u, n
<1>5. QED
  BY <1>1, <1>2, <1>3, <1>4

LEMMA CountFollows ==
  ASSUME RingInv, CountsAlong
  PROVE  count' = Wrapped(Counted')
<1>1. count = Wrapped(Counted) /\ Contiguous
  BY DEF RingInv
<1>2. /\ (Wrapped(Counted) + 1) % CountModulus = Wrapped(Counted + 1)
      /\ (Wrapped(Counted) - 1) % CountModulus = Wrapped(Counted - 1)
  BY <1>1, CountedBounds, WrapStep
<1>3. QED
  BY <1>1, <1>2 DEF CountsAlong

-----------------------------------------------------------------------------
LEMMA RingStays ==
  ASSUME BaseInv, BaseInv', RingInv, NEW t \in Threads, Step(t), ~broken', ~cleared'
  PROVE  RingInv'
<1>1. RingEffect(t) /\ ~Breaks(t) /\ Others(t) /\ Passing(t)
  BY StepRing, StepOthers, StepPassing
<1>2. count' = Wrapped(Counted)'
  <2>1. Wrapped(Counted)' = Wrapped(Counted')
    BY DEF Wrapped
  <2>2. QED
    BY <1>1, <2>1, CountFollows DEF RingEffect
<1>3. Readers' /\ Contiguous'
  <2>1. CASE Quiet(t) \/ Loads(t) \/ MovesOut(t)
    BY <1>1, <2>1, ReadersStay, ContiguousStays
  <2>2. CASE Stores(t)
    BY <1>1, <2>2, ReadersStay, ContiguousGrows
  <2>3. CASE Discards(t) \/ Takes(t)
    BY <1>1, <2>3, ReadersOvertaken, ContiguousShrinks
  <2>4. QED
    BY <1>1, <2>1, <2>2, <2>3 DEF RingEffect
<1>4. QED
  BY <1>2, <1>3 DEF RingInv

LEMMA InvInit == Init => Inv
<1> SUFFICES ASSUME Init PROVE Inv
  OBVIOUS
<1>1. BaseInv
  BY BaseInit
<1>2. /\ \A t \in Threads : pc[t] = "idle" /\ todo[t] = <<>>
      /\ occupied = 0 /\ head = 0 /\ tail = 0 /\ count = 0
      /\ buffer = [i \in Slots |-> NoMessage] /\ passed = {}
  BY DEF Init, CallInit, SyncInit, RingInit
<1>3. RingCredits = {} /\ Making = {} /\ Downs = {} /\ Ups = {}
  BY <1>1, <1>2, WeightAt DEF RingCredits, Making, Downs, Ups, ReadLabels
<1>4. Stored = 0 /\ Counted = 0
  BY <1>2, <1>3, FS_EmptySet DEF Stored, Counted
<1>5. Readers
  BY <1>2 DEF Readers, Front
<1>6. Contiguous
  <2>1. Capacity \in Nat /\ Capacity > 0
    BY CapacityAssumption
  <2>2. \A i \in Slots : Dist(i) = i /\ ~(i < 0)
    BY <1>2, <2>1 DEF Dist, Far, Slots
  <2>3. \A i \in Slots : SlotContent(i) = NoMessage
    BY <1>2, <1>5, ContentIs DEF Front
  <2>4. QED
    BY <1>2, <1>3, <1>4, <2>1, <2>2, <2>3, SlotsIn DEF Contiguous
<1>7. count = Wrapped(Counted)
  BY <1>2, <1>4 DEF Wrapped
<1>8. QED
  BY <1>1, <1>5, <1>6, <1>7 DEF Inv, RingInv

LEMMA InvStays ==
  ASSUME Inv, [Next]_vars
  PROVE  Inv'
<1>1. CASE UNCHANGED vars
  <2>1. BaseInv'
    BY <1>1, BaseStays DEF Inv
  <2>2. RingInv' <=> RingInv
    BY <1>1 DEF RingInv, Contiguous, Readers, Stored, Counted, RingCredits, InRing, Making, Downs,
       Ups, Dist, SlotContent, Content, AtHead, Front, Unadvanced, Wrapped, Far, vars,
       queueVars, callVars, syncVars, ringVars, dropVars
  <2>3. QED
    BY <1>1, <2>1, <2>2 DEF Inv, vars, queueVars, ringVars
<1>2. ASSUME NEW t \in Threads, Step(t) PROVE Inv'
  <2>1. BaseInv'
    BY <1>2, BaseStep DEF Inv
  <2>2. ASSUME ~broken', ~cleared' PROVE RingInv'
    <3>1. ~broken /\ ~cleared
      BY <1>2, <2>1, <2>2, StepRing DEF Inv
    <3>2. QED
      BY <1>2, <2>1, <2>2, <3>1, RingStays DEF Inv
  <2>3. QED
    BY <2>1, <2>2 DEF Inv
<1>3. QED
  BY <1>1, <1>2, Stepping

-----------------------------------------------------------------------------
(* The k-th slot from the head on. *)
Ahead(h, k) == (h + k - 1) % Capacity

LEMMA AheadMath ==
  ASSUME NEW h \in Slots
  PROVE  /\ \A k \in 1..Capacity : Ahead(h, k) \in Slots /\ Far(Ahead(h, k), h) = k - 1
         /\ \A i \in Slots : (i - h) % Capacity = Far(i, h)
<1>1. Capacity \in Nat /\ Capacity > 0
  BY CapacityAssumption
<1>2. ASSUME NEW k \in 1..Capacity
      PROVE  Ahead(h, k) \in Slots /\ Far(Ahead(h, k), h) = k - 1
  <2>1. CASE h + k - 1 < Capacity
    <3>1. Ahead(h, k) = h + k - 1
      BY <1>1, <2>1 DEF Slots, Ahead
    <3>2. QED
      BY <1>1, <2>1, <3>1 DEF Slots, Far
  <2>2. CASE h + k - 1 >= Capacity
    <3>1. Ahead(h, k) = h + k - 1 - Capacity
      BY <1>1, <2>2 DEF Slots, Ahead
    <3>2. QED
      BY <1>1, <2>2, <3>1 DEF Slots, Far
  <2>3. QED
    BY <1>1, <2>1, <2>2 DEF Slots
<1>3. ASSUME NEW i \in Slots PROVE (i - h) % Capacity = Far(i, h)
  <2>1. CASE i < h
    BY <1>1, <2>1 DEF Slots, Far
  <2>2. CASE ~(i < h)
    BY <1>1, <2>2 DEF Slots, Far
  <2>3. QED
    BY <2>1, <2>2
<1>4. QED
  BY <1>2, <1>3

(* Size counts the messages, unless one is on its way out for nothing.     *)
LEMMA SizeIs ==
  ASSUME BaseInv, RingInv, Whole \/ \A f \in Threads : ~AtHead(f)
  PROVE  Size = Stored
<1>0. /\ head \in Slots /\ tail \in Slots /\ Stored \in 0..Capacity /\ Contiguous
      /\ Capacity \in Nat /\ Capacity > 0
  BY CapacityAssumption DEF BaseInv, TypeInv, TypeOK, RingTypeOK, RingInv, Contiguous
<1>1. (tail - head) % Capacity = Far(tail, head) /\ (Far(tail, head) = 0 <=> tail = head)
  BY <1>0, AheadMath, FarMath
<1>2. CASE Stored = Capacity
  <2>1. tail = head /\ Making = {}
    BY <1>0, <1>2 DEF Contiguous
  <2>2. ASSUME NEW i \in Slots PROVE SlotContent(i) # NoMessage
    <3>1. Far(i, head) \in Slots
      BY <1>0, FarMath
    <3>2. Dist(i) < Stored
      BY <1>0, <1>2, <3>1 DEF Dist, Slots
    <3>3. QED
      BY <1>0, <3>2 DEF Contiguous, Whole
  <2>3. QED
    BY <1>2, <2>1, <2>2 DEF Size
<1>3. CASE Stored # Capacity
  <2>1. Far(tail, head) = Stored
    BY <1>0, <1>3 DEF Contiguous, Dist
  <2>2. head = tail /\ Making = {} => \E i \in Slots : SlotContent(i) = NoMessage
    BY <1>0, <1>1, <2>1 DEF Contiguous
  <2>3. QED
    BY <1>1, <2>1, <2>2 DEF Size
<1>4. QED
  BY <1>2, <1>3

(* Nobody at work: every message counted, and no reader at the head.       *)
LEMMA CountedWhenIdle ==
  ASSUME BaseInv, RingInv, Idle
  PROVE  /\ occupied = Stored /\ count = Stored
         /\ \A f \in Threads : ~AtHead(f)
<1>0. Stored \in 0..Capacity /\ Capacity \in Nat /\ occupied \in Nat
  BY CapacityAssumption DEF RingInv, Contiguous, BaseInv, TypeInv, TypeOK
<1>1. \A t \in Threads : pc[t] \in {"idle", "check", "sync"}
  BY DEF Idle
<1>2. RingCredits = {} /\ Making = {} /\ Downs = {} /\ Ups = {}
  BY <1>1, WeightAt DEF RingCredits, Making, Downs, Ups, ReadLabels
<1>3. occupied = Stored
  BY <1>0, <1>2, FS_EmptySet DEF Stored
<1>4. Counted = Stored
  BY <1>0, <1>2, FS_EmptySet DEF Counted
<1>5. count = Stored
  BY <1>0, <1>4 DEF RingInv, Wrapped
<1>6. QED
  BY <1>1, <1>3, <1>5 DEF AtHead, Unadvanced

(* Whenever no operation is under way, count_ and the semaphore the        *)
(* readers wait on tell how many messages are in the ring, through drops   *)
(* that give up, exchanges that fail and counts that lag: no message is    *)
(* stranded, and no reader let in to find none.                            *)
THEOREM SizeCorrect == Spec => []SizeExactWhenIdle
<1>1. Inv /\ [Next]_vars => Inv'
  BY InvStays
<1>2. Inv => SizeExactWhenIdle
  BY CountedWhenIdle, SizeIs DEF Inv, SizeExactWhenIdle
<1>3. QED
  BY <1>1, <1>2, InvInit, PTL DEF Spec

-----------------------------------------------------------------------------
(* Where an exchange that nobody disturbs succeeds, a reader still at the  *)
(* head is sure of its message, and the ring is whole.                     *)
LEMMA WholeStays ==
  ASSUME BaseInv, BaseInv', RingInv, Whole, ~CasMayFail, NEW t \in Threads, Step(t),
         ~broken', ~cleared'
  PROVE  Whole'
<1>1. RingEffect(t) /\ ~Breaks(t) /\ Others(t) /\ Passing(t)
  BY StepRing, StepOthers, StepPassing
<1>2. RingInv' /\ Readers' /\ Readers
  BY RingStays DEF RingInv
<1>3. head \in Slots /\ tail \in Slots
  BY AtLabel
<1>4. CASE Quiet(t) \/ Loads(t) \/ MovesOut(t)
  <2>1. ~Front(t)
    BY <1>2, <1>4 DEF Quiet, Loads, MovesOut, Front, Unadvanced, Readers
  <2>2. head' = head /\ Stored' = Stored
    BY <1>4 DEF Quiet, Loads, MovesOut
  <2>3. \A i \in Slots : Dist(i) < Stored => SlotContent(i)' = SlotContent(i)
    BY <1>1, <1>2, <1>4, <2>1, ContentStays
  <2>4. QED
    BY <2>2, <2>3 DEF Whole, Dist
<1>5. CASE Stores(t)
  <2>1. /\ head' = head /\ Stored' = Stored + 1 /\ msg[t] # NoMessage
        /\ Stored \in 0..Capacity /\ Capacity \in Nat
    BY <1>5, MessagesAssumption, CapacityAssumption DEF Stores, RingInv, Contiguous
  <2>2. Far(tail, head) = Stored
    BY <1>1, <1>5, RoomToStore DEF Stores, RingInv, Contiguous, Dist
  <2>3. ASSUME NEW i \in Slots, Far(i, head) < Stored + 1, i # tail PROVE Far(i, head) < Stored
    <3>1. Far(i, head) \in Slots /\ Far(i, head) # Stored
      BY <1>3, <2>2, <2>3, FarMath, FarApart
    <3>2. QED
      BY <2>1, <2>3, <3>1 DEF Slots
  <2>4. \A i \in Slots : SlotContent(i)' = IF i = tail THEN msg[t] ELSE SlotContent(i)
    BY <1>1, <1>2, <1>5, ContentGrows
  <2>5. QED
    BY <2>1, <2>3, <2>4 DEF Whole, Dist
<1>6. CASE Discards(t) \/ Takes(t)
  <2>1. /\ head' = Succ(head) /\ Stored' = Stored - 1 /\ Stored \in 0..Capacity /\ Capacity \in Nat
    BY <1>6, CapacityAssumption DEF Discards, Takes, RingInv, Contiguous
  <2>2. ASSUME NEW i \in Slots, Far(i, Succ(head)) < Stored - 1
        PROVE  i # head /\ Far(i, head) < Stored
    <3>1. /\ Far(i, head) \in Slots
          /\ Far(i, Succ(head)) = IF i = head THEN Capacity - 1 ELSE Far(i, head) - 1
      BY <1>3, FarMath
    <3>2. QED
      BY <2>1, <2>2, <3>1 DEF Slots
  <2>3. \A i \in Slots : i # head => SlotContent(i)' = SlotContent(i)
    BY <1>1, <1>6, ContentShrinks
  <2>4. QED
    BY <2>1, <2>2, <2>3 DEF Whole, Dist
<1>7. QED
  BY <1>1, <1>4, <1>5, <1>6 DEF RingEffect

(* What a step that leaves the ring alone does to the call.                *)
Refused(t, how) ==
  /\ op'[t] = op[t] /\ msg'[t] = msg[t] /\ outcome'[t] = how
  /\ \/ pc[t] = "check" /\ Deadlocked(t, how)
     \/ pc[t] = "tryEmpty" /\ todo[t] = <<>> /\ IsEmpty /\ how = "false"
     \/ GivesUp(t) /\ how = "false"

LEMMA QuietCall ==
  ASSUME BaseInv, NEW t \in Threads, Step(t), Quiet(t), ~cleared'
  PROVE  \/ SameCall(t)
         \/ Enters(t)
         \/ /\ pc[t] = "return"
            /\ op'[t] = "none" /\ msg'[t] = NoMessage /\ outcome'[t] = "none"
         \/ \E how \in {"false", "deadlock"} : Refused(t, how)
<1>0. TypeInv /\ FlowInv(t)
  BY DEF BaseInv
<1> DEFINE Goal == \/ SameCall(t)
                   \/ /\ pc[t] = "return"
                      /\ op'[t] = "none" /\ msg'[t] = NoMessage /\ outcome'[t] = "none"
                   \/ \E how \in {"false", "deadlock"} : Refused(t, how)
<1>1. ASSUME NEW l, NEW q, NEW i, Moves(t, l, op[t], msg[t], outcome[t], q, i) PROVE Goal
  BY <1>0, <1>1, MovedThread DEF SameCall
<1>2. ASSUME NEW l, NEW q, NEW i, NEW how \in {"false", "deadlock"},
             Moves(t, l, op[t], msg[t], how, q, i),
             \/ pc[t] = "check" /\ Deadlocked(t, how)
             \/ pc[t] = "tryEmpty" /\ todo[t] = <<>> /\ IsEmpty /\ how = "false"
             \/ GivesUp(t) /\ how = "false"
      PROVE  Goal
  BY <1>0, <1>2, MovedThread DEF Refused
<1> HIDE DEF Goal
<1>3. ASSUME PrimitiveStep(t) PROVE Goal
  <2>1. ASSUME NEW h, Primitive(t, h) PROVE Goal
    BY <1>1, <2>1 DEF Primitive, Performs
  <2>2. ASSUME GivesUp(t) PROVE Goal
    BY <1>2, <2>2 DEF GivesUp
  <2>3. QED
    BY <1>1, <1>3, <2>1, <2>2 DEF PrimitiveStep, Quietly
<1>4. ASSUME ControlStep(t) PROVE Goal
  <2>1. ASSUME Checked(t) PROVE Goal
    BY <1>1, <1>2, <2>1 DEF Checked, Goes
  <2>2. ASSUME Preworked(t) PROVE Goal
    BY <1>1, <2>2 DEF Preworked, Performs
  <2>3. ASSUME Overflowed(t) \/ Tested(t) PROVE Goal
    BY <1>1, <2>3 DEF Overflowed, Tested, Goes
  <2>4. ASSUME Asked(t) PROVE Goal
    BY <1>1, <1>2, <2>4 DEF Asked, Goes
  <2>5. ASSUME Returned(t) PROVE Goal
    BY <1>0, <2>5, MovedThread DEF Returned, Goal
  <2>6. ASSUME Loaded(t) PROVE Goal
    BY <1>1, <2>6 DEF Loaded
  <2>7. QED
    BY <1>4, <2>1, <2>2, <2>3, <2>4, <2>5, <2>6 DEF ControlStep
<1>5. ASSUME RingStep(t) PROVE Goal
  <2>1. ASSUME NEW l, Goes(t, l) PROVE Goal
    BY <1>1, <2>1 DEF Goes
  <2>2. ASSUME ModeSet(t) PROVE Goal
    BY <1>1, <2>2 DEF ModeSet, Primitive, Performs
  <2>3. ASSUME NEW l, NEW m, NEW how, NEW q, NEW i, l \in {"countUp", "countDown", "advance"},
               Moves(t, l, op[t], m, how, q, i)
        PROVE  pc[t] \in {"countUp", "countDown"}
    <3>1. pc'[t] = l
      BY <1>0, <2>3, MovedThread
    <3>2. QED
      BY <2>3, <3>1 DEF Quiet, Unadvanced
  <2>4. ASSUME NEW label \in {"store", "storeOver"}, NEW commit, StoresMessage(t, label, commit)
        PROVE  FALSE
    BY <2>3, <2>4 DEF StoresMessage
  <2>5. ASSUME NEW l \in {"advance", "countDown"}, NEW how, Moved(t, l, how),
               pc[t] \in {"take", "move"}
        PROVE  FALSE
    BY <2>3, <2>5 DEF Moved
  <2>6. ~Advanced(t) /\ ~AdvanceFailed(t)
    BY DEF Advanced, AdvanceFailed, Quiet, Unadvanced
  <2>7. ASSUME CountsDown(t) PROVE Goal
    BY <1>1, <2>7 DEF CountsDown, Performs
  <2>8. ASSUME Closed(t) PROVE Goal
    BY <2>8 DEF Closed
  <2>9. QED
    BY <1>5, <2>1, <2>2, <2>4, <2>5, <2>6, <2>7, <2>8
       DEF RingStep, DropLoaded, Dropped, DropFailed, CountsDrop, CountsUp
<1>6. Run(t) => Goal
  BY <1>0, <1>3, <1>4, <1>5, RunMoves
<1>7. QED
  BY <1>6 DEF Step, Goal

-----------------------------------------------------------------------------
(***************************************************************************)
(* Refinement of DropOldestFifo.                                           *)
(***************************************************************************)
(* Before overwrite_mode_ is set, the readers reserve slots, but there is   *)
(* nothing to read: no call has got further than that.                     *)
Early(t) ==
  /\ pc[t] \in {"idle", "check", "sync", "overflow", "tryEmpty", "take", "close", "return"}
  /\ pc[t] = "overflow" => todo[t] # <<>> /\ Head(todo[t]) = "overwrite_mode.set"
  /\ pc[t] \in {"tryEmpty", "take"} => Wants(todo[t])
  /\ ~Publishes(todo[t])

ModeInv ==
  Category = "MPMC" /\ ~overwriteMode => occupied = 0 /\ \A t \in Threads : Early(t)

(* A call that has overlapped no other: what it has read is still so.      *)
Lone(t) == op[t] # "none" /\ \A s \in Threads \ {t} : op[s] = "none"

Exactly(t) ==
  /\ pc[t] \in {"dropLoad", "dropTest", "dropHead"} => Stored = Capacity
  /\ pc[t] = "dropTest" => attempts = 0
  /\ pc[t] \in {"dropTest", "dropHead"} => expected = head
  /\ pc[t] = "store" => Stored < Capacity
  /\ pc[t] \in {"check", "sync", "tryEmpty", "take"} => index[t] = NoSlot
  /\ "read_seq.add" \in Items(todo[t]) => ~overwriteMode
  /\ t \notin passed

AloneInv == \A t \in alone : Lone(t) /\ Exactly(t)

FullInv == Inv /\ WholeInv /\ ~cleared /\ ModeInv /\ (~broken => AloneInv)

(* A ring that is a queue: no overlapping calls have broken it, and nobody *)
(* has closed it.                                                          *)
InOrder == Inv /\ Whole /\ ~broken /\ ~cleared

(* The messages from the head on are those the credits stand for.          *)
LEMMA QueueIs ==
  /\ InOrder => Queue = [k \in 1..Stored |-> SlotContent(Ahead(head, k))]
  /\ InOrder' => Queue' = [k \in 1..Stored' |-> SlotContent(Ahead(head, k))']
<1>1. InOrder => Size = Stored
  BY SizeIs DEF InOrder, Inv
<1>2. (InOrder => Size = Stored)'
  BY <1>1, PTL
<1>3. Size = Stored => Queue = [k \in 1..Stored |-> SlotContent(Ahead(head, k))]
  BY DEF Queue, Ahead
<1>4. Size' = Stored' => Queue' = [k \in 1..Stored' |-> SlotContent(Ahead(head, k))']
  BY DEF Queue, Ahead
<1>5. QED
  BY <1>1, <1>2, <1>3, <1>4

LEMMA QueueParts ==
  ASSUME InOrder
  PROVE  /\ Queue = [k \in 1..Stored |-> SlotContent(Ahead(head, k))]
         /\ head \in Slots /\ tail \in Slots
         /\ Stored \in Nat /\ Stored <= Capacity /\ Capacity \in Nat /\ Capacity > 0
         /\ Contiguous
<1>1. head \in Slots /\ tail \in Slots
  BY DEF InOrder, Inv, BaseInv, TypeInv, TypeOK, RingTypeOK
<1>2. QED
  BY <1>1, QueueIs, CapacityAssumption DEF InOrder, Inv, RingInv, Contiguous

LEMMA QueueStays ==
  ASSUME InOrder, InOrder', head' = head, Stored' = Stored,
         \A i \in Slots : Dist(i) < Stored => SlotContent(i)' = SlotContent(i)
  PROVE  Queue' = Queue
<1>1. ASSUME NEW k \in 1..Stored
      PROVE  SlotContent(Ahead(head, k))' = SlotContent(Ahead(head, k))
  <2>1. k \in 1..Capacity /\ k - 1 < Stored
    BY QueueParts
  <2>2. Ahead(head, k) \in Slots /\ Far(Ahead(head, k), head) = k - 1
    BY <2>1, QueueParts, AheadMath
  <2>3. PICK i \in Slots : i = Ahead(head, k)
    BY <2>2
  <2>4. SlotContent(i)' = SlotContent(i)
    BY <2>1, <2>2, <2>3 DEF Dist
  <2>5. QED
    BY <2>3, <2>4
<1>2. Queue' = [k \in 1..Stored' |-> SlotContent(Ahead(head, k))']
  BY QueueIs
<1>3. QED
  BY <1>1, <1>2, QueueParts

LEMMA QueueGrows ==
  ASSUME InOrder, InOrder', NEW m, head' = head, Stored < Capacity, Stored' = Stored + 1,
         \A i \in Slots : SlotContent(i)' = IF i = tail THEN m ELSE SlotContent(i)
  PROVE  Queue' = Append(Queue, m)
<1>1. /\ Stored \in Nat /\ Stored # Capacity /\ Contiguous /\ head \in Slots /\ tail \in Slots
      /\ Capacity \in Nat
  BY QueueParts
<1>2. Far(tail, head) = Stored
  BY <1>1 DEF Contiguous, Dist
<1>3. ASSUME NEW k \in 1..(Stored + 1)
      PROVE  SlotContent(Ahead(head, k))' =
               IF k = Stored + 1 THEN m ELSE SlotContent(Ahead(head, k))
  <2>1. k \in 1..Capacity
    BY <1>1
  <2>2. PICK i \in Slots : i = Ahead(head, k)
    BY <1>1, <2>1, AheadMath
  <2>3. Far(i, head) = k - 1
    BY <1>1, <2>1, <2>2, AheadMath
  <2>4. i = tail <=> k = Stored + 1
    <3>1. i = tail <=> Far(i, head) = Stored
      BY <1>1, <1>2, FarApart
    <3>2. k - 1 = Stored <=> k = Stored + 1
      BY <1>1
    <3>3. QED
      BY <2>3, <3>1, <3>2
  <2>5. SlotContent(i)' = IF i = tail THEN m ELSE SlotContent(i)
    OBVIOUS
  <2>6. QED
    BY <1>1, <2>2, <2>4, <2>5
<1>4. /\ Queue = [k \in 1..Stored |-> SlotContent(Ahead(head, k))]
      /\ Queue' = [k \in 1..(Stored + 1) |-> SlotContent(Ahead(head, k))']
  BY QueueParts, QueueIs
<1>5. Queue' = [k \in 1..(Stored + 1) |-> IF k = Stored + 1 THEN m ELSE SlotContent(Ahead(head, k))]
  BY <1>3, <1>4
<1>6. QED
  BY <1>1, <1>4, <1>5

LEMMA QueueShrinks ==
  ASSUME InOrder, InOrder', head' = Succ(head), Stored > 0, Stored' = Stored - 1,
         \A i \in Slots : i # head => SlotContent(i)' = SlotContent(i)
  PROVE  Queue # <<>> /\ Head(Queue) = SlotContent(head) /\ Queue' = Tail(Queue)
<1>1. /\ Stored \in Nat /\ head \in Slots /\ head' \in Slots
      /\ Stored <= Capacity /\ Capacity \in Nat
  BY QueueParts, SlotsIn
<1>2. ASSUME NEW k \in 1..(Stored - 1)
      PROVE  SlotContent(Ahead(head, k))' = SlotContent(Ahead(head, k + 1))
  <2>1. k \in 1..Capacity /\ k + 1 \in 1..Capacity /\ k # 0
    BY <1>1
  <2>2. PICK i \in Slots : i = Ahead(head, k + 1)
    BY <1>1, <2>1, AheadMath
  <2>3. Far(i, head) = k
    BY <1>1, <2>1, <2>2, AheadMath
  <2>4. i # head
    BY <1>1, <2>1, <2>3, FarMath
  <2>5. Far(i, head') = k - 1
    BY <1>1, <2>3, <2>4, FarMath
  <2>6. Ahead(head', k) \in Slots /\ Far(Ahead(head', k), head') = k - 1
    BY <1>1, <2>1, AheadMath
  <2>7. i = Ahead(head', k)
    BY <1>1, <2>5, <2>6, FarApart
  <2>8. SlotContent(i)' = SlotContent(i)
    BY <2>4
  <2>9. QED
    BY <2>2, <2>7, <2>8
<1>3. Ahead(head, 1) = head
  <2>1. Ahead(head, 1) \in Slots /\ Far(Ahead(head, 1), head) = 0
    <3>1. 1 \in 1..Capacity
      BY <1>1
    <3>2. QED
      BY <1>1, <3>1, AheadMath
  <2>2. QED
    BY <1>1, <2>1, FarMath
<1>4. /\ Queue = [k \in 1..Stored |-> SlotContent(Ahead(head, k))]
      /\ Queue' = [k \in 1..(Stored - 1) |-> SlotContent(Ahead(head, k))']
  BY QueueParts, QueueIs
<1>5. Queue' = [k \in 1..(Stored - 1) |-> SlotContent(Ahead(head, k + 1))]
  BY <1>2, <1>4
<1>6. QED
  BY <1>1, <1>3, <1>4, <1>5

(* To a call while there is no other, count_ and the semaphore are exact.  *)
LEMMA WhenAlone ==
  ASSUME InOrder, NEW t \in Threads, \A u \in Threads \ {t} : op[u] = "none"
  PROVE  /\ pc[t] \in {"check", "overflow", "dropTest", "tryEmpty"} => count = Stored
         /\ pc[t] \in ReadLabels /\ Wants(todo[t]) => occupied = Stored
<1>0. BaseInv /\ RingInv
  BY DEF InOrder, Inv
<1>1. \A u \in Threads \ {t} : pc[u] = "idle"
  BY <1>0 DEF BaseInv, FlowInv, Flow
<1>2. ASSUME pc[t] \in {"check", "overflow", "dropTest", "tryEmpty"} PROVE count = Stored
  <2>1. Downs = {} /\ Ups = {}
    BY <1>0, <1>1, <1>2, WeightAt DEF Downs, Ups
  <2>2. Stored \in Nat /\ Counted = Stored
    BY <2>1, QueueParts, FS_EmptySet DEF Counted
  <2>3. QED
    BY <1>0, <2>2 DEF RingInv, Wrapped
<1>3. ASSUME pc[t] \in ReadLabels, Wants(todo[t]) PROVE occupied = Stored
  <2>1. RingCredits = {} /\ Making = {}
    BY <1>0, <1>1, <1>3, WeightAt DEF RingCredits, Making, ReadLabels
  <2>2. occupied \in Nat
    BY <1>0 DEF BaseInv, TypeInv, TypeOK
  <2>3. QED
    BY <2>1, <2>2, FS_EmptySet DEF Stored
<1>4. QED
  BY <1>2, <1>3

(* Nothing is published, and so nothing read, before the mode is set.      *)
LEMMA ModeStays ==
  ASSUME BaseInv, BaseInv', ModeInv, NEW t \in Threads, Step(t)
  PROVE  ModeInv'
<1> SUFFICES ASSUME Category = "MPMC", ~overwriteMode'
             PROVE  occupied' = 0 /\ \A s \in Threads : Early(s)'
  BY DEF ModeInv
<1>0. TypeInv /\ FlowInv(t) /\ Others(t)
  BY StepOthers DEF BaseInv
<1>1. ~overwriteMode
  <2>1. CASE Enters(t)
    BY <2>1 DEF Enters, dropVars
  <2>2. CASE Run(t)
    BY <1>0, <2>2, RunMoves
       DEF dropVars, LoopKept, RingStep, ModeSet, DropLoaded, Dropped, DropFailed, CountsDrop,
           StoresMessage, CountsUp, Advanced, AdvanceFailed, CountsDown, Closed, Moved
  <2>3. QED
    BY <2>1, <2>2 DEF Step
<1>2. occupied = 0 /\ \A s \in Threads : Early(s)
  BY <1>1 DEF ModeInv
<1>3. \A s \in Threads \ {t} : Early(s)'
  BY <1>0, <1>2 DEF Early, Others
<1>4. todo[t] = <<>> => pc[t] \notin {"overflow", "tryEmpty", "take"}
  BY <1>2, EmptyProgram DEF Early
<1>5. ASSUME NEW l \in {"check", "sync", "close", "return", "idle"}, pc'[t] = l,
             ~Publishes(todo'[t])
      PROVE  Early(t)'
  BY <1>5 DEF Early
<1>6. CASE Enters(t)
  <2>1. pc'[t] \in {"check", "return", "close"} /\ todo'[t] = todo[t]
    BY <1>0, <1>6, EnterMoves, MovedThread DEF EntersAs
  <2>2. occupied' = occupied
    BY <1>6 DEF Enters, Call, syncVars
  <2>3. Early(t)'
    BY <1>2, <1>5, <2>1 DEF Early
  <2>4. QED
    BY <1>2, <1>3, <2>2, <2>3
<1>7. CASE Run(t) /\ PrimitiveStep(t)
  <2> DEFINE h == Head(todo[t])
             rest == Tail(todo[t])
  <2>1. todo[t] # <<>> /\ Row(op[t], pc[t], h, todo[t], rest)
    BY <1>0, <1>7, NextPrimitive DEF PrimitiveStep, Quietly, Primitive, GivesUp
  <2>2. pc[t] = "overflow" => h = "overwrite_mode.set"
    BY <1>2 DEF Early
  <2>3. h = "read_seq.add" => ~Wants(todo[t]) /\ pc[t] \in {"tryEmpty", "take"}
    <3>1. h = "read_seq.add" => "read_seq.add" \in Items(todo[t])
      BY <2>1 DEF Row
    <3>2. todo[t] \in Programs(op[t], pc[t]) /\ op[t] \in Ops
      BY <1>0, HereTyped DEF FlowInv, Flow
    <3>3. QED
      BY <3>1, <3>2, ModePrograms
  <2>4. ~Publishes(todo[t]) /\ ~Publishes(rest)
    BY <1>2, <2>1 DEF Early, Row, Publishes
  <2> HIDE DEF h, rest
  <2>5. h \notin OccupiedAcquires \/ occupied' = occupied
    BY <1>2, <1>7 DEF PrimitiveStep, Quietly, Primitive, GivesUp, OccupiedAcquires, h
  <2>6. ASSUME Primitive(t, h), h \in {"free.release", "mutex.unlock"} PROVE Early(t)'
    <3>1. pc[t] = "return"
      BY <1>2, <2>1, <2>6 DEF Row, Early
    <3>2. pc'[t] = pc[t] /\ todo'[t] = rest
      BY <1>0, <2>6, MovedThread DEF Primitive, Performs, rest
    <3>3. QED
      BY <1>5, <2>4, <3>1, <3>2
  <2>7. ASSUME GivesUp(t) PROVE Early(t)'
    <3>1. pc'[t] = "return" /\ todo'[t] = <<>>
      BY <1>0, <2>7, MovedThread DEF GivesUp, Abandoned
    <3>2. QED
      BY <1>5, <3>1, EmptyProgram
  <2>8. h \notin {"free.take_if_any"} \cup Locks
    <3>1. h \in Locks => pc[t] = "overflow"
      BY <1>0, <2>1 DEF Row, LockOps, FlowInv, Flow, ReadLabels, SendOps, ReadOps
    <3>2. QED
      BY <2>1, <2>2, <3>1 DEF Row, Locks
  <2>9. h # "read_seq.add" /\ h # "occupied.release"
    BY <1>2, <2>1, <2>3, <2>4 DEF Early, Row, Publishes
  <2>10. \/ Primitive(t, h) /\ h \in {"free.release", "mutex.unlock"} /\ occupied' = occupied
         \/ GivesUp(t) /\ occupied' = occupied
    BY <1>2, <1>7, <2>8, <2>9 DEF PrimitiveStep, Quietly, Primitive, h
  <2>11. QED
    BY <1>2, <1>3, <2>6, <2>7, <2>10
<1>8. CASE Run(t) /\ ControlStep(t) /\ UNCHANGED semaphores
  <2>0. occupied' = 0
    BY <1>2, <1>8 DEF semaphores
  <2>1. CASE Checked(t)
    <3>1. PICK l \in {"sync", "return"}, how \in {outcome[t], "false", "deadlock"} :
            Moves(t, l, op[t], msg[t], how, todo[t], index[t])
      BY <2>1 DEF Checked, Goes
    <3>2. pc'[t] = l /\ todo'[t] = todo[t]
      BY <1>0, <3>1, MovedThread
    <3>3. QED
      BY <1>2, <1>3, <1>5, <2>0, <3>2 DEF Early
  <2>2. CASE Preworked(t)
    <3>1. CASE op[t] \in SendOps /\ Performs(t, "overflow", OverwriteSync[op[t]])
      <4>1. pc'[t] = "overflow" /\ todo'[t] = OverwriteSync[op[t]]
        BY <1>0, <3>1, MovedThread DEF Performs
      <4>2. ~Publishes(OverwriteSync[op[t]])
        BY <1>0, <3>1, SendPrograms, ProgramItems, HereTyped
      <4>3. Early(t)'
        BY <3>1, <4>1, <4>2, ModeFirst DEF Early
      <4>4. QED
        BY <1>3, <2>0, <4>3
    <3>2. CASE /\ op[t] \in ReadOps
               /\ \E l \in {"take", "tryEmpty"} : Performs(t, l, AcquireRead(op[t]))
      <4>1. pc'[t] \in {"take", "tryEmpty"} /\ todo'[t] = AcquireRead(op[t])
        BY <1>0, <3>2, MovedThread DEF Performs
      <4>2. Wants(AcquireRead(op[t])) /\ ~Publishes(AcquireRead(op[t]))
        BY <3>2, ReadPrograms DEF AcquireRead
      <4>3. Early(t)'
        BY <4>1, <4>2 DEF Early
      <4>4. QED
        BY <1>3, <2>0, <4>3
    <3>3. QED
      BY <2>2, <3>1, <3>2 DEF Preworked
  <2>3. CASE Returned(t)
    <3>1. pc'[t] = "idle" /\ todo'[t] = todo[t]
      BY <1>0, <2>3, MovedThread DEF Returned
    <3>2. QED
      BY <1>2, <1>3, <1>5, <2>0, <3>1 DEF Early
  <2>4. ~Overflowed(t) /\ ~Tested(t) /\ ~Asked(t) /\ ~Loaded(t)
    BY <1>2, <1>4 DEF Overflowed, Tested, Asked, Loaded, Early
  <2>5. QED
    BY <1>8, <2>1, <2>2, <2>3, <2>4 DEF ControlStep
<1>9. CASE Run(t) /\ RingStep(t)
  <2>1. Closed(t)
    BY <1>2, <1>4, <1>9
       DEF RingStep, ModeSet, DropLoaded, Dropped, DropFailed, CountsDrop, StoresMessage,
           CountsUp, Advanced, AdvanceFailed, CountsDown, Early
  <2>2. pc'[t] = "return" /\ todo'[t] = todo[t] /\ occupied' = 0
    BY <1>0, <1>2, <2>1, MovedThread DEF Closed, semaphores
  <2>3. QED
    BY <1>2, <1>3, <1>5, <2>2 DEF Early
<1>10. QED
  BY <1>0, <1>6, <1>7, <1>8, <1>9, RunMoves DEF Step

(* The call that has overlapped no other is over when its thread is idle.  *)
LEMMA AloneStep ==
  ASSUME BaseInv, BaseInv', NEW t \in Threads, Run(t)
  PROVE  /\ op[t] # "none"
         /\ alone' = IF op'[t] = "none" THEN alone \ {t} ELSE alone
<1>0. TypeInv /\ FlowInv(t) /\ FlowInv(t)'
  BY DEF BaseInv
<1>1. pc[t] # "idle"
  <2>1. pc[t] = "idle" => todo[t] = <<>>
    BY <1>0, HereTyped, ProgramItems DEF FlowInv, Flow
  <2>2. todo[t] = <<>> => ~PrimitiveStep(t) /\ ~ModeSet(t)
    BY DEF PrimitiveStep, ModeSet, Quietly, Primitive, GivesUp
  <2>3. pc[t] = "idle" => ~ControlStep(t) /\ (RingStep(t) => ModeSet(t))
    BY DEF ControlStep, Checked, Preworked, Overflowed, Tested, Asked, Returned, Loaded, RingStep,
       DropLoaded, Dropped, DropFailed, CountsDrop, StoresMessage, CountsUp, Advanced,
       AdvanceFailed, CountsDown, Closed
  <2>4. QED
    BY <1>0, <2>1, <2>2, <2>3, RunMoves
<1>2. (op[t] = "none" <=> pc[t] = "idle") /\ (op'[t] = "none" <=> pc'[t] = "idle")
  BY <1>0 DEF FlowInv, Flow
<1>3. QED
  BY <1>1, <1>2 DEF Run, RecordHistory

(* As long as it overlaps no other, what it has read stays so.             *)
LEMMA ExactlyStays ==
  ASSUME InOrder, BaseInv', ~CasMayFail, ModeInv, NEW t \in Threads, Run(t), RingEffect(t),
         Lone(t), Exactly(t), ~cleared'
  PROVE  Exactly(t)'
<1>0. /\ BaseInv /\ TypeInv /\ FlowInv(t) /\ FlowInv(t)' /\ Passing(t) /\ Others(t)
      /\ op[t] \in Ops /\ op'[t] \in Ops
  BY StepPassing, StepOthers, HereTyped DEF InOrder, Inv, BaseInv, Step, TypeInv, TypeOK, CallTypeOK
<1>1. t \notin passed'
  BY <1>0 DEF Passing, Exactly, RingEffect, Quiet, Loads, MovesOut, Stores, Discards, Takes
<1>2. pc'[t] \notin {"countUp", "dropCount", "countDown"} => Stored' = Stored /\ head' = head
  BY DEF RingEffect, Quiet, Loads, MovesOut, Stores, Discards, Takes
<1>3. /\ "read_seq.add" \in Items(todo[t]) =>
           /\ Category = "MPMC" /\ pc[t] \in {"tryEmpty", "take"}
           /\ Head(todo[t]) = "read_seq.add" => ~Wants(todo[t])
      /\ "read_seq.add" \in Items(todo'[t]) =>
           Category = "MPMC" /\ pc'[t] \in {"tryEmpty", "take"}
  BY <1>0, ModePrograms DEF FlowInv, Flow
<1>4. \A u \in Threads \ {t} : op[u] = "none"
  BY DEF Lone
<1>5. /\ pc[t] \in {"overflow", "dropTest"} => count = Stored
      /\ Stored \in Nat /\ Capacity \in Nat /\ Stored <= Capacity
  BY <1>4, WhenAlone, QueueParts
<1>6. ASSUME pc'[t] \notin {"check", "sync", "tryEmpty", "take", "dropLoad", "dropTest",
                            "dropHead", "store"}
      PROVE  Exactly(t)'
  BY <1>1, <1>3, <1>6 DEF Exactly
<1>7. CASE PrimitiveStep(t) /\ UNCHANGED <<ringVars, dropVars>>
  <2> DEFINE h == Head(todo[t])
             rest == Tail(todo[t])
  <2>1. todo[t] # <<>> /\ Row(op[t], pc[t], h, todo[t], rest)
    BY <1>0, <1>7, NextPrimitive DEF PrimitiveStep, Quietly, Primitive, GivesUp
  <2>2. h # "read_seq.add"
    <3>1. h = "read_seq.add" => /\ "read_seq.add" \in Items(todo[t]) /\ ~overwriteMode
      BY <2>1 DEF Row, Exactly
    <3>2. h = "read_seq.add" => Category = "MPMC" /\ Early(t) /\ ~Wants(todo[t])
                                /\ pc[t] \in {"tryEmpty", "take"}
      BY <1>3, <3>1 DEF ModeInv
    <3>3. QED
      BY <3>2 DEF Early
  <2> HIDE DEF h, rest
  <2>3. CASE GivesUp(t)
    <3>1. pc'[t] = "return"
      BY <1>0, <2>3, MovedThread DEF GivesUp
    <3>2. QED
      BY <1>6, <3>1
  <2>4. CASE Primitive(t, h)
    <3>1. pc'[t] = pc[t] /\ todo'[t] = rest /\ index'[t] = index[t]
      BY <1>0, <2>4, MovedThread DEF Primitive, Performs, rest
    <3>2. Items(rest) \subseteq Items(todo[t])
      BY <2>1 DEF Row
    <3>3. pc[t] \in {"overflow", "countUp", "tryEmpty", "take", "return"}
      BY <1>0, <2>1, ProgramItems DEF FlowInv, Flow
    <3>4. UNCHANGED overwriteMode
      BY <1>7 DEF dropVars
    <3>5. QED
      BY <1>1, <3>1, <3>2, <3>3, <3>4 DEF Exactly
  <2>5. QED
    BY <1>7, <2>2, <2>3, <2>4 DEF PrimitiveStep, Quietly, Primitive, h
<1>8. CASE ControlStep(t) /\ LoopKept(t) /\ UNCHANGED <<semaphores, ringVars>>
  <2>0. UNCHANGED overwriteMode
    BY <1>8 DEF LoopKept
  <2>1. CASE Checked(t)
    <3>1. PICK l \in {"sync", "return"}, how \in {outcome[t], "false", "deadlock"} :
            Moves(t, l, op[t], msg[t], how, todo[t], index[t])
      BY <2>1 DEF Checked, Goes
    <3>2. pc[t] = "check" /\ pc'[t] = l /\ index'[t] = index[t]
      BY <1>0, <2>1, <3>1, MovedThread DEF Checked
    <3>3. QED
      BY <1>1, <1>3, <3>2 DEF Exactly
  <2>2. CASE Preworked(t)
    <3>1. CASE op[t] \in SendOps /\ Performs(t, "overflow", OverwriteSync[op[t]])
      <4>1. pc'[t] = "overflow"
        BY <1>0, <3>1, MovedThread DEF Performs
      <4>2. QED
        BY <1>6, <4>1
    <3>2. CASE /\ op[t] \in ReadOps
               /\ \E l \in {"take", "tryEmpty"} : Performs(t, l, AcquireRead(op[t]))
      <4>1. /\ pc[t] = "sync" /\ pc'[t] \in {"take", "tryEmpty"}
            /\ todo'[t] = AcquireRead(op[t]) /\ index'[t] = index[t]
        BY <1>0, <2>2, <3>2, MovedThread DEF Preworked, Performs
      <4>2. "read_seq.add" \in Items(todo'[t]) => ~overwriteMode
        BY <1>0, <1>3, <3>2, <4>1, ModeFirst DEF AcquireRead
      <4>3. QED
        BY <1>1, <2>0, <4>1, <4>2 DEF Exactly
    <3>3. QED
      BY <2>2, <3>1, <3>2 DEF Preworked
  <2>3. CASE Overflowed(t)
    <3>1. pc[t] = "overflow" /\ pc'[t] = IF IsFull THEN "dropLoad" ELSE "store"
      BY <1>0, <2>3, MovedThread DEF Overflowed, Goes
    <3>2. IsFull <=> Stored = Capacity
      BY <1>5, <3>1 DEF IsFull
    <3>3. QED
      BY <1>1, <1>2, <1>3, <1>5, <3>1, <3>2 DEF Exactly
  <2>4. CASE Tested(t)
    <3>1. /\ pc[t] = "dropTest" /\ attempts = 0 /\ expected = head /\ Stored = Capacity
          /\ count = Stored
      BY <1>5, <2>4 DEF Tested, Exactly
    <3>2. Goes(t, "dropHead") /\ UNCHANGED expected
      BY <1>5, <2>4, <3>1, AttemptsAssumption DEF Tested, IsFull
    <3>3. pc'[t] = "dropHead"
      BY <1>0, <3>2, MovedThread DEF Goes
    <3>4. QED
      BY <1>1, <1>2, <1>3, <3>1, <3>2, <3>3 DEF Exactly
  <2>5. CASE Asked(t)
    <3>1. /\ pc[t] = "tryEmpty" /\ pc'[t] \in {"return", "take"} /\ index'[t] = index[t]
          /\ pc'[t] = "take" => todo'[t] = todo[t]
      BY <1>0, <2>5, MovedThread DEF Asked, Goes
    <3>2. QED
      BY <1>1, <1>3, <2>0, <3>1 DEF Exactly
  <2>6. CASE Returned(t) \/ Loaded(t)
    <3>1. pc'[t] \in {"idle", "move"}
      BY <1>0, <2>6, MovedThread DEF Returned, Loaded
    <3>2. QED
      BY <1>6, <3>1
  <2>7. QED
    BY <1>8, <2>1, <2>2, <2>3, <2>4, <2>5, <2>6 DEF ControlStep
<1>9. CASE RingStep(t)
  <2>1. CASE ModeSet(t)
    <3>1. pc'[t] = pc[t]
      BY <1>0, <2>1, MovedThread DEF ModeSet, Primitive, Performs
    <3>2. pc[t] = "overflow"
      BY <1>0, <2>1, NextPrimitive DEF ModeSet, Primitive, Row
    <3>3. QED
      BY <1>6, <3>1, <3>2
  <2>2. CASE DropLoaded(t)
    <3>1. pc[t] = "dropLoad" /\ pc'[t] = "dropTest" /\ expected' = head /\ attempts' = 0
      BY <1>0, <2>2, MovedThread DEF DropLoaded, Goes
    <3>2. QED
      BY <1>1, <1>2, <1>3, <3>1 DEF Exactly
  <2>3. ~DropFailed(t)
    BY DEF DropFailed, Exactly
  <2>4. CASE ~ModeSet(t) /\ ~DropLoaded(t)
    <3>1. \E l \in {"dropCount", "storeOver", "countUp", "return", "countDown", "move", "advance"} :
            pc' = [pc EXCEPT ![t] = l]
      BY <1>9, <2>3, <2>4 DEF RingStep, Dropped, CountsDrop, StoresMessage,
         CountsUp, Moved, Advanced, AdvanceFailed, CountsDown, Closed, Moves, Goes, Performs
    <3>2. pc'[t] \in {"dropCount", "storeOver", "countUp", "return", "countDown", "move", "advance"}
      BY <1>0, <3>1 DEF TypeInv, TypeOK, CallTypeOK
    <3>3. QED
      BY <1>6, <3>2
  <2>5. QED
    BY <2>1, <2>2, <2>4
<1>10. QED
  BY <1>0, <1>7, <1>8, <1>9, RunMoves

LEMMA AloneStays ==
  ASSUME InOrder, BaseInv', ~CasMayFail, ModeInv, AloneInv, NEW t \in Threads, Step(t),
         RingEffect(t), ~cleared'
  PROVE  AloneInv'
<1>0. BaseInv /\ TypeInv /\ FlowInv(t) /\ FlowInv(t)' /\ Others(t) /\ Passing(t)
  BY StepOthers, StepPassing DEF InOrder, Inv, BaseInv
<1>1. CASE Enters(t)
  <2>1. alone' = IF \A u \in Threads \ {t} : op[u] = "none" THEN {t} ELSE {}
    BY <1>1 DEF Enters
  <2>2. ASSUME \A u \in Threads \ {t} : op[u] = "none" PROVE Lone(t)' /\ Exactly(t)'
    <3>1. /\ pc[t] = "idle" /\ pc'[t] \in {"check", "return", "close"}
          /\ todo'[t] = todo[t] /\ index'[t] = index[t]
      BY <1>0, <1>1, EnterMoves, MovedThread DEF EntersAs
    <3>2. todo[t] = <<>> /\ index[t] = NoSlot
      BY <1>0, <3>1, HereTyped, ProgramItems DEF FlowInv, Flow
    <3>3. op'[t] # "none"
      BY <1>0, <3>1 DEF FlowInv, Flow
    <3>4. t \notin passed'
      BY <1>0, <3>1 DEF Passing
    <3>5. Items(todo'[t]) = {}
      BY <3>1, <3>2, Tuples
    <3>6. Lone(t)'
      BY <1>0, <2>2, <3>3 DEF Lone, Others
    <3>7. QED
      BY <3>1, <3>2, <3>4, <3>5, <3>6 DEF Exactly
  <2>3. QED
    BY <2>1, <2>2 DEF AloneInv
<1>2. CASE Run(t)
  <2>1. op[t] # "none" /\ alone' = IF op'[t] = "none" THEN alone \ {t} ELSE alone
    BY <1>0, <1>2, AloneStep
  <2>2. ASSUME NEW s \in alone' PROVE Lone(s)' /\ Exactly(s)'
    <3>1. s \in alone /\ Lone(s) /\ Exactly(s)
      BY <2>1, <2>2 DEF AloneInv
    <3>2. s = t
      BY <2>1, <3>1 DEF Lone
    <3>3. op'[t] # "none"
      BY <2>1, <2>2, <3>2
    <3>4. Lone(t)'
      BY <1>0, <3>1, <3>2, <3>3 DEF Lone, Others
    <3>5. QED
      BY <1>2, <3>1, <3>2, <3>4, ExactlyStays
  <2>3. QED
    BY <2>2 DEF AloneInv
<1>3. QED
  BY <1>1, <1>2 DEF Step

(* Only calls that overlap break the ring.                                 *)
LEMMA BreaksTogether ==
  ASSUME InOrder, AloneInv, NEW t \in Threads, op[t] # "none", Breaks(t)
  PROVE  alone = {}
<1> SUFFICES ASSUME NEW s \in alone PROVE FALSE
  OBVIOUS
<1>0. BaseInv /\ RingInv /\ Capacity \in Nat /\ Capacity > 0 /\ Stored \in Nat
  BY QueueParts DEF InOrder, Inv
<1>1. t \in Threads /\ Lone(t) /\ Exactly(t)
  <2>1. Lone(s) /\ Exactly(s)
    BY DEF AloneInv
  <2>2. s = t
    BY <2>1 DEF Lone
  <2>3. QED
    BY <2>1, <2>2
<1>2. FlowInv(t) /\ op[t] \in Ops
  BY <1>0, HereTyped DEF BaseInv
<1>3. \A r \in Threads : Unadvanced(r) => r = t
  BY <1>0, <1>1 DEF Lone, BaseInv, FlowInv, Flow, Unadvanced
<1>4. Size = Stored
  BY <1>0, SizeIs DEF InOrder
<1>5. Size = 0 => pc[t] # "advance"
  <2>1. SUFFICES ASSUME Stored = 0, pc[t] = "advance" PROVE FALSE
    BY <1>4
  <2>2. todo[t] = <<>>
    BY <1>2, <2>1, ProgramItems DEF FlowInv, Flow
  <2>3. InRing(t) /\ t \notin Making
    BY <1>0, <2>1, <2>2, WeightAt, EmptyProgram DEF ReadLabels
  <2>4. \A u \in Threads \ {t} : pc[u] = "idle"
    BY <1>0, <1>1 DEF Lone, BaseInv, FlowInv, Flow
  <2>5. RingCredits = {t} /\ Making = {}
    BY <1>0, <2>3, <2>4, WeightAt DEF RingCredits, Making, ReadLabels
  <2>6. Cardinality(RingCredits) = 1 /\ Cardinality(Making) = 0 /\ occupied \in Nat
    BY <1>0, <2>5, FS_EmptySet, FS_Singleton DEF BaseInv, TypeInv, TypeOK
  <2>7. QED
    BY <2>1, <2>6 DEF Stored
<1>6. ~(pc[t] \in {"store", "storeOver"} /\ \E r \in Threads : Unadvanced(r))
  BY <1>3 DEF Unadvanced
<1>7. ~(pc[t] = "move" /\ \E r \in Threads \ {t} : Unadvanced(r))
  BY <1>3
<1>8. QED
  BY <1>0, <1>1, <1>4, <1>5, <1>6, <1>7 DEF Breaks, Exactly, HasReserved

LEMMA FullStays ==
  ASSUME ~CasMayFail, Closers = {}, FullInv, [Next]_vars
  PROVE  FullInv'
<1>1. Inv' /\ BaseInv /\ BaseInv'
  BY InvStays DEF FullInv, Inv
<1>2. CASE UNCHANGED vars
  <2>1. WholeInv' <=> WholeInv
    BY <1>2 DEF WholeInv, Whole, Stored, RingCredits, InRing, Making, Dist, SlotContent, Content,
       Far, vars, queueVars, callVars, syncVars, ringVars, dropVars
  <2>2. QED
    <3>1. ModeInv' <=> ModeInv
      BY <1>2 DEF ModeInv, Early, vars, queueVars, callVars, syncVars, dropVars
    <3>2. AloneInv' <=> AloneInv
      BY <1>2 DEF AloneInv, Lone, Exactly, Stored, RingCredits, InRing, Making, vars, queueVars,
         callVars, syncVars, ringVars, dropVars
    <3>3. QED
      BY <1>1, <1>2, <2>1, <3>1, <3>2 DEF FullInv, vars, queueVars, ringVars
<1>3. ASSUME NEW t \in Threads, Step(t) PROVE FullInv'
  <2>1. ~cleared'
    <3>1. TypeInv /\ FlowInv(t) /\ pc[t] # "close"
      BY <1>1 DEF BaseInv, FlowInv, Flow
    <3>2. CASE Enters(t)
      BY <3>2 DEF Enters, Call, ringVars, FullInv
    <3>3. CASE Run(t)
      BY <3>1, <3>3, RunMoves
         DEF FullInv, ringVars, RingStep, ModeSet, DropLoaded, Dropped, DropFailed, CountsDrop,
             StoresMessage, CountsUp, Advanced, AdvanceFailed, CountsDown, Closed, Moved
    <3>4. QED
      BY <1>3, <3>2, <3>3 DEF Step
  <2>2. ASSUME ~broken' PROVE Whole'
    <3>1. ~broken
      BY <1>1, <1>3, <2>1, <2>2, StepRing
    <3>2. QED
      BY <1>1, <1>3, <2>1, <2>2, <3>1, WholeStays DEF FullInv, Inv, WholeInv
  <2>3. ModeInv'
    BY <1>1, <1>3, ModeStays DEF FullInv
  <2>4. ASSUME ~broken' PROVE AloneInv'
    <3>1. ~broken /\ RingEffect(t)
      BY <1>1, <1>3, <2>1, <2>4, StepRing
    <3>2. InOrder
      BY <3>1 DEF FullInv, WholeInv, InOrder
    <3>3. QED
      BY <1>1, <1>3, <2>1, <3>1, <3>2, AloneStays DEF FullInv
  <2>5. QED
    BY <1>1, <2>1, <2>2, <2>3, <2>4 DEF FullInv, WholeInv
<1>4. QED
  BY <1>2, <1>3, Stepping

LEMMA FullInit == Init => FullInv /\ Stored = 0 /\ Making = {}
<1> SUFFICES ASSUME Init PROVE FullInv /\ Stored = 0 /\ Making = {}
  OBVIOUS
<1>1. Inv /\ BaseInv
  BY InvInit DEF Inv
<1>2. /\ \A t \in Threads : pc[t] = "idle" /\ todo[t] = <<>>
      /\ occupied = 0 /\ head \in Slots /\ ~cleared /\ alone = {}
  BY SlotsIn DEF Init, CallInit, SyncInit, RingInit
<1>3. RingCredits = {} /\ Making = {}
  BY <1>1, <1>2, WeightAt DEF RingCredits, Making, ReadLabels
<1>4. Stored = 0
  BY <1>2, <1>3, FS_EmptySet DEF Stored
<1>5. \A i \in Slots : Dist(i) \in Slots
  BY <1>2, FarMath DEF Dist
<1>6. Whole
  BY <1>4, <1>5, CapacityAssumption DEF Whole, Slots
<1>7. ModeInv /\ AloneInv
  BY <1>2, EmptyProgram DEF ModeInv, Early, AloneInv
<1>8. QED
  BY <1>1, <1>2, <1>3, <1>4, <1>6, <1>7 DEF FullInv, WholeInv

LEMMA QueueLength ==
  ASSUME InOrder
  PROVE  /\ Len(Queue) = Stored
         /\ Fifo!Full <=> Stored = Capacity
         /\ Fifo!Empty <=> Stored = 0
<1>1. Len(Queue) = Stored
  BY QueueParts
<1>2. Queue = <<>> <=> Stored = 0
  BY QueueParts
<1>3. QED
  BY <1>1, <1>2 DEF Fifo!Full, Fifo!Empty

(* A call is refused for a full or an empty queue, or meets another.       *)
LEMMA RefusedRightly ==
  ASSUME InOrder, NEW t \in Threads, NEW how \in {"false", "deadlock"}, Refused(t, how)
  PROVE  /\ Fifo!MayRefuse(t, how)
         /\ pc[t] \in {"check", "tryEmpty", "overflow", "take"}
         /\ op[t] # "none" /\ outcome[t] = "none"
<1>0. BaseInv /\ TypeInv /\ FlowInv(t) /\ Capacity \in Nat /\ Stored \in Nat /\ Stored <= Capacity
  BY QueueParts DEF InOrder, Inv, BaseInv
<1>1. CASE pc[t] = "check" /\ Deadlocked(t, how)
  <2>1. CASE op[t] \in SendOps /\ IsFull
    <3>1. Fifo!Full \/ Fifo!Misled(t)
      BY <1>0, <1>1, <2>1, WhenAlone, QueueLength DEF IsFull, Fifo!Misled
    <3>2. op[t] \in {"Send", "TrySend"}
      BY <2>1 DEF SendOps
    <3>3. QED
      BY <1>0, <1>1, <3>1, <3>2 DEF Deadlocked, TryOps, Fifo!MayRefuse, FlowInv, Flow, Decided
  <2>2. CASE op[t] \in ReadOps /\ IsEmpty
    <3>1. Fifo!Empty \/ Fifo!Misled(t)
      BY <1>0, <1>1, <2>2, WhenAlone, QueueLength DEF IsEmpty, Fifo!Misled
    <3>2. op[t] \in {"Read", "TryRead"}
      BY <2>2 DEF ReadOps
    <3>3. QED
      BY <1>0, <1>1, <3>1, <3>2 DEF Deadlocked, TryOps, Fifo!MayRefuse, FlowInv, Flow, Decided
  <2>3. QED
    BY <1>1, <2>1, <2>2 DEF Deadlocked
<1>2. CASE pc[t] = "tryEmpty" /\ todo[t] = <<>> /\ IsEmpty /\ how = "false"
  <2>1. Fifo!Empty \/ Fifo!Misled(t)
    BY <1>2, WhenAlone, QueueLength DEF IsEmpty, Fifo!Misled
  <2>2. QED
    BY <1>0, <1>2, <2>1 DEF Fifo!MayRefuse, FlowInv, Flow, Decided
<1>3. CASE GivesUp(t) /\ how = "false"
  <2>0. todo[t] # <<>> /\ Row(op[t], pc[t], Head(todo[t]), todo[t], Tail(todo[t]))
    BY <1>0, <1>3, NextPrimitive DEF GivesUp
  <2>1. CASE Head(todo[t]) = "occupied.try_acquire" /\ occupied = 0
    <3>1. op[t] = "TryRead" /\ pc[t] \in {"tryEmpty", "take"} /\ Wants(todo[t])
      BY <2>0, <2>1 DEF Row, OccupiedAcquires, Wants
    <3>2. Fifo!Empty \/ Fifo!Misled(t)
      BY <2>1, <3>1, WhenAlone, QueueLength DEF ReadLabels, Fifo!Misled
    <3>3. QED
      BY <1>0, <1>3, <3>1, <3>2 DEF Fifo!MayRefuse, FlowInv, Flow, Decided
  <2>2. CASE Head(todo[t]) = "mutex.try_lock" /\ mutex # NoThread
    <3>1. /\ op[t] \in LockOps \cap TryOps /\ pc[t] \in {"overflow", "tryEmpty", "take"}
          /\ Awaits(todo[t]) /\ ~Owes(todo[t])
      BY <2>0, <2>2 DEF Row, Locks, Awaits
    <3>2. mutex # t /\ mutex \in Threads
      BY <1>0, <2>2, <3>1 DEF BaseInv, Locked, LockedAt, TypeInv, TypeOK
    <3>3. op[mutex] # "none"
      BY <1>0, <3>2 DEF BaseInv, Locked, LockedAt, LockOps, SendOps, ReadOps
    <3>4. Fifo!Misled(t)
      BY <3>2, <3>3 DEF Fifo!Misled
    <3>5. op[t] \in {"TrySend", "TryRead"}
      BY <3>1 DEF TryOps
    <3>6. QED
      BY <1>0, <1>3, <3>1, <3>4, <3>5 DEF Fifo!MayRefuse, FlowInv, Flow, Decided
  <2>3. QED
    BY <1>3, <2>1, <2>2 DEF GivesUp
<1>4. QED
  BY <1>1, <1>2, <1>3 DEF Refused

(* The steps of DropOldestFifo, in terms of this module's variables.       *)
LEMMA HandsMove ==
  ASSUME BaseInv, BaseInv', NEW t \in Threads, Others(t)
  PROVE  /\ InHand' = [InHand EXCEPT ![t] = InHand'[t]]
         /\ InHand[t] = IF Unadvanced(t) THEN NoMessage ELSE msg[t]
         /\ InHand'[t] = IF Unadvanced(t)' THEN NoMessage ELSE msg'[t]
         /\ InHand'[t] = InHand[t] => InHand' = InHand
         /\ op' = [op EXCEPT ![t] = op'[t]] /\ (op'[t] = op[t] => op' = op)
         /\ outcome' = [outcome EXCEPT ![t] = outcome'[t]]
         /\ outcome'[t] = outcome[t] => outcome' = outcome
<1>1. \A s \in Threads \ {t} : InHand'[s] = InHand[s]
  BY DEF InHand, Unadvanced, Others
<1>2. /\ InHand[t] = IF Unadvanced(t) THEN NoMessage ELSE msg[t]
      /\ InHand'[t] = IF Unadvanced(t)' THEN NoMessage ELSE msg'[t]
  BY DEF InHand
<1>3. /\ InHand = [s \in Threads |-> InHand[s]]
      /\ InHand' = [s \in Threads |-> InHand'[s]]
  BY DEF InHand
<1>4. /\ op \in [Threads -> Ops] /\ op' \in [Threads -> Ops]
      /\ outcome \in [Threads -> Outcomes] /\ outcome' \in [Threads -> Outcomes]
  BY DEF BaseInv, TypeInv, TypeOK, CallTypeOK
<1>5. /\ op' = [op EXCEPT ![t] = op'[t]] /\ (op'[t] = op[t] => op' = op)
      /\ outcome' = [outcome EXCEPT ![t] = outcome'[t]]
      /\ outcome'[t] = outcome[t] => outcome' = outcome
  BY <1>4 DEF Others
<1> HIDE DEF InHand
<1>6. QED
  BY <1>1, <1>2, <1>3, <1>5

(* Within a call, nothing changes about which call has overlapped none.    *)
LEMMA AloneKept ==
  ASSUME InOrder, InOrder', NEW t \in Threads, Step(t), op'[t] = op[t]
  PROVE  alone' = alone
<1>0. BaseInv /\ BaseInv' /\ TypeInv /\ FlowInv(t) /\ FlowInv(t)'
  BY DEF InOrder, Inv, BaseInv
<1>1. ~Enters(t)
  <2>1. Enters(t) => pc[t] = "idle" /\ pc'[t] # "idle"
    BY <1>0, EnterMoves, MovedThread DEF EntersAs
  <2>2. QED
    BY <1>0, <2>1 DEF FlowInv, Flow
<1>2. QED
  BY <1>0, <1>1, AloneStep DEF Step

(* Storing a message is the moment a send takes effect.                    *)
LEMMA StorePuts ==
  ASSUME InOrder, InOrder', NEW t \in Threads, Step(t), ~Breaks(t), Stores(t)
  PROVE  Fifo!DropStep(t)
<1>1. /\ BaseInv /\ BaseInv' /\ RingInv /\ Readers' /\ Others(t) /\ Passing(t) /\ FlowInv(t)
  BY StepOthers, StepPassing DEF InOrder, Inv, BaseInv, RingInv
<1>2. Stored < Capacity
  BY <1>1, RoomToStore DEF Stores
<1>3. Queue' = Append(Queue, msg[t])
  <2>1. \A i \in Slots : SlotContent(i)' = IF i = tail THEN msg[t] ELSE SlotContent(i)
    BY <1>1, ContentGrows
  <2>2. QED
    BY <1>2, <2>1, QueueGrows DEF Stores
<1>4. /\ pc[t] \in {"store", "storeOver"} /\ pc'[t] = "countUp"
      /\ op[t] \in SendOps /\ outcome[t] = "none"
  BY <1>1 DEF Stores, FlowInv, Flow, WriteLabels, Decided
<1>5. InHand[t] = msg[t] /\ InHand' = [InHand EXCEPT ![t] = NoMessage]
  BY <1>1, <1>4, HandsMove DEF Unadvanced, Stores
<1>6. op' = op /\ outcome' = [outcome EXCEPT ![t] = "returned"]
  BY <1>1, HandsMove DEF Stores
<1>7. ~Fifo!Full
  BY <1>2, QueueLength, QueueParts
<1>8. Making' = Making \ {t} /\ alone' = alone
  BY AloneKept DEF Stores
<1>9. QED
  BY <1>3, <1>4, <1>5, <1>6, <1>7, <1>8
     DEF Fifo!DropStep, Fifo!Put, Fifo!Running, Fifo!Decide, Fifo!SendOps, SendOps

(* Dropping the oldest message is a step of its own, before the store; the *)
(* queue is full unless the call overlaps another.                         *)
LEMMA DiscardDrops ==
  ASSUME InOrder, InOrder', AloneInv, NEW t \in Threads, Step(t), ~Breaks(t), Discards(t)
  PROVE  Fifo!DropStep(t)
<1>1. /\ BaseInv /\ BaseInv' /\ RingInv /\ Others(t) /\ Passing(t) /\ FlowInv(t)
  BY StepOthers, StepPassing DEF InOrder, Inv, BaseInv
<1>2. Stored > 0 /\ \A i \in Slots : i # head => SlotContent(i)' = SlotContent(i)
  BY <1>1, SomethingThere, ContentShrinks
<1>3. Queue # <<>> /\ Queue' = Tail(Queue)
  BY <1>2, QueueShrinks DEF Discards
<1>4. pc[t] = "dropHead" /\ op[t] \in SendOps /\ outcome[t] = "none" /\ t \notin Making
  BY <1>1 DEF Discards, FlowInv, Flow, WriteLabels, Decided, Making
<1>5. InHand' = InHand /\ op' = op /\ outcome' = outcome
  BY <1>1, HandsMove DEF Unadvanced, Discards, SameCall
<1>6. Making' = Making \cup {t} /\ alone' = alone
  BY AloneKept DEF Discards, SameCall
<1>7. Fifo!Full \/ t \notin alone
  BY <1>4, QueueLength DEF AloneInv, Exactly
<1>8. QED
  BY <1>3, <1>4, <1>5, <1>6, <1>7
     DEF Fifo!DropStep, Fifo!Drop, Fifo!Empty, Fifo!Running, Fifo!SendOps, SendOps

(* Advancing the head is the moment a read takes effect.                   *)
LEMMA AdvanceTakes ==
  ASSUME InOrder, InOrder', NEW t \in Threads, Step(t), ~Breaks(t), Takes(t)
  PROVE  Fifo!DropStep(t)
<1>1. /\ BaseInv /\ BaseInv' /\ RingInv /\ Readers /\ Others(t) /\ Passing(t) /\ FlowInv(t)
  BY StepOthers, StepPassing DEF InOrder, Inv, BaseInv, RingInv
<1>2. Stored > 0 /\ \A i \in Slots : i # head => SlotContent(i)' = SlotContent(i)
  BY <1>1, SomethingThere, ContentShrinks
<1>3. Front(t)
  BY DEF Breaks, Takes, Front
<1>4. Queue # <<>> /\ Head(Queue) = msg[t] /\ Queue' = Tail(Queue)
  BY <1>1, <1>2, <1>3, ContentIs, QueueShrinks DEF Takes
<1>5. pc[t] = "advance" /\ pc'[t] = "countDown" /\ op[t] \in ReadOps /\ outcome[t] = "none"
  BY <1>1 DEF Takes, FlowInv, Flow, ReadLabels, Decided
<1>6. InHand' = [InHand EXCEPT ![t] = msg[t]]
  BY <1>1, <1>5, HandsMove DEF Unadvanced, Takes
<1>7. /\ op' = op /\ outcome' = [outcome EXCEPT ![t] = "returned"] /\ Making' = Making
      /\ alone' = alone
  BY <1>1, HandsMove, AloneKept DEF Takes
<1>8. QED
  BY <1>4, <1>5, <1>6, <1>7
     DEF Fifo!DropStep, Fifo!Take, Fifo!Running, Fifo!Empty, Fifo!Decide, Fifo!ReadOps, ReadOps

(* A call that begins; no thread may close the queue.                      *)
LEMMA EnterInvokes ==
  ASSUME InOrder, InOrder', NEW t \in Threads, Enters(t), Others(t), Closers = {},
         Queue' = Queue, Making' = Making
  PROVE  Fifo!DropStep(t)
<1>1. BaseInv /\ BaseInv' /\ TypeInv /\ FlowInv(t)
  BY DEF InOrder, Inv, BaseInv
<1>2. CallSend(t) \/ CallRead(t)
  BY DEF Enters, Call, CallClose
<1>3. /\ pc[t] = "idle" /\ pc'[t] \in {"check", "return"}
      /\ UNCHANGED outcome \/ (Policy = "kOnThreadRoleChange" /\ Decide(t, "roleChange"))
  BY <1>1, <1>2 DEF CallSend, CallRead, Enter, AccountThreads, RoleAccepted, Finish, Goto,
     TypeInv, TypeOK, CallTypeOK
<1>4. /\ op[t] = "none" /\ InHand[t] = NoMessage
      /\ InHand' = [InHand EXCEPT ![t] = msg'[t]]
      /\ msg'[t] = NoMessage => InHand' = InHand
  <2>1. op[t] = "none" /\ msg[t] = NoMessage
    BY <1>1, <1>3 DEF FlowInv, Flow
  <2>2. ~Unadvanced(t) /\ ~Unadvanced(t)'
    BY <1>3 DEF Unadvanced
  <2>3. QED
    BY <1>1, <2>1, <2>2, HandsMove
<1>0. alone' = IF Fifo!BeginsAlone(t) THEN {t} ELSE {}
  BY DEF Enters, Fifo!BeginsAlone
<1>5. CASE CallSend(t)
  <2>1. PICK o \in SendOps, m \in Messages : Enter(t, o, m)
    BY <1>5 DEF CallSend
  <2>2. InHand' = [InHand EXCEPT ![t] = m] /\ op' = [op EXCEPT ![t] = o]
    BY <1>1, <1>4, <2>1 DEF Enter, TypeInv, TypeOK, CallTypeOK
  <2>3. Fifo!Invoke(t)
    BY <1>3, <1>4, <2>1, <2>2 DEF Fifo!Invoke, Fifo!Decide, Fifo!SendOps, SendOps, Decide
  <2>4. QED
    BY <1>0, <2>3 DEF Fifo!DropStep
<1>6. CASE CallRead(t)
  <2>1. PICK o \in ReadOps : Enter(t, o, NoMessage)
    BY <1>6 DEF CallRead
  <2>2. InHand' = InHand /\ op' = [op EXCEPT ![t] = o]
    BY <1>1, <1>4, <2>1 DEF Enter, TypeInv, TypeOK, CallTypeOK
  <2>3. Fifo!Invoke(t)
    BY <1>3, <1>4, <2>1, <2>2 DEF Fifo!Invoke, Fifo!Decide, Fifo!ReadOps, ReadOps, Decide
  <2>4. QED
    BY <1>0, <2>3 DEF Fifo!DropStep
<1>7. QED
  BY <1>2, <1>5, <1>6

(* The steps that leave the messages of the ring where they are.           *)
LEMMA StaysRefines ==
  ASSUME InOrder, InOrder', ~CasMayFail, Closers = {}, NEW t \in Threads, Step(t),
         Quiet(t) \/ Loads(t) \/ MovesOut(t)
  PROVE  Fifo!DropStep(t) \/ UNCHANGED Fifo!dropVars
<1>1. /\ BaseInv /\ BaseInv' /\ RingInv /\ Readers /\ Readers' /\ Others(t) /\ Passing(t)
      /\ FlowInv(t)
  BY StepOthers, StepPassing DEF InOrder, Inv, BaseInv, RingInv
<1>2. Queue' = Queue
  <2>1. ~Front(t)
    BY <1>1 DEF Quiet, Loads, MovesOut, Front, Unadvanced, Readers
  <2>2. head' = head /\ Stored' = Stored
    BY DEF Quiet, Loads, MovesOut
  <2>3. \A i \in Slots : Dist(i) < Stored => SlotContent(i)' = SlotContent(i)
    BY <1>1, <2>1, ContentStays
  <2>4. QED
    BY <2>2, <2>3, QueueStays
<1>3. Making' = Making
  BY DEF Quiet, Loads, MovesOut
<1>4. ASSUME InHand'[t] = InHand[t], op'[t] = op[t], outcome'[t] = outcome[t]
      PROVE  UNCHANGED Fifo!dropVars
  BY <1>1, <1>2, <1>3, <1>4, HandsMove, AloneKept DEF Fifo!dropVars, Fifo!vars
<1>5. CASE Loads(t)
  <2>1. pc[t] = "take" => msg[t] = NoMessage
    BY <1>1 DEF FlowInv, Flow, ReadLabels
  <2>2. InHand'[t] = InHand[t]
    BY <1>1, <1>5, <2>1, HandsMove DEF Loads, Unadvanced
  <2>3. QED
    BY <1>4, <1>5, <2>2 DEF Loads, SameCall
<1>6. CASE MovesOut(t)
  <2>1. InHand'[t] = InHand[t]
    BY <1>1, <1>6, HandsMove DEF MovesOut, Unadvanced
  <2>2. QED
    BY <1>4, <1>6, <2>1 DEF MovesOut
<1>7. CASE Quiet(t)
  <2>0. InHand[t] = msg[t] /\ InHand'[t] = msg'[t]
    BY <1>1, <1>7, HandsMove DEF Quiet
  <2>1. CASE SameCall(t)
    BY <1>4, <2>0, <2>1 DEF SameCall
  <2>2. CASE Enters(t)
    BY <1>1, <1>2, <1>3, <2>2, EnterInvokes
  <2>3. CASE /\ pc[t] = "return"
             /\ op'[t] = "none" /\ msg'[t] = NoMessage /\ outcome'[t] = "none"
    <3>1. outcome[t] # "none"
      BY <1>1, <2>3 DEF FlowInv, Flow, Decided
    <3>2. /\ op' = [op EXCEPT ![t] = "none"] /\ InHand' = [InHand EXCEPT ![t] = NoMessage]
          /\ outcome' = [outcome EXCEPT ![t] = "none"]
      BY <1>1, <2>0, <2>3, HandsMove
    <3>3. Fifo!Return(t)
      BY <1>2, <3>1, <3>2 DEF Fifo!Return, Fifo!Decide
    <3>4. alone' = alone \ {t}
      <4>1. ~Enters(t)
        BY <1>1, <2>3, EnterMoves DEF BaseInv
      <4>2. QED
        BY <1>1, <2>3, <4>1, AloneStep DEF Step
    <3>5. QED
      BY <1>3, <3>3, <3>4 DEF Fifo!DropStep
  <2>4. ASSUME NEW how \in {"false", "deadlock"}, Refused(t, how) PROVE Fifo!DropStep(t)
    <3>1. Fifo!MayRefuse(t, how) /\ op[t] # "none" /\ outcome[t] = "none" /\ t \notin Making
      BY <2>4, RefusedRightly DEF Making
    <3>2. InHand' = InHand /\ op' = op /\ outcome' = [outcome EXCEPT ![t] = how]
      BY <1>1, <2>0, <2>4, HandsMove DEF Refused
    <3>3. Fifo!Refuse(t)
      BY <1>2, <3>1, <3>2 DEF Fifo!Refuse, Fifo!Running, Fifo!Decide
    <3>4. alone' = alone
      BY <2>4, AloneKept DEF Refused
    <3>5. QED
      BY <1>3, <3>1, <3>3, <3>4 DEF Fifo!DropStep
  <2>5. QED
    BY <1>1, <1>7, <2>1, <2>2, <2>3, <2>4, QuietCall DEF InOrder
<1>8. QED
  BY <1>5, <1>6, <1>7

LEMMA InitRefines ==
  ASSUME ~CasMayFail, Init
  PROVE  Fifo!DropInit
<1>1. FullInv /\ Stored = 0 /\ Making = {} /\ ~broken
  BY FullInit DEF Init
<1>2. Queue = <<>>
  <2>1. Len(Queue) = 0
    BY <1>1, QueueLength DEF FullInv, WholeInv, InOrder
  <2>2. QED
    BY <1>1, QueueLength DEF FullInv, WholeInv, InOrder, Fifo!Empty
<1>3. InHand = [t \in Threads |-> NoMessage]
  BY DEF InHand, Unadvanced, Init, CallInit
<1>4. QED
  BY <1>1, <1>2, <1>3 DEF Fifo!DropInit, Fifo!Init, Init, CallInit

(* Every step of a drop-oldest queue that nobody closes is one of a FIFO   *)
(* that takes the oldest message out to make room for a send, or it breaks *)
(* the ring.  A call that overlaps no other takes it out of a full queue   *)
(* only, is refused for a full or an empty queue only, and never breaks    *)
(* the ring, whatever earlier calls have left behind.  Up to a break, no   *)
(* message is lost otherwise, duplicated, invented or overtaken.           *)
(* A close empties the ring, which no step of the FIFO does, and an        *)
(* exchange that fails by itself makes a reader move the same slot again.  *)
THEOREM Refinement == ~CasMayFail /\ Closers = {} => (Spec => ImplementsDropOldest)
<1> SUFFICES ASSUME ~CasMayFail, Closers = {} PROVE Spec => ImplementsDropOldest
  OBVIOUS
<1>1. FullInv /\ [Next]_vars => FullInv'
  BY FullStays
<1>2. FullInv /\ FullInv' /\ [Next]_vars =>
        [Fifo!DropNext \/ (broken' /\ alone = {})]_<<Fifo!dropVars, broken>>
  <2> SUFFICES ASSUME FullInv, FullInv', [Next]_vars
               PROVE  \/ Fifo!DropNext \/ (broken' /\ alone = {})
                      \/ UNCHANGED <<Fifo!dropVars, broken>>
    OBVIOUS
  <2>1. BaseInv /\ BaseInv' /\ ~cleared' /\ broken \in BOOLEAN /\ broken' \in BOOLEAN
    BY DEF FullInv, Inv, BaseInv, TypeInv, TypeOK
  <2>2. ASSUME NEW t \in Threads, Step(t), broken'
        PROVE  alone = {}
    <3>1. Run(t) /\ ~broken /\ Breaks(t)
      BY <2>2 DEF Step, Enters, Run, RecordHistory
    <3>2. InOrder /\ AloneInv
      BY <3>1 DEF FullInv, WholeInv, InOrder
    <3>3. op[t] # "none"
      BY <2>1, <3>1, AloneStep
    <3>4. QED
      BY <3>1, <3>2, <3>3, BreaksTogether
  <2>3. ASSUME NEW t \in Threads, Step(t), ~broken'
        PROVE  Fifo!DropStep(t) \/ UNCHANGED <<Fifo!dropVars, broken>>
    <3>1. RingEffect(t) /\ ~broken /\ ~Breaks(t)
      BY <2>1, <2>3, StepRing
    <3>2. InOrder /\ InOrder' /\ AloneInv
      BY <2>3, <3>1 DEF FullInv, WholeInv, InOrder
    <3>3. broken' = broken
      BY <2>1, <2>3, <3>1
    <3>4. CASE Quiet(t) \/ Loads(t) \/ MovesOut(t)
      BY <2>3, <3>2, <3>3, <3>4, StaysRefines
    <3>5. CASE Stores(t)
      BY <2>3, <3>1, <3>2, <3>5, StorePuts
    <3>6. CASE Discards(t)
      BY <2>3, <3>1, <3>2, <3>6, DiscardDrops
    <3>7. CASE Takes(t)
      BY <2>3, <3>1, <3>2, <3>7, AdvanceTakes
    <3>8. QED
      BY <3>1, <3>4, <3>5, <3>6, <3>7 DEF RingEffect
  <2>4. CASE UNCHANGED vars
    <3>1. /\ UNCHANGED <<pc, op, msg, outcome, index, buffer, head, tail, passed, alone, broken>>
      BY <2>4 DEF vars, queueVars, callVars, syncVars, ringVars
    <3>2. InHand' = InHand /\ Making' = Making
      BY <3>1 DEF InHand, Unadvanced, Making
    <3>3. \A i : SlotContent(i)' = SlotContent(i)
      BY <3>1 DEF SlotContent, Content
    <3>4. Size' = Size
      BY <3>1, <3>2, <3>3 DEF Size
    <3>5. Queue' = Queue
      BY <3>1, <3>3, <3>4 DEF Queue
    <3>6. QED
      BY <3>1, <3>2, <3>5 DEF Fifo!dropVars, Fifo!vars
  <2>5. QED
    BY <2>2, <2>3, <2>4, Stepping DEF Fifo!DropNext
<1>3. Init => FullInv /\ Fifo!DropInit
  BY FullInit, InitRefines
<1>4. QED
  BY <1>1, <1>2, <1>3, PTL DEF Spec, ImplementsDropOldest

=============================================================================
