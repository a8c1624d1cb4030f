---------------------- MODULE BenchmarkScenario_proofs ----------------------
(***************************************************************************)
(* Proofs about BenchmarkScenario for any numbers of producers, consumers  *)
(* and messages, and any capacity.                                         *)
(*                                                                         *)
(* The argument is an account of the messages.  Those still to be produced *)
(* are a set of numbers, dealt out to the producers in turn, so that no    *)
(* sum over the producers is needed; those on their way are counted by     *)
(* where their threads are.                                                *)
(***************************************************************************)
EXTENDS BenchmarkScenario, FiniteSetTheorems, TLAPS

Workforce == Producers \cup Consumers

ProducerLabels == {"loop", "try", "send", "overflow", "drop", "store", "storeOver",
                   "countUp", "sent", "produce", "finish", "ended"}
ConsumerLabels == {"poll", "pollDone", "pollSize", "pollCounters", "read", "take",
                   "leave", "countDown", "deliver", "ended"}

BasicTypes ==
  /\ adapter \in {"bounded", "dropOldest"}
  /\ held \in Nat /\ size \in Int /\ dropped \in Nat
  /\ left \in [Producers -> Nat]
  /\ produced \in Nat /\ delivered \in Nat /\ producersDone \in Nat
  /\ stopRequested \in BOOLEAN /\ scenarioDone \in BOOLEAN
  /\ timedOut \in BOOLEAN
  /\ pc \in [Workforce -> ProducerLabels \cup ConsumerLabels]
  /\ \A p \in Producers : pc[p] \in ProducerLabels
  /\ \A c \in Consumers : pc[c] \in ConsumerLabels
  /\ watchdog \in {"watch", "clock", "ended"}
  /\ main \in {"join", "joinWatchdog", "reported"}

-----------------------------------------------------------------------------
(***************************************************************************)
(* The messages to send, numbered so that number x falls to producer x % N *)
(* as its message number x \div N.                                         *)
(***************************************************************************)
ToSend == {x \in 0..(TotalMessages - 1) : x \div N < left[x % N]}

LEMMA DivMod ==
  ASSUME NEW x \in Nat
  PROVE  /\ x \div N \in Nat /\ x % N \in Producers
         /\ x = N * (x \div N) + (x % N)
  BY ProducersAssumption DEF Producers

(* Quotient and remainder are unique. *)
LEMMA DivModUnique ==
  ASSUME NEW q \in Nat, NEW r \in Producers
  PROVE  /\ N * q + r \in Nat
         /\ (N * q + r) \div N = q /\ (N * q + r) % N = r
<1>1. N * q \in Nat /\ r \in Nat /\ r < N
  BY ProducersAssumption DEF Producers
<1> DEFINE x == N * q + r
<1>2. x \in Nat
  BY <1>1
<1>3. x \div N \in Nat /\ x % N \in 0..(N - 1) /\ x = N * (x \div N) + (x % N)
  BY <1>2, DivMod DEF Producers
<1>4. ASSUME NEW a \in Nat, NEW b \in Nat, a < b PROVE N * a + N <= N * b
  <2>1. a + 1 <= b
    BY <1>4
  <2>2. N * (a + 1) <= N * b
    BY <2>1, ProducersAssumption
  <2>3. QED
    BY <2>2, ProducersAssumption
<1>5. x \div N = q
  <2>1. ~(x \div N < q)
    BY <1>1, <1>2, <1>3, <1>4, ProducersAssumption
  <2>2. ~(q < x \div N)
    BY <1>1, <1>2, <1>3, <1>4, ProducersAssumption
  <2>3. QED
    BY <1>3, <2>1, <2>2
<1>6. x % N = r
  BY <1>1, <1>2, <1>3, <1>5
<1>7. QED
  BY <1>2, <1>5, <1>6

(* The shares of the producers add up to all messages. *)
LEMMA SharesAddUp ==
  ASSUME NEW x \in Nat
  PROVE  x < TotalMessages <=> x \div N < LocalTotal(x % N)
<1> DEFINE q == x \div N
           r == x % N
           Q == TotalMessages \div N
           R == TotalMessages % N
<1>1. q \in Nat /\ r \in 0..(N - 1) /\ x = N * q + r
  BY DivMod DEF Producers
<1>2. Q \in Nat /\ R \in 0..(N - 1) /\ TotalMessages = N * Q + R
  BY DivMod, SizesAssumption DEF Producers
<1>3. ASSUME NEW a \in Nat, NEW b \in Nat, a < b PROVE N * a + N <= N * b
  <2>1. a + 1 <= b
    BY <1>3
  <2>2. N * (a + 1) <= N * b
    BY <2>1, ProducersAssumption
  <2>3. QED
    BY <2>2, ProducersAssumption
<1>4. N * q \in Nat /\ N * Q \in Nat /\ N \in Nat
  BY <1>1, <1>2, ProducersAssumption
<1> HIDE DEF q, r, Q, R
<1>5. CASE q < Q
  <2>1. N * q + N <= N * Q
    BY <1>1, <1>2, <1>3, <1>5
  <2>2. x < TotalMessages
    BY <1>1, <1>2, <1>4, <2>1
  <2>3. q < Q + (IF r < R THEN 1 ELSE 0)
    BY <1>1, <1>2, <1>5
  <2>4. QED
    BY <2>2, <2>3 DEF LocalTotal, q, r, Q, R
<1>6. CASE q = Q
  <2>1. x < TotalMessages <=> r < R
    BY <1>1, <1>2, <1>4, <1>6
  <2>2. q < Q + (IF r < R THEN 1 ELSE 0) <=> r < R
    BY <1>1, <1>2, <1>6
  <2>3. QED
    BY <2>1, <2>2 DEF LocalTotal, q, r, Q, R
<1>7. CASE Q < q
  <2>1. N * Q + N <= N * q
    BY <1>1, <1>2, <1>3, <1>7
  <2>2. ~(x < TotalMessages)
    BY <1>1, <1>2, <1>4, <2>1
  <2>3. ~(q < Q + (IF r < R THEN 1 ELSE 0))
    BY <1>1, <1>2, <1>7
  <2>4. QED
    BY <2>2, <2>3 DEF LocalTotal, q, r, Q, R
<1>8. QED
  BY <1>1, <1>2, <1>5, <1>6, <1>7

(* The message a producer turns to next is one of those to send. *)
LEMMA NextToSend ==
  ASSUME NEW p \in Producers, NEW k \in Nat, k < LocalTotal(p), k < left[p]
  PROVE  N * k + p \in ToSend
<1> DEFINE x == N * k + p
<1>1. x \in Nat /\ x \div N = k /\ x % N = p
  BY DivModUnique
<1>2. x < TotalMessages
  BY <1>1, SharesAddUp
<1>3. x \in 0..(TotalMessages - 1)
  BY <1>1, <1>2, SizesAssumption
<1>4. QED
  BY <1>1, <1>3 DEF ToSend

LEMMA ToSendFinite == IsFiniteSet(ToSend) /\ Cardinality(ToSend) \in Nat
<1>1. ToSend \subseteq 0..(TotalMessages - 1) /\ IsFiniteSet(0..(TotalMessages - 1))
  BY FS_Interval, SizesAssumption DEF ToSend
<1>2. QED
  BY <1>1, FS_Subset, FS_CardinalityType

(* What each producer has left never passes its share, and together with   *)
(* what is produced it is all there is.                                    *)
LeftInv ==
  /\ \A p \in Producers : left[p] <= LocalTotal(p)
  /\ Cardinality(ToSend) + produced = TotalMessages
  /\ \A p \in Producers :
       /\ pc[p] \notin {"loop", "finish", "ended"} => left[p] > 0
       /\ ~stopRequested /\ pc[p] \in {"finish", "ended"} => left[p] = 0

LEMMA InitLeft == Init => LeftInv
<1> SUFFICES ASSUME Init PROVE LeftInv
  OBVIOUS
<1>1. \A p \in Producers : LocalTotal(p) \in Nat
  <2> TAKE p \in Producers
  <2>1. TotalMessages \div N \in Nat
    BY DivMod, SizesAssumption
  <2>2. QED
    BY <2>1 DEF LocalTotal
<1>2. ToSend = 0..(TotalMessages - 1)
  <2> SUFFICES ASSUME NEW x \in 0..(TotalMessages - 1) PROVE x \div N < left[x % N]
    BY DEF ToSend
  <2>1. x \in Nat /\ x < TotalMessages
    BY SizesAssumption
  <2>2. x % N \in Producers /\ x \div N < LocalTotal(x % N)
    BY <2>1, DivMod, SharesAddUp
  <2>3. QED
    BY <2>2 DEF Init
<1>3. Cardinality(ToSend) + produced = TotalMessages
  <2>1. Cardinality(0..(TotalMessages - 1)) = TotalMessages
    BY FS_Interval, SizesAssumption
  <2>2. QED
    BY <1>2, <2>1, SizesAssumption DEF Init
<1>4. QED
  BY <1>1, <1>3 DEF LeftInv, Init, Producers

(* Counting a message as produced takes it off the numbers to send. *)
LEMMA ToSendShrinks ==
  ASSUME BasicTypes, LeftInv, NEW p \in Producers, Produce(p)
  PROVE  Cardinality(ToSend') \in Nat /\ Cardinality(ToSend') + 1 = Cardinality(ToSend)
<1>1. left[p] \in Nat /\ left[p] > 0 /\ left[p] <= LocalTotal(p)
      /\ left' = [left EXCEPT ![p] = left[p] - 1]
  BY DEF BasicTypes, LeftInv, Produce
<1> DEFINE k == left[p] - 1
           n == N * k + p
<1>2. k \in Nat /\ k < left[p] /\ k < LocalTotal(p)
  <2>1. LocalTotal(p) \in Int
    BY ProducersAssumption, SizesAssumption DEF LocalTotal
  <2>2. QED
    BY <1>1, <2>1
<1>3. n \in ToSend
  BY <1>2, NextToSend
<1>4. n \in Nat /\ n \div N = k /\ n % N = p
  BY <1>2, DivModUnique
<1>5. ASSUME NEW x \in 0..(TotalMessages - 1)
      PROVE  x \div N < left'[x % N] <=> x \div N < left[x % N] /\ x # n
  <2>1. x \in Nat /\ x \div N \in Nat /\ x % N \in Producers
        /\ x = N * (x \div N) + (x % N)
    BY DivMod, SizesAssumption
  <2>2. CASE x % N # p
    BY <1>1, <1>4, <2>1, <2>2 DEF BasicTypes
  <2>3. CASE x % N = p
    <3>1. left'[x % N] = k
      BY <1>1, <2>3 DEF BasicTypes
    <3>2. x = n <=> x \div N = k
      BY <1>4, <2>1, <2>3
    <3>3. x \div N < left[x % N] <=> x \div N <= k
      BY <1>1, <1>2, <2>1, <2>3
    <3>4. QED
      BY <1>2, <2>1, <3>1, <3>2, <3>3
  <2>4. QED
    BY <2>2, <2>3
<1>6. ToSend' = ToSend \ {n}
  BY <1>5 DEF ToSend
<1>7. Cardinality(ToSend \ {n}) = Cardinality(ToSend) - 1 /\ IsFiniteSet(ToSend \ {n})
  BY <1>3, ToSendFinite, FS_RemoveElement
<1>8. Cardinality(ToSend \ {n}) \in Nat
  BY <1>7, FS_CardinalityType
<1>9. QED
  BY <1>6, <1>7, <1>8, ToSendFinite

LEMMA StepLeft ==
  ASSUME BasicTypes, LeftInv, [Next]_vars
  PROVE  LeftInv'
<1> USE DEF BasicTypes, Goto, Workforce, Ended
<1>1. ASSUME UNCHANGED <<left, produced>>,
             stopRequested => stopRequested',
             \A p \in Producers :
               \/ pc'[p] = pc[p]
               \/ pc'[p] = "loop"
               \/ pc'[p] \notin {"loop", "finish", "ended"} /\
                  (pc[p] \notin {"loop", "finish", "ended"} \/ left[p] # 0)
               \/ pc'[p] = "finish" /\ (stopRequested \/ left[p] = 0)
               \/ pc'[p] = "ended" /\ pc[p] = "finish"
      PROVE  LeftInv'
  <2>1. Cardinality(ToSend') + produced' = TotalMessages
    BY <1>1 DEF LeftInv, ToSend
  <2>2. QED
    BY <1>1, <2>1 DEF LeftInv
<1>2. CASE UNCHANGED vars
  BY <1>1, <1>2 DEF vars, counters, flags, queueVars
<1>3. ASSUME NEW p \in Producers, Produces(p), ~Produce(p) PROVE LeftInv'
  BY <1>1, <1>3 DEF Produces, NextMessage, BeforeAttempt, TrySend, TrySendFails,
     ResolveSendOverflow, AdvanceHeadForOverwriteDrop, StoreMessage, CountUp,
     AfterSend, ProducerDone, counters, flags, queueVars
<1>4. ASSUME NEW p \in Producers, Produce(p) PROVE LeftInv'
  <2>1. Cardinality(ToSend') \in Nat /\ Cardinality(ToSend') + 1 = Cardinality(ToSend)
    BY <1>4, ToSendShrinks
  <2>2. Cardinality(ToSend) \in Nat
    BY ToSendFinite
  <2>3. produced' = produced + 1 /\ left' = [left EXCEPT ![p] = left[p] - 1]
        /\ pc' = [pc EXCEPT ![p] = "loop"] /\ UNCHANGED stopRequested
    BY <1>4 DEF Produce, flags
  <2>4. Cardinality(ToSend') + produced' = TotalMessages
    BY <2>1, <2>2, <2>3 DEF LeftInv
  <2>5. \A r \in Producers : LocalTotal(r) \in Int
    BY ProducersAssumption, SizesAssumption DEF LocalTotal, Producers
  <2>6. QED
    BY <2>3, <2>4, <2>5 DEF LeftInv
<1>5. ASSUME NEW c \in Consumers, Consumes(c) PROVE LeftInv'
  BY <1>1, <1>5, ConsumersAssumption DEF Consumes, PollStop, PollProducersDone, PollSize,
     PollCounters, TryRead, Acquire, Leave, CancelReadOperation, CountDown, Deliver,
     counters, flags, queueVars
<1>6. CASE Watch \/ ReadClock \/ JoinWorkers \/ Report
  BY <1>1, <1>6 DEF Watch, ReadClock, JoinWorkers, Report, counters, flags, queueVars
<1>7. QED
  BY <1>2, <1>3, <1>4, <1>5, <1>6 DEF Next, Workers

-----------------------------------------------------------------------------
(***************************************************************************)
(* Messages on their way: how many threads are where.                      *)
(***************************************************************************)
Count(at, threads, labels) == Cardinality({t \in threads : at[t] \in labels})

Trying == {"send", "overflow", "drop", "store"}  \* in TrySend
Placed == {"storeOver", "countUp"}               \* and it will return true

Sending   == Count(pc, Producers, Trying)
Uncounted == Count(pc, Producers, Placed)                  \* accepted, not in size
OwedSure  == Count(pc, Producers, Placed \cup {"produce"}) \* accepted, not in produced
Owed      == Count(pc, Producers, Placed \cup {"sent", "produce"})
Finished  == Count(pc, Producers, {"ended"})
Overdue   == Count(pc, Consumers, {"countDown"})           \* taken, still in size
InHand    == Count(pc, Consumers, {"countDown", "deliver"})

(* Every message a queue has accepted is still to be read, made up for by  *)
(* a drop, delivered, or in a consumer's hand.                             *)
Accepted == held + dropped + delivered + InHand

In(label, labels) == IF label \in labels THEN 1 ELSE 0

LEMMA CrewFinite == IsFiniteSet(Producers) /\ IsFiniteSet(Consumers)
  BY FS_Interval, ProducersAssumption, ConsumersAssumption DEF Producers

(* A thread that moves is counted where it comes, and no longer where it   *)
(* was.                                                                    *)
LEMMA CountMoves ==
  ASSUME NEW threads, IsFiniteSet(threads), NEW labels, NEW t \in threads,
         NEW at, NEW next, \A u \in threads : u # t => next[u] = at[u]
  PROVE  Count(next, threads, labels) =
           Count(at, threads, labels) + In(next[t], labels) - In(at[t], labels)
<1> DEFINE A == {u \in threads : at[u] \in labels}
           B == {u \in threads : next[u] \in labels}
           R == A \ {t}
<1>1. IsFiniteSet(A) /\ IsFiniteSet(B)
  BY FS_Subset
<1>2. IsFiniteSet(R) /\ Cardinality(R) \in Nat /\ t \notin R
  BY <1>1, FS_RemoveElement, FS_CardinalityType
<1>3. A = IF at[t] \in labels THEN R \cup {t} ELSE R
  OBVIOUS
<1>4. B = IF next[t] \in labels THEN R \cup {t} ELSE R
  OBVIOUS
<1>5. Cardinality(R \cup {t}) = Cardinality(R) + 1
  BY <1>2, FS_AddElement
<1> HIDE DEF A, B, R
<1>6. Cardinality(A) = Cardinality(R) + In(at[t], labels)
  BY <1>2, <1>3, <1>5 DEF In
<1>7. Cardinality(B) = Cardinality(R) + In(next[t], labels)
  BY <1>2, <1>4, <1>5 DEF In
<1>8. Count(at, threads, labels) = Cardinality(A) /\ Count(next, threads, labels) = Cardinality(B)
  BY DEF Count, A, B
<1>9. In(next[t], labels) \in Int /\ In(at[t], labels) \in Int
  BY DEF In
<1>10. QED
  BY <1>2, <1>6, <1>7, <1>8, <1>9

LEMMA CountStays ==
  ASSUME NEW threads, NEW labels,
         NEW at, NEW next, \A u \in threads : next[u] = at[u]
  PROVE  Count(next, threads, labels) = Count(at, threads, labels)
<1>1. {u \in threads : next[u] \in labels} = {u \in threads : at[u] \in labels}
  OBVIOUS
<1>2. QED
  BY <1>1 DEF Count

LEMMA ProducerMoves ==
  ASSUME BasicTypes, NEW p \in Producers, \A u \in Workforce \ {p} : pc'[u] = pc[u]
  PROVE  /\ Sending' = Sending + In(pc'[p], Trying) - In(pc[p], Trying)
         /\ Uncounted' = Uncounted + In(pc'[p], Placed) - In(pc[p], Placed)
         /\ OwedSure' = OwedSure + In(pc'[p], Placed \cup {"produce"})
                                 - In(pc[p], Placed \cup {"produce"})
         /\ Owed' = Owed + In(pc'[p], Placed \cup {"sent", "produce"})
                         - In(pc[p], Placed \cup {"sent", "produce"})
         /\ Finished' = Finished + In(pc'[p], {"ended"}) - In(pc[p], {"ended"})
         /\ Overdue' = Overdue /\ InHand' = InHand
<1>1. /\ \A u \in Producers : u # p => pc'[u] = pc[u]
      /\ \A u \in Consumers : pc'[u] = pc[u]
  BY ConsumersAssumption DEF Workforce, BasicTypes
<1>2. ASSUME NEW labels
      PROVE  Count(pc', Producers, labels) =
               Count(pc, Producers, labels) + In(pc'[p], labels) - In(pc[p], labels)
  <2>1. IsFiniteSet(Producers) /\ \A u \in Producers : u # p => pc'[u] = pc[u]
    BY <1>1, CrewFinite
  <2>2. QED
    BY ONLY <2>1, CountMoves, p \in Producers
<1>3. \A labels : Count(pc', Consumers, labels) = Count(pc, Consumers, labels)
  BY <1>1, CountStays
<1>4. QED
  BY <1>2, <1>3 DEF Sending, Uncounted, OwedSure, Owed, Finished, Overdue, InHand

LEMMA ConsumerMoves ==
  ASSUME BasicTypes, NEW c \in Consumers, \A u \in Workforce \ {c} : pc'[u] = pc[u]
  PROVE  /\ Overdue' = Overdue + In(pc'[c], {"countDown"}) - In(pc[c], {"countDown"})
         /\ InHand' = InHand + In(pc'[c], {"countDown", "deliver"})
                             - In(pc[c], {"countDown", "deliver"})
         /\ Sending' = Sending /\ Uncounted' = Uncounted /\ OwedSure' = OwedSure
         /\ Owed' = Owed /\ Finished' = Finished
<1>1. /\ \A u \in Consumers : u # c => pc'[u] = pc[u]
      /\ \A u \in Producers : pc'[u] = pc[u]
  BY ConsumersAssumption DEF Workforce, BasicTypes
<1>2. ASSUME NEW labels
      PROVE  Count(pc', Consumers, labels) =
               Count(pc, Consumers, labels) + In(pc'[c], labels) - In(pc[c], labels)
  <2>1. IsFiniteSet(Consumers) /\ \A u \in Consumers : u # c => pc'[u] = pc[u]
    BY <1>1, CrewFinite
  <2>2. QED
    BY ONLY <2>1, CountMoves, c \in Consumers
<1>3. \A labels : Count(pc', Producers, labels) = Count(pc, Producers, labels)
  BY <1>1, CountStays
<1>4. QED
  BY <1>2, <1>3 DEF Sending, Uncounted, OwedSure, Owed, Finished, Overdue, InHand

LEMMA CountsAreNaturals ==
  /\ Sending \in Nat /\ Uncounted \in Nat /\ OwedSure \in Nat /\ Owed \in Nat
  /\ Finished \in Nat /\ Overdue \in Nat /\ InHand \in Nat
<1>1. \A labels : IsFiniteSet({t \in Producers : pc[t] \in labels})
                  /\ IsFiniteSet({t \in Consumers : pc[t] \in labels})
  BY CrewFinite, FS_Subset
<1>2. QED
  BY <1>1, FS_CardinalityType
  DEF Count, Sending, Uncounted, OwedSure, Owed, Finished, Overdue, InHand

LEMMA InitTypes == Init => BasicTypes
<1> SUFFICES ASSUME Init PROVE BasicTypes
  OBVIOUS
<1>1. \A p \in Producers : LocalTotal(p) \in Nat
  <2> TAKE p \in Producers
  <2>1. TotalMessages \div N \in Nat
    BY DivMod, SizesAssumption
  <2>2. QED
    BY <2>1 DEF LocalTotal
<1>2. left \in [Producers -> Nat]
  BY <1>1 DEF Init
<1>3. /\ pc \in [Workforce -> ProducerLabels \cup ConsumerLabels]
      /\ \A p \in Producers : pc[p] \in ProducerLabels
      /\ \A c \in Consumers : pc[c] \in ConsumerLabels
  BY ConsumersAssumption DEF Init, Workforce, ProducerLabels, ConsumerLabels
<1>4. /\ adapter \in {"bounded", "dropOldest"}
      /\ held \in Nat /\ size \in Int /\ dropped \in Nat
      /\ produced \in Nat /\ delivered \in Nat /\ producersDone \in Nat
  BY SizesAssumption DEF Init
<1>5. /\ stopRequested \in BOOLEAN /\ scenarioDone \in BOOLEAN /\ timedOut \in BOOLEAN
      /\ watchdog \in {"watch", "clock", "ended"}
      /\ main \in {"join", "joinWatchdog", "reported"}
  BY DEF Init
<1>6. QED
  BY <1>2, <1>3, <1>4, <1>5 DEF BasicTypes

LEMMA StepTypes ==
  ASSUME BasicTypes, LeftInv, [Next]_vars
  PROVE  BasicTypes'
<1> USE ConsumersAssumption, SizesAssumption
    DEF BasicTypes, Workforce, ProducerLabels, ConsumerLabels, Goto,
        queueVars, counters, flags
<1>1. CASE UNCHANGED vars
  BY <1>1 DEF vars
<1>2. ASSUME NEW p \in Producers,
             NextMessage(p) \/ BeforeAttempt(p) \/ TrySend(p) \/ TrySendFails(p)
      PROVE  BasicTypes'
  BY <1>2 DEF NextMessage, BeforeAttempt, TrySend, TrySendFails
<1>9. ASSUME NEW p \in Producers,
             \/ ResolveSendOverflow(p) \/ AdvanceHeadForOverwriteDrop(p)
             \/ StoreMessage(p)
      PROVE  BasicTypes'
  BY <1>9 DEF ResolveSendOverflow, AdvanceHeadForOverwriteDrop, StoreMessage
<1>3. ASSUME NEW p \in Producers, CountUp(p) \/ AfterSend(p) \/ ProducerDone(p)
      PROVE  BasicTypes'
  BY <1>3 DEF CountUp, AfterSend, ProducerDone
<1>4. ASSUME NEW p \in Producers, Produce(p) PROVE BasicTypes'
  <2>1. left[p] > 0
    BY <1>4 DEF Produce, LeftInv
  <2>2. left' \in [Producers -> Nat]
    BY <1>4, <2>1 DEF Produce
  <2>3. QED
    BY <1>4, <2>2 DEF Produce
<1>5. ASSUME NEW c \in Consumers,
             PollStop(c) \/ PollProducersDone(c) \/ PollSize(c) \/ PollCounters(c)
      PROVE  BasicTypes'
  BY <1>5 DEF PollStop, PollProducersDone, PollSize, PollCounters
<1>6. ASSUME NEW c \in Consumers,
             \/ TryRead(c) \/ Acquire(c) \/ Leave(c) \/ CancelReadOperation(c)
             \/ CountDown(c) \/ Deliver(c)
      PROVE  BasicTypes'
  BY <1>6 DEF TryRead, Acquire, Leave, CancelReadOperation, CountDown, Deliver
<1>7. CASE Watch \/ ReadClock \/ JoinWorkers \/ Report
  BY <1>7 DEF Watch, ReadClock, JoinWorkers, Report
<1>8. QED
  BY <1>1, <1>2, <1>3, <1>4, <1>5, <1>6, <1>7, <1>9 DEF Next, Workers, Produces, Consumes

-----------------------------------------------------------------------------
(***************************************************************************)
(* The account.  Size() lags behind by the calls under way; a message      *)
(* counted as produced was accepted; until the watchdog asks to stop, an   *)
(* accepted message is also counted as produced, or its producer is about  *)
(* to count it.  A producer asked to stop leaves its message uncounted.    *)
(***************************************************************************)
Balance ==
  /\ size + Uncounted = held + Overdue
  /\ producersDone = Finished
  /\ produced + OwedSure <= Accepted
  /\ ~stopRequested => produced + Owed = Accepted

LEMMA InitBalance == Init => Balance
<1> SUFFICES ASSUME Init PROVE Balance
  OBVIOUS
<1>1. \A labels : "loop" \notin labels => {t \in Producers : pc[t] \in labels} = {}
  BY DEF Init
<1>2. \A labels : "poll" \notin labels => {t \in Consumers : pc[t] \in labels} = {}
  BY ConsumersAssumption DEF Init
<1>3. Cardinality({}) = 0
  BY FS_EmptySet
<1>4. Uncounted = 0 /\ OwedSure = 0 /\ Owed = 0 /\ Finished = 0
  BY <1>1, <1>3 DEF Count, Uncounted, OwedSure, Owed, Finished, Placed
<1>5. Overdue = 0 /\ InHand = 0
  BY <1>2, <1>3 DEF Count, Overdue, InHand
<1>6. QED
  BY <1>4, <1>5 DEF Init, Balance, Accepted

(* Nothing but the threads' places enters the counts. *)
LEMMA CountsKept ==
  ASSUME UNCHANGED pc
  PROVE  UNCHANGED <<Sending, Uncounted, OwedSure, Owed, Finished, Overdue, InHand>>
  BY DEF Sending, Uncounted, OwedSure, Owed, Finished, Overdue, InHand

LEMMA SureIsOwed == OwedSure <= Owed /\ OwedSure' <= Owed'
<1>1. ASSUME NEW at
      PROVE  Count(at, Producers, Placed \cup {"produce"})
               <= Count(at, Producers, Placed \cup {"sent", "produce"})
  <2>1. {t \in Producers : at[t] \in Placed \cup {"produce"}}
          \in SUBSET {t \in Producers : at[t] \in Placed \cup {"sent", "produce"}}
    OBVIOUS
  <2>2. IsFiniteSet({t \in Producers : at[t] \in Placed \cup {"sent", "produce"}})
    BY CrewFinite, FS_Subset
  <2>3. QED
    BY <2>1, <2>2, FS_Subset DEF Count
<1>2. QED
  BY <1>1 DEF OwedSure, Owed

OnlyMoves(t) == \A u \in Workforce \ {t} : pc'[u] = pc[u]

(* What a producer's step does to the account: the numbers change as its   *)
(* place does.  Asked to stop, it takes up no further message.             *)
ProducerAccount(p) ==
  /\ OnlyMoves(p)
  /\ delivered' = delivered /\ stopRequested' = stopRequested
  /\ held' \in Int /\ size' \in Int /\ dropped' \in Int /\ produced' \in Int
  /\ producersDone' \in Int
  /\ size' + In(pc'[p], Placed) - In(pc[p], Placed) - size = held' - held
  /\ producersDone' - producersDone = In(pc'[p], {"ended"}) - In(pc[p], {"ended"})
  /\ stopRequested =>
       /\ produced' - produced + In(pc'[p], Placed \cup {"produce"})
                               - In(pc[p], Placed \cup {"produce"})
            <= held' - held + dropped' - dropped
       /\ held' - held + dropped' - dropped + In(pc'[p], Trying) - In(pc[p], Trying) <= 0
  /\ ~stopRequested =>
       produced' - produced + In(pc'[p], Placed \cup {"sent", "produce"})
                            - In(pc[p], Placed \cup {"sent", "produce"})
         = held' - held + dropped' - dropped

(* What a consumer's does: a message it takes stays in its hand until it   *)
(* is delivered or put back.                                               *)
ConsumerAccount(c) ==
  /\ OnlyMoves(c)
  /\ UNCHANGED <<dropped, produced, producersDone, stopRequested>>
  /\ held' \in Int /\ size' \in Int /\ delivered' \in Int
  /\ size' - size = held' - held + In(pc'[c], {"countDown"}) - In(pc[c], {"countDown"})
  /\ held' + delivered' + In(pc'[c], {"countDown", "deliver"})
       = held + delivered + In(pc[c], {"countDown", "deliver"})

LEMMA ProducerStep ==
  ASSUME BasicTypes, NEW p \in Producers, Produces(p)
  PROVE  ProducerAccount(p)
<1>0. /\ held \in Int /\ size \in Int /\ dropped \in Int /\ produced \in Int
      /\ delivered \in Int /\ producersDone \in Int
  BY DEF BasicTypes
<1> USE DEF Goto, queueVars, counters, flags, OnlyMoves, BasicTypes, Workforce
<1>1. CASE NextMessage(p) \/ BeforeAttempt(p)
  <2>1. /\ pc[p] \in {"loop", "try"} /\ pc'[p] \in {"try", "finish", "sent", "send"}
        /\ OnlyMoves(p)
        /\ stopRequested => pc'[p] # "send"
        /\ ~stopRequested => pc'[p] # "sent"
    BY <1>1 DEF NextMessage, BeforeAttempt
  <2>2. QED
    BY <1>0, <1>1, <2>1 DEF NextMessage, BeforeAttempt, ProducerAccount, In, Trying, Placed
<1>2. CASE TrySend(p) \/ TrySendFails(p) \/ ResolveSendOverflow(p)
  <2>1. pc[p] \in Trying /\ pc'[p] \in Trying \cup {"try"} /\ OnlyMoves(p)
    BY <1>2 DEF TrySend, TrySendFails, ResolveSendOverflow, Trying
  <2>2. UNCHANGED <<held, size, dropped, produced, delivered, producersDone, stopRequested>>
    BY <1>2 DEF TrySend, TrySendFails, ResolveSendOverflow
  <2>3. /\ In(pc[p], Trying) = 1 /\ In(pc'[p], Trying) \in {0, 1}
        /\ \A labels \in {Placed, Placed \cup {"produce"}, {"ended"},
                        Placed \cup {"sent", "produce"}} :
             In(pc[p], labels) = 0 /\ In(pc'[p], labels) = 0
    BY <2>1 DEF In, Trying, Placed
  <2>4. QED
    BY <1>0, <2>1, <2>2, <2>3 DEF ProducerAccount
<1>3. CASE AdvanceHeadForOverwriteDrop(p)
  <2>1. /\ pc[p] = "drop" /\ OnlyMoves(p)
        /\ \/ pc'[p] = "storeOver" /\ size' = size - 1 /\ dropped' = dropped + 1
           \/ pc'[p] = "store" /\ size' = size /\ dropped' = dropped
    BY <1>3 DEF AdvanceHeadForOverwriteDrop
  <2>2. QED
    BY <1>0, <1>3, <2>1 DEF AdvanceHeadForOverwriteDrop, ProducerAccount, In, Trying, Placed
<1>4. CASE StoreMessage(p)
  <2>1. /\ pc'[p] = "countUp" /\ OnlyMoves(p)
        /\ \/ pc[p] = "store" /\ held' = held + 1
           \/ pc[p] = "storeOver" /\ held' = held
    BY <1>4 DEF StoreMessage
  <2>2. QED
    BY <1>0, <1>4, <2>1 DEF StoreMessage, ProducerAccount, In, Trying, Placed
<1>5. CASE CountUp(p)
  <2>1. pc[p] = "countUp" /\ pc'[p] = "sent" /\ OnlyMoves(p)
    BY <1>5 DEF CountUp
  <2>2. QED
    BY <1>0, <1>5, <2>1 DEF CountUp, ProducerAccount, In, Trying, Placed
<1>6. CASE AfterSend(p)
  <2>1. /\ pc[p] = "sent" /\ OnlyMoves(p)
        /\ pc'[p] = IF stopRequested THEN "finish" ELSE "produce"
    BY <1>6 DEF AfterSend
  <2>2. QED
    BY <1>0, <1>6, <2>1 DEF AfterSend, ProducerAccount, In, Trying, Placed
<1>7. CASE Produce(p)
  <2>1. pc[p] = "produce" /\ pc'[p] = "loop" /\ OnlyMoves(p)
    BY <1>7 DEF Produce
  <2>2. QED
    BY <1>0, <1>7, <2>1 DEF Produce, ProducerAccount, In, Trying, Placed
<1>8. CASE ProducerDone(p)
  <2>1. pc[p] = "finish" /\ pc'[p] = "ended" /\ OnlyMoves(p)
    BY <1>8 DEF ProducerDone
  <2>2. QED
    BY <1>0, <1>8, <2>1 DEF ProducerDone, ProducerAccount, In, Trying, Placed
<1>9. QED
  BY <1>1, <1>2, <1>3, <1>4, <1>5, <1>6, <1>7, <1>8 DEF Produces

LEMMA ConsumerStep ==
  ASSUME BasicTypes, NEW c \in Consumers, Consumes(c)
  PROVE  ConsumerAccount(c)
<1>0. /\ held \in Int /\ size \in Int /\ dropped \in Int /\ produced \in Int
      /\ delivered \in Int /\ producersDone \in Int
  BY DEF BasicTypes
<1> USE DEF Goto, queueVars, counters, flags, OnlyMoves, BasicTypes, Workforce
<1>1. CASE \/ PollStop(c) \/ PollProducersDone(c) \/ PollSize(c) \/ PollCounters(c)
           \/ TryRead(c) \/ Leave(c)
  <2>1. /\ pc[c] \notin {"countDown", "deliver"} /\ pc'[c] \notin {"countDown", "deliver"}
        /\ OnlyMoves(c)
    BY <1>1 DEF PollStop, PollProducersDone, PollSize, PollCounters, TryRead, Leave
  <2>2. UNCHANGED <<held, size, dropped, produced, delivered, producersDone, stopRequested>>
    BY <1>1 DEF PollStop, PollProducersDone, PollSize, PollCounters, TryRead, Leave
  <2>3. QED
    BY <1>0, <2>1, <2>2 DEF ConsumerAccount, In
<1>2. CASE Acquire(c)
  <2>1. /\ pc[c] = "take" /\ OnlyMoves(c)
        /\ \/ pc'[c] = "countDown" /\ held' = held - 1
           \/ pc'[c] = "leave" /\ held' = held
    BY <1>2 DEF Acquire
  <2>2. QED
    BY <1>0, <1>2, <2>1 DEF Acquire, ConsumerAccount, In
<1>3. CASE CancelReadOperation(c)
  <2>1. pc[c] = "countDown" /\ pc'[c] = "poll" /\ OnlyMoves(c)
    BY <1>3 DEF CancelReadOperation
  <2>2. QED
    BY <1>0, <1>3, <2>1 DEF CancelReadOperation, ConsumerAccount, In
<1>4. CASE CountDown(c)
  <2>1. pc[c] = "countDown" /\ pc'[c] = "deliver" /\ OnlyMoves(c)
    BY <1>4 DEF CountDown
  <2>2. QED
    BY <1>0, <1>4, <2>1 DEF CountDown, ConsumerAccount, In
<1>5. CASE Deliver(c)
  <2>1. pc[c] = "deliver" /\ pc'[c] = "poll" /\ OnlyMoves(c)
    BY <1>5 DEF Deliver
  <2>2. QED
    BY <1>0, <1>5, <2>1 DEF Deliver, ConsumerAccount, In
<1>6. QED
  BY <1>1, <1>2, <1>3, <1>4, <1>5 DEF Consumes

LEMMA ProducerBalance ==
  ASSUME BasicTypes, Balance, NEW p \in Producers, ProducerAccount(p)
  PROVE  Balance'
<1> USE DEF ProducerAccount
<1>0. /\ held \in Int /\ size \in Int /\ dropped \in Int /\ produced \in Int
      /\ delivered \in Int /\ producersDone \in Int
      /\ OwedSure <= Owed /\ OwedSure' <= Owed'
  BY SureIsOwed DEF BasicTypes
<1>1. \A u \in Workforce \ {p} : pc'[u] = pc[u]
  BY DEF OnlyMoves
<1>2. /\ Uncounted' = Uncounted + In(pc'[p], Placed) - In(pc[p], Placed)
      /\ OwedSure' = OwedSure + In(pc'[p], Placed \cup {"produce"})
                              - In(pc[p], Placed \cup {"produce"})
      /\ Owed' = Owed + In(pc'[p], Placed \cup {"sent", "produce"})
                      - In(pc[p], Placed \cup {"sent", "produce"})
      /\ Finished' = Finished + In(pc'[p], {"ended"}) - In(pc[p], {"ended"})
      /\ Overdue' = Overdue /\ InHand' = InHand
  BY <1>1, ProducerMoves
<1>3. \A label, labels : In(label, labels) \in Int
  BY DEF In
<1>4. size' + Uncounted' = held' + Overdue'
  <2>1. PICK x \in Int, y \in Int : x = In(pc'[p], Placed) /\ y = In(pc[p], Placed)
    BY <1>3
  <2>2. /\ size' + x - y - size = held' - held
        /\ Uncounted' = Uncounted + x - y /\ Overdue' = Overdue
        /\ size + Uncounted = held + Overdue /\ Uncounted \in Int /\ Overdue \in Int
    BY <1>2, <2>1, CountsAreNaturals DEF Balance
  <2>3. held \in Int /\ held' \in Int /\ size \in Int /\ size' \in Int
    BY <1>0
  <2>4. QED
    BY ONLY <2>2, <2>3
<1>5. producersDone' = Finished'
  BY <1>0, <1>2, <1>3, CountsAreNaturals DEF Balance
<1>9. Accepted' = Accepted + (held' - held + dropped' - dropped)
  BY <1>0, <1>2, CountsAreNaturals DEF Accepted
<1>10. Accepted \in Int /\ held' - held + dropped' - dropped \in Int
  BY <1>0, CountsAreNaturals DEF Accepted
<1>11. PICK gain \in Int : /\ gain = held' - held + dropped' - dropped
                           /\ Accepted' = Accepted + gain /\ Accepted \in Int
  BY <1>9, <1>10
<1>6. ~stopRequested => produced' + Owed' = Accepted'
  <2> SUFFICES ASSUME ~stopRequested PROVE produced' + Owed' = Accepted'
    OBVIOUS
  <2> DEFINE x == In(pc'[p], Placed \cup {"sent", "produce"})
             y == In(pc[p], Placed \cup {"sent", "produce"})
  <2>1. produced' - produced + x - y = gain /\ x \in Int /\ y \in Int
    BY <1>3, <1>11
  <2>2. Owed' = Owed + x - y /\ Owed \in Int
    BY <1>2, CountsAreNaturals
  <2>3. produced + Owed = Accepted
    BY DEF Balance
  <2> HIDE DEF x, y
  <2>4. produced \in Int /\ produced' \in Int
    BY <1>0
  <2>5. QED
    BY ONLY <1>11, <2>1, <2>2, <2>3, <2>4
<1>7. produced' + OwedSure' <= Accepted'
  <2>1. CASE stopRequested
    <3> DEFINE x == In(pc'[p], Placed \cup {"produce"})
               y == In(pc[p], Placed \cup {"produce"})
    <3>1. produced' - produced + x - y <= gain /\ x \in Int /\ y \in Int
      BY <1>3, <1>11, <2>1
    <3>2. OwedSure' = OwedSure + x - y /\ OwedSure \in Int
      BY <1>2, CountsAreNaturals
    <3>3. produced + OwedSure <= Accepted
      BY DEF Balance
    <3> HIDE DEF x, y
    <3>4. produced \in Int /\ produced' \in Int
      BY <1>0
    <3>5. QED
      BY ONLY <1>11, <3>1, <3>2, <3>3, <3>4
  <2>2. CASE ~stopRequested
    <3>1. OwedSure' \in Int /\ Owed' \in Int
      BY <1>2, <1>3, CountsAreNaturals
    <3>2. produced' + Owed' = Accepted'
      BY <1>6, <2>2
    <3>3. Accepted' \in Int
      BY <1>11
    <3>4. QED
      BY <1>0, <3>1, <3>2
  <2>3. QED
    BY <2>1, <2>2
<1>8. QED
  BY <1>4, <1>5, <1>6, <1>7 DEF Balance

LEMMA ConsumerKeeps ==
  ASSUME BasicTypes, NEW c \in Consumers, ConsumerAccount(c)
  PROVE  Accepted' = Accepted /\ Sending' = Sending
<1>1. \A u \in Workforce \ {c} : pc'[u] = pc[u]
  BY DEF OnlyMoves, ConsumerAccount
<1>2. /\ InHand' = InHand + In(pc'[c], {"countDown", "deliver"})
                          - In(pc[c], {"countDown", "deliver"})
      /\ Sending' = Sending
  BY <1>1, ConsumerMoves
<1>3. In(pc'[c], {"countDown", "deliver"}) \in Int /\ In(pc[c], {"countDown", "deliver"}) \in Int
  BY DEF In
<1>4. PICK x \in Int, y \in Int : /\ x = In(pc'[c], {"countDown", "deliver"})
                                  /\ y = In(pc[c], {"countDown", "deliver"})
  BY <1>3
<1>5. PICK h \in Int, d \in Int : h = held' /\ d = delivered'
  BY DEF ConsumerAccount
<1>6. h + d + x = held + delivered + y /\ InHand' = InHand + x - y /\ dropped' = dropped
  BY <1>2, <1>4, <1>5 DEF ConsumerAccount
<1>7. PICK a \in Int, b \in Int, e \in Int, i \in Int :
        a = held /\ b = dropped /\ e = delivered /\ i = InHand
  BY CountsAreNaturals DEF BasicTypes
<1>8. h + b + d + (i + x - y) = a + b + e + i
  <2>1. h + d + x = a + e + y
    BY <1>6, <1>7
  <2>2. QED
    BY ONLY <2>1, <1>4, <1>5, <1>7
<1>9. QED
  BY <1>2, <1>5, <1>6, <1>7, <1>8 DEF Accepted

LEMMA ConsumerBalance ==
  ASSUME BasicTypes, Balance, NEW c \in Consumers, ConsumerAccount(c)
  PROVE  Balance'
<1> USE DEF ConsumerAccount
<1>0. /\ held \in Int /\ size \in Int /\ dropped \in Int /\ produced \in Int
      /\ delivered \in Int /\ producersDone \in Int
  BY DEF BasicTypes
<1>1. \A u \in Workforce \ {c} : pc'[u] = pc[u]
  BY DEF OnlyMoves
<1>2. /\ Overdue' = Overdue + In(pc'[c], {"countDown"}) - In(pc[c], {"countDown"})
      /\ InHand' = InHand + In(pc'[c], {"countDown", "deliver"})
                          - In(pc[c], {"countDown", "deliver"})
      /\ Uncounted' = Uncounted /\ OwedSure' = OwedSure
      /\ Owed' = Owed /\ Finished' = Finished
  BY <1>1, ConsumerMoves
<1>3. \A label, labels : In(label, labels) \in Int
  BY DEF In
<1>4. size' + Uncounted' = held' + Overdue'
  <2> DEFINE x == In(pc'[c], {"countDown"})
             y == In(pc[c], {"countDown"})
  <2>1. size' - size = held' - held + x - y /\ x \in Int /\ y \in Int
    BY <1>3
  <2>2. Overdue' = Overdue + x - y /\ Uncounted' = Uncounted
    BY <1>2
  <2>3. size + Uncounted = held + Overdue /\ Uncounted \in Int /\ Overdue \in Int
    BY CountsAreNaturals DEF Balance
  <2>4. held \in Int /\ held' \in Int /\ size \in Int /\ size' \in Int
    BY <1>0
  <2> HIDE DEF x, y
  <2>5. QED
    BY ONLY <2>1, <2>2, <2>3, <2>4
<1>5. Accepted' = Accepted
  BY ConsumerKeeps
<1>6. produced' = produced /\ producersDone' = producersDone /\ stopRequested' = stopRequested
  OBVIOUS
<1>7. QED
  BY <1>2, <1>4, <1>5, <1>6 DEF Balance

LEMMA StepBalance ==
  ASSUME BasicTypes, Balance, [Next]_vars
  PROVE  Balance'
<1>1. CASE UNCHANGED <<held, size, dropped, produced, delivered, producersDone, pc>>
           /\ (stopRequested => stopRequested')
  BY <1>1, CountsKept DEF Balance, Accepted
<1>2. ASSUME NEW p \in Producers, Produces(p) PROVE Balance'
  BY <1>2, ProducerStep, ProducerBalance
<1>3. ASSUME NEW c \in Consumers, Consumes(c) PROVE Balance'
  BY <1>3, ConsumerStep, ConsumerBalance
<1>4. CASE Watch \/ ReadClock \/ JoinWorkers \/ Report
  BY <1>1, <1>4 DEF Watch, ReadClock, JoinWorkers, Report, BasicTypes, queueVars, counters
<1>5. CASE UNCHANGED vars
  BY <1>1, <1>5 DEF vars, queueVars, counters, flags
<1>6. QED
  BY <1>2, <1>3, <1>4, <1>5 DEF Next, Workers

-----------------------------------------------------------------------------
(***************************************************************************)
(* No queue accepts more than there is to send, also while producers give  *)
(* up after a stop.                                                        *)
(***************************************************************************)
LEMMA BusyHaveMessages ==
  ASSUME BasicTypes, LeftInv
  PROVE  Owed + Sending <= Cardinality(ToSend)
<1> DEFINE A == {p \in Producers : pc[p] \in Placed \cup {"sent", "produce"}}
           B == {p \in Producers : pc[p] \in Trying}
<1>1. IsFiniteSet(A) /\ IsFiniteSet(B) /\ A \cap B = {}
  BY CrewFinite, FS_Subset DEF Trying, Placed
<1>2. A \cup B \subseteq ToSend
  <2> SUFFICES ASSUME NEW p \in Producers,
                      pc[p] \in Trying \cup Placed \cup {"sent", "produce"}
               PROVE  p \in ToSend
    OBVIOUS
  <2>1. left[p] > 0 /\ left[p] <= LocalTotal(p) /\ left[p] \in Nat
    BY DEF LeftInv, BasicTypes, Trying, Placed
  <2>2. LocalTotal(p) \in Int
    BY ProducersAssumption, SizesAssumption DEF LocalTotal, Producers
  <2>3. N * 0 + p \in ToSend
    BY <2>1, <2>2, NextToSend
  <2>4. N * 0 + p = p
    BY ProducersAssumption DEF Producers
  <2>5. QED
    BY <2>3, <2>4
<1>3. Cardinality(A \cup B) = Cardinality(A) + Cardinality(B)
  <2>1. Cardinality(A \cup B) = Cardinality(A) + Cardinality(B) - Cardinality(A \cap B)
    BY <1>1, FS_Union
  <2>2. Cardinality(A \cap B) = 0
    BY <1>1, FS_EmptySet
  <2>3. Cardinality(A) \in Nat /\ Cardinality(B) \in Nat
    BY <1>1, FS_CardinalityType
  <2> HIDE DEF A, B
  <2>4. QED
    BY <2>1, <2>2, <2>3
<1>4. Cardinality(A \cup B) <= Cardinality(ToSend)
  BY <1>2, ToSendFinite, FS_Subset
<1>5. QED
  BY <1>3, <1>4 DEF Owed, Sending, Count

LEMMA AcceptedAtMostAll ==
  ASSUME BasicTypes, LeftInv, Balance, ~stopRequested
  PROVE  Accepted + Sending <= TotalMessages
<1>1. produced + Owed = Accepted /\ Cardinality(ToSend) + produced = TotalMessages
  BY DEF Balance, LeftInv
<1>2. Owed + Sending <= Cardinality(ToSend)
  BY BusyHaveMessages
<1>3. produced \in Nat /\ Owed \in Nat /\ Sending \in Nat /\ Cardinality(ToSend) \in Nat
  BY CountsAreNaturals, ToSendFinite DEF BasicTypes
<1>4. QED
  BY <1>1, <1>2, <1>3

StopInv == stopRequested => Accepted + Sending <= TotalMessages

(* The end.  Without a stop, a consumer leaves only after all producers    *)
(* have, and only when nothing is left to read.                            *)
EndInv ==
  ~stopRequested =>
    \A c \in Consumers :
      /\ pc[c] \in {"pollSize", "pollCounters"} => Ended(Producers)
      /\ pc[c] = "ended" => Ended(Producers) /\ held = 0

MainInv ==
  /\ main # "join" => Ended(Producers \cup Consumers)
  /\ main = "reported" => watchdog = "ended" /\ timedOut = stopRequested

(* A bounded queue never takes the branch that drops.                      *)
BoundedInv ==
  adapter = "bounded" =>
    dropped = 0 /\ \A p \in Producers : pc[p] \notin {"overflow", "drop", "storeOver"}

LEMMA EndedOweNothing ==
  ASSUME Ended(Producers)
  PROVE  Sending = 0 /\ Uncounted = 0 /\ OwedSure = 0 /\ Owed = 0
<1>1. \A labels : "ended" \notin labels => {t \in Producers : pc[t] \in labels} = {}
  BY DEF Ended
<1>2. Cardinality({}) = 0
  BY FS_EmptySet
<1>3. QED
  BY <1>1, <1>2 DEF Count, Sending, Uncounted, OwedSure, Owed, Trying, Placed

LEMMA AllFinished ==
  ASSUME Finished = N
  PROVE  Ended(Producers)
<1> DEFINE F == {p \in Producers : pc[p] \in {"ended"}}
<1>1. IsFiniteSet(Producers) /\ Cardinality(Producers) = N
  BY FS_Interval, ProducersAssumption DEF Producers
<1>2. F \in SUBSET Producers /\ Cardinality(F) = N
  BY DEF Finished, Count
<1>3. Producers = F
  BY <1>1, <1>2, FS_Subset
<1>4. QED
  BY <1>3 DEF Ended

LEMMA ProducerStop ==
  ASSUME BasicTypes, StopInv, NEW p \in Producers, ProducerAccount(p)
  PROVE  StopInv'
<1> SUFFICES ASSUME stopRequested PROVE Accepted' + Sending' <= TotalMessages
  BY DEF StopInv, ProducerAccount
<1>1. \A u \in Workforce \ {p} : pc'[u] = pc[u]
  BY DEF OnlyMoves, ProducerAccount
<1>2. /\ Sending' = Sending + In(pc'[p], Trying) - In(pc[p], Trying)
      /\ InHand' = InHand
  BY <1>1, ProducerMoves
<1>3. In(pc'[p], Trying) \in Int /\ In(pc[p], Trying) \in Int
  BY DEF In
<1>4. PICK x \in Int, y \in Int : x = In(pc'[p], Trying) /\ y = In(pc[p], Trying)
  BY <1>3
<1>5. PICK h \in Int, r \in Int : h = held' /\ r = dropped'
  BY DEF ProducerAccount
<1>6. PICK a \in Int, b \in Int, d \in Int, i \in Int, s \in Int :
        a = held /\ b = dropped /\ d = delivered /\ i = InHand /\ s = Sending
  BY CountsAreNaturals DEF BasicTypes
<1>7. (h - a) + r - b + x - y <= 0 /\ Sending' = s + x - y
  BY <1>2, <1>4, <1>5, <1>6 DEF ProducerAccount
<1>8. a + b + d + i + s <= TotalMessages
  BY <1>6 DEF StopInv, Accepted
<1>9. h + r + d + i + (s + x - y) <= TotalMessages
  <2>1. TotalMessages \in Int
    BY SizesAssumption
  <2>2. QED
    BY ONLY <1>4, <1>5, <1>6, <1>7, <1>8, <2>1
<1>10. QED
  BY <1>2, <1>5, <1>6, <1>7, <1>9 DEF Accepted, ProducerAccount

LEMMA StepStop ==
  ASSUME BasicTypes, LeftInv, Balance, StopInv, [Next]_vars
  PROVE  StopInv'
<1>1. CASE UNCHANGED <<held, dropped, delivered, pc>>
  <2>1. Accepted' + Sending' = Accepted + Sending
    BY <1>1, CountsKept DEF Accepted
  <2>2. QED
    BY <2>1, AcceptedAtMostAll DEF StopInv
<1>2. ASSUME NEW p \in Producers, Produces(p) PROVE StopInv'
  BY <1>2, ProducerStep, ProducerStop
<1>3. ASSUME NEW c \in Consumers, Consumes(c) PROVE StopInv'
  <2>1. ConsumerAccount(c)
    BY <1>3, ConsumerStep
  <2>2. Accepted' = Accepted /\ Sending' = Sending /\ stopRequested' = stopRequested
    BY <2>1, ConsumerKeeps DEF ConsumerAccount
  <2>3. QED
    BY <2>2 DEF StopInv
<1>4. CASE Watch \/ ReadClock \/ JoinWorkers \/ Report
  BY <1>1, <1>4 DEF Watch, ReadClock, JoinWorkers, Report, queueVars, counters
<1>5. CASE UNCHANGED vars
  BY <1>1, <1>5 DEF vars, queueVars, counters
<1>6. QED
  BY <1>2, <1>3, <1>4, <1>5 DEF Next, Workers

-----------------------------------------------------------------------------
LEMMA InitEnd == Init => StopInv /\ EndInv /\ MainInv /\ BoundedInv
  BY ConsumersAssumption DEF Init, StopInv, EndInv, MainInv, BoundedInv

LEMMA StepBounded ==
  ASSUME BasicTypes, BoundedInv, [Next]_vars
  PROVE  BoundedInv'
<1> USE DEF BasicTypes, Workforce, BoundedInv, Goto, queueVars
<1>1. ASSUME NEW p \in Producers, Produces(p) PROVE BoundedInv'
  BY <1>1 DEF Produces, NextMessage, BeforeAttempt, TrySend, TrySendFails,
     ResolveSendOverflow, AdvanceHeadForOverwriteDrop, StoreMessage, CountUp,
     AfterSend, Produce, ProducerDone
<1>2. ASSUME NEW c \in Consumers, Consumes(c) PROVE BoundedInv'
  BY <1>2, ConsumersAssumption DEF Consumes, PollStop, PollProducersDone, PollSize,
     PollCounters, TryRead, Acquire, Leave, CancelReadOperation, CountDown, Deliver
<1>3. CASE UNCHANGED vars \/ Watch \/ ReadClock \/ JoinWorkers \/ Report
  BY <1>3 DEF Watch, ReadClock, JoinWorkers, Report, vars
<1>4. QED
  BY <1>1, <1>2, <1>3 DEF Next, Workers

(* A thread that has ended never moves again. *)
LEMMA EndedStays ==
  ASSUME BasicTypes, [Next]_vars, NEW t \in Workforce, pc[t] = "ended"
  PROVE  pc'[t] = "ended"
<1>1. ASSUME NEW p \in Producers, Produces(p) PROVE pc'[t] = "ended"
  BY <1>1 DEF Produces, NextMessage, BeforeAttempt, TrySend, TrySendFails,
     ResolveSendOverflow, AdvanceHeadForOverwriteDrop, StoreMessage, CountUp,
     AfterSend, Produce, ProducerDone, Goto, BasicTypes
<1>2. ASSUME NEW c \in Consumers, Consumes(c) PROVE pc'[t] = "ended"
  BY <1>2 DEF Consumes, PollStop, PollProducersDone, PollSize, PollCounters, TryRead,
     Acquire, Leave, CancelReadOperation, CountDown, Deliver, Goto, BasicTypes
<1>3. CASE UNCHANGED vars \/ Watch \/ ReadClock \/ JoinWorkers \/ Report
  BY <1>3 DEF Watch, ReadClock, JoinWorkers, Report, vars
<1>4. QED
  BY <1>1, <1>2, <1>3 DEF Next, Workers

(* Nothing is stored once the producers have ended, and no message is put  *)
(* back: a reader that has taken one is still in the size.                 *)
LEMMA StaysEmpty ==
  ASSUME BasicTypes, Balance, [Next]_vars, Ended(Producers), held = 0
  PROVE  held' = 0
<1>1. ASSUME NEW p \in Producers, Produces(p) PROVE held' = 0
  BY <1>1 DEF Produces, NextMessage, BeforeAttempt, TrySend, TrySendFails,
     ResolveSendOverflow, AdvanceHeadForOverwriteDrop, StoreMessage, CountUp,
     AfterSend, Produce, ProducerDone, Ended
<1>2. ASSUME NEW c \in Consumers, CancelReadOperation(c) PROVE FALSE
  <2>1. c \in {t \in Consumers : pc[t] \in {"countDown"}} /\ size = 0
    BY <1>2 DEF CancelReadOperation
  <2>2. IsFiniteSet({t \in Consumers : pc[t] \in {"countDown"}})
    BY CrewFinite, FS_Subset
  <2>3. Overdue # 0
    BY <2>1, <2>2, FS_EmptySet DEF Overdue, Count
  <2>4. size + Uncounted = held + Overdue /\ Uncounted = 0 /\ Overdue \in Nat
    BY EndedOweNothing, CountsAreNaturals DEF Balance
  <2>5. QED
    BY <2>1, <2>3, <2>4
<1>3. ASSUME NEW c \in Consumers, Consumes(c) PROVE held' = 0
  BY <1>2, <1>3 DEF Consumes, PollStop, PollProducersDone, PollSize, PollCounters, TryRead,
     Acquire, Leave, CountDown, Deliver, queueVars
<1>4. CASE UNCHANGED vars \/ Watch \/ ReadClock \/ JoinWorkers \/ Report
  BY <1>4 DEF Watch, ReadClock, JoinWorkers, Report, vars, queueVars
<1>5. QED
  BY <1>1, <1>3, <1>4 DEF Next, Workers

(* When all producers have ended, Size() never shows less than is held, so *)
(* that 0 means empty; and so does a delivered that has reached produced.  *)
LEMMA SizeShowsEmpty ==
  ASSUME BasicTypes, Balance, Ended(Producers), size = 0
  PROVE  held = 0
<1>1. Uncounted = 0 /\ Overdue \in Nat /\ size + Uncounted = held + Overdue /\ held \in Nat
  BY EndedOweNothing, CountsAreNaturals, SizesAssumption DEF Balance, BasicTypes
<1>2. QED
  BY <1>1

LEMMA CountersShowEmpty ==
  ASSUME BasicTypes, Balance, Ended(Producers), ~stopRequested, delivered >= produced
  PROVE  held = 0
<1>1. Owed = 0 /\ produced + Owed = held + dropped + delivered + InHand
  BY EndedOweNothing DEF Balance, Accepted
<1>2. /\ InHand \in Nat /\ held \in Nat /\ dropped \in Nat
      /\ delivered \in Nat /\ produced \in Nat
  BY CountsAreNaturals, SizesAssumption DEF BasicTypes
<1>3. QED
  BY <1>1, <1>2

LEMMA StepEnd ==
  ASSUME BasicTypes, LeftInv, Balance, EndInv, [Next]_vars
  PROVE  EndInv'
<1> SUFFICES ASSUME ~stopRequested', NEW c \in Consumers
             PROVE  /\ pc'[c] \in {"pollSize", "pollCounters"} => Ended(Producers)'
                    /\ pc'[c] = "ended" => Ended(Producers)' /\ held' = 0
  BY DEF EndInv
<1>1. ~stopRequested
  BY DEF Next, Workers, Produces, NextMessage, BeforeAttempt, TrySend, TrySendFails,
     ResolveSendOverflow, AdvanceHeadForOverwriteDrop, StoreMessage, CountUp, AfterSend,
     Produce, ProducerDone, Consumes, PollStop, PollProducersDone, PollSize, PollCounters,
     TryRead, Acquire, Leave, CancelReadOperation, CountDown, Deliver, Watch, ReadClock,
     JoinWorkers, Report, vars, flags, BasicTypes
<1>2. Ended(Producers) => Ended(Producers)'
  BY EndedStays DEF Ended, Workforce
<1>3. Ended(Producers) /\ held = 0 => held' = 0
  BY StaysEmpty
<1>4. CASE pc'[c] = pc[c]
  BY <1>1, <1>2, <1>3, <1>4 DEF EndInv
<1>5. ASSUME Consumes(c)
      PROVE  /\ pc'[c] \in {"pollSize", "pollCounters"} => Ended(Producers)
             /\ pc'[c] = "ended" => Ended(Producers) /\ held = 0
  <2>0. c \in Workforce
    BY DEF Workforce
  <2>1. CASE PollProducersDone(c)
    <3>1. pc'[c] = IF producersDone # N THEN "read" ELSE "pollSize"
      BY <2>0, <2>1 DEF PollProducersDone, Goto, BasicTypes
    <3>2. producersDone = N => Ended(Producers)
      BY AllFinished DEF Balance
    <3>3. QED
      BY <3>1, <3>2
  <2>2. CASE PollSize(c)
    <3>1. /\ pc[c] = "pollSize"
          /\ pc'[c] = IF size = 0 THEN "ended" ELSE "pollCounters"
      BY <2>0, <2>2 DEF PollSize, Goto, BasicTypes
    <3>2. Ended(Producers)
      BY <1>1, <3>1 DEF EndInv
    <3>3. QED
      BY <3>1, <3>2, SizeShowsEmpty
  <2>3. CASE PollCounters(c)
    <3>1. /\ pc[c] = "pollCounters"
          /\ pc'[c] = IF produced > 0 /\ delivered >= produced THEN "ended" ELSE "read"
      BY <2>0, <2>3 DEF PollCounters, Goto, BasicTypes
    <3>2. Ended(Producers)
      BY <1>1, <3>1 DEF EndInv
    <3>3. QED
      BY <1>1, <3>1, <3>2, CountersShowEmpty
  <2>4. CASE \/ PollStop(c) \/ TryRead(c) \/ Acquire(c) \/ Leave(c)
             \/ CancelReadOperation(c) \/ CountDown(c) \/ Deliver(c)
    <3>1. pc'[c] \notin {"pollSize", "pollCounters", "ended"}
      BY <1>1, <2>0, <2>4 DEF PollStop, TryRead, Acquire, Leave, CancelReadOperation,
         CountDown, Deliver, Goto, BasicTypes
    <3>2. QED
      BY <3>1
  <2>5. QED
    BY <1>5, <2>1, <2>2, <2>3, <2>4 DEF Consumes
<1>6. Consumes(c) \/ pc'[c] = pc[c]
  <2>1. ASSUME NEW p \in Producers, Produces(p) PROVE pc'[c] = pc[c]
    <3>1. p # c
      BY ConsumersAssumption
    <3>2. QED
      BY <2>1, <3>1 DEF Produces, NextMessage, BeforeAttempt, TrySend, TrySendFails,
         ResolveSendOverflow, AdvanceHeadForOverwriteDrop, StoreMessage, CountUp,
         AfterSend, Produce, ProducerDone, Goto, BasicTypes, Workforce
  <2>2. ASSUME NEW d \in Consumers, Consumes(d), d # c PROVE pc'[c] = pc[c]
    BY <2>2 DEF Consumes, PollStop, PollProducersDone, PollSize, PollCounters, TryRead,
       Acquire, Leave, CancelReadOperation, CountDown, Deliver, Goto, BasicTypes, Workforce
  <2>3. CASE UNCHANGED vars \/ Watch \/ ReadClock \/ JoinWorkers \/ Report
    BY <2>3 DEF Watch, ReadClock, JoinWorkers, Report, vars
  <2>4. QED
    BY <2>1, <2>2, <2>3 DEF Next, Workers
<1>7. QED
  BY <1>2, <1>3, <1>4, <1>5, <1>6

LEMMA StepMain ==
  ASSUME BasicTypes, MainInv, [Next]_vars
  PROVE  MainInv'
<1>1. Ended(Workforce) => Ended(Workforce)'
  BY EndedStays DEF Ended
<1>2. CASE UNCHANGED flags
  BY <1>1, <1>2 DEF MainInv, flags, Workforce
<1>3. CASE Watch \/ ReadClock
  BY <1>1, <1>3 DEF MainInv, Watch, ReadClock, Workforce
<1>4. CASE JoinWorkers
  BY <1>1, <1>4 DEF MainInv, JoinWorkers, Workforce
<1>5. CASE Report
  BY <1>1, <1>5 DEF MainInv, Report, Workforce
<1>6. CASE Workers
  <2>1. UNCHANGED flags
    BY <1>6 DEF Workers, Produces, NextMessage, BeforeAttempt, TrySend, TrySendFails,
       ResolveSendOverflow, AdvanceHeadForOverwriteDrop, StoreMessage, CountUp, AfterSend,
       Produce, ProducerDone, Consumes, PollStop, PollProducersDone, PollSize,
       PollCounters, TryRead, Acquire, Leave, CancelReadOperation, CountDown, Deliver
  <2>2. QED
    BY <1>2, <2>1
<1>7. QED
  BY <1>2, <1>3, <1>4, <1>5, <1>6 DEF Next, vars

-----------------------------------------------------------------------------
Inv ==
  /\ BasicTypes /\ LeftInv /\ Balance
  /\ StopInv /\ EndInv /\ MainInv /\ BoundedInv

LEMMA InvHolds == Spec => []Inv
<1>1. Init => Inv
  BY InitTypes, InitLeft, InitBalance, InitEnd DEF Inv
<1>2. Inv /\ [Next]_vars => Inv'
  BY StepTypes, StepLeft, StepBalance, StepStop, StepEnd, StepMain,
     StepBounded DEF Inv
<1>3. QED
  BY <1>1, <1>2, PTL DEF Spec

(* Every variable has its type.  The bounds are the part to prove: the     *)
(* adapter never stores more than there is to send, not even while         *)
(* producers give up a message they have just sent because of a stop.      *)
THEOREM TypeCorrect == Spec => []TypeOK
<1>1. Inv => TypeOK
  <2> SUFFICES ASSUME Inv PROVE TypeOK
    OBVIOUS
  <2>0. /\ BasicTypes /\ LeftInv /\ Balance /\ StopInv
        /\ TotalMessages \in Nat
    BY SizesAssumption DEF Inv
  <2>1. held <= TotalMessages /\ dropped <= TotalMessages /\ delivered <= TotalMessages
    <3>1. Accepted + Sending <= TotalMessages
      BY <2>0, AcceptedAtMostAll DEF StopInv
    <3>2. Sending \in Nat /\ InHand \in Nat /\ held \in Nat /\ dropped \in Nat
          /\ delivered \in Nat
      BY <2>0, CountsAreNaturals, SizesAssumption DEF BasicTypes
    <3>3. QED
      BY <2>0, <3>1, <3>2 DEF Accepted
  <2>2. produced <= TotalMessages
    BY <2>0, ToSendFinite DEF LeftInv, BasicTypes
  <2>3. producersDone <= N
    <3>1. IsFiniteSet(Producers) /\ Cardinality(Producers) = N
      BY FS_Interval, ProducersAssumption DEF Producers
    <3>2. {p \in Producers : pc[p] \in {"ended"}} \in SUBSET Producers
      OBVIOUS
    <3>3. QED
      BY <2>0, <3>1, <3>2, FS_Subset DEF Balance, Finished, Count
  <2>4. ASSUME NEW p \in Producers PROVE left[p] <= TotalMessages
    <3>1. left[p] \in Nat /\ left[p] <= LocalTotal(p) /\ LocalTotal(p) \in Int
      BY <2>0, ProducersAssumption, SizesAssumption
      DEF LeftInv, BasicTypes, LocalTotal, Producers
    <3>2. CASE left[p] > 0
      <4> DEFINE k == left[p] - 1
      <4>1. k \in Nat /\ k < left[p] /\ k < LocalTotal(p)
        BY <3>1, <3>2
      <4>2. N * k + p \in 0..(TotalMessages - 1)
        BY <4>1, NextToSend DEF ToSend
      <4>3. p \in Nat /\ N * k >= k
        BY <4>1, ProducersAssumption DEF Producers
      <4>4. N * k \in Nat
        BY <4>1, ProducersAssumption
      <4>5. QED
        BY <2>0, <3>1, <4>1, <4>2, <4>3, <4>4
    <3>3. QED
      BY <2>0, <3>1, <3>2
  <2>5. left \in [Producers -> 0..TotalMessages]
    BY <2>0, <2>4 DEF BasicTypes
  <2>6. pc \in [Producers \cup Consumers ->
                  {"loop", "try", "send", "overflow", "drop", "store",
                   "storeOver", "countUp", "sent", "produce", "finish",
                   "poll", "pollDone", "pollSize", "pollCounters", "read",
                   "take", "leave", "countDown", "deliver", "ended"}]
    BY <2>0 DEF BasicTypes, Workforce, ProducerLabels, ConsumerLabels
  <2>7. /\ held \in 0..TotalMessages /\ dropped \in 0..TotalMessages
        /\ delivered \in 0..TotalMessages
        /\ produced \in 0..TotalMessages /\ producersDone \in 0..N
    BY <2>0, <2>1, <2>2, <2>3, ProducersAssumption DEF BasicTypes
  <2>8. QED
    BY <2>0, <2>5, <2>6, <2>7 DEF BasicTypes, TypeOK
<1>2. QED
  BY <1>1, InvHolds, PTL

(* A scenario that is not reported as timed out is complete, whatever the  *)
(* numbers of threads and messages: everything was sent, nothing is left   *)
(* to read, and what is reported as lost is the number of drops, none in a *)
(* bounded queue; although the size lags, a replacing queue judges itself  *)
(* full by it, and its drops may give up.                                  *)
THEOREM CompleteCorrect == Spec => []CompleteUnlessTimedOut
<1>1. Inv => CompleteUnlessTimedOut
  <2> SUFFICES ASSUME Inv, main = "reported", ~timedOut
               PROVE  /\ produced = TotalMessages /\ held = 0 /\ size = 0 /\ Lost = dropped
                      /\ adapter = "bounded" => dropped = 0
    BY DEF CompleteUnlessTimedOut
  <2>0. BasicTypes /\ LeftInv /\ Balance /\ EndInv /\ MainInv /\ BoundedInv
    BY DEF Inv
  <2>1. ~stopRequested /\ Ended(Producers) /\ Ended(Consumers)
    BY <2>0 DEF MainInv, Ended
  <2>2. produced = TotalMessages
    <3>1. ToSend = {}
      <4> SUFFICES ASSUME NEW x \in 0..(TotalMessages - 1), x \div N < left[x % N]
                   PROVE  FALSE
        BY DEF ToSend
      <4>1. x \div N \in Nat /\ x % N \in Producers
        BY DivMod, SizesAssumption
      <4>2. left[x % N] = 0
        BY <2>0, <2>1, <4>1 DEF LeftInv, Ended
      <4>3. QED
        BY <4>1, <4>2
    <3>2. Cardinality(ToSend) = 0
      BY <3>1, FS_EmptySet
    <3>3. QED
      BY <2>0, <3>2 DEF LeftInv, BasicTypes
  <2>3. held = 0
    BY <2>0, <2>1, ConsumersAssumption DEF EndInv, Ended
  <2>4. Uncounted = 0 /\ Owed = 0
    BY <2>1, EndedOweNothing
  <2>5. Overdue = 0 /\ InHand = 0
    <3>1. \A labels : "ended" \notin labels => {t \in Consumers : pc[t] \in labels} = {}
      BY <2>1 DEF Ended
    <3>2. Cardinality({}) = 0
      BY FS_EmptySet
    <3>3. QED
      BY <3>1, <3>2 DEF Count, Overdue, InHand
  <2>6. size = 0
    BY <2>0, <2>3, <2>4, <2>5 DEF Balance, BasicTypes
  <2>7. produced = dropped + delivered
    <3>1. produced + 0 = 0 + dropped + delivered + 0
      BY <2>0, <2>1, <2>3, <2>4, <2>5 DEF Balance, Accepted
    <3>2. QED
      BY <2>0, <3>1 DEF BasicTypes
  <2>8. QED
    BY <2>0, <2>2, <2>3, <2>6, <2>7 DEF Lost, BasicTypes, BoundedInv
<1>2. QED
  BY <1>1, InvHolds, PTL

(* Also when the deadline passed, no more is reported as lost than is      *)
(* still to be read or was dropped: a producer asked to stop may leave a   *)
(* message uncounted, never count one that it did not send.                *)
THEOREM LossCorrect == Spec => []LossNotOverstated
<1>1. Inv => LossNotOverstated
  <2> SUFFICES ASSUME Inv, main = "reported" PROVE Lost <= held + dropped
    BY DEF LossNotOverstated
  <2>0. BasicTypes /\ Balance /\ MainInv
    BY DEF Inv
  <2>1. Ended(Producers) /\ Ended(Consumers)
    BY <2>0 DEF MainInv, Ended
  <2>2. OwedSure = 0
    BY <2>1, EndedOweNothing
  <2>3. InHand = 0
    <3>1. {t \in Consumers : pc[t] \in {"countDown", "deliver"}} = {}
      BY <2>1 DEF Ended
    <3>2. Cardinality({}) = 0
      BY FS_EmptySet
    <3>3. QED
      BY <3>1, <3>2 DEF Count, InHand
  <2>4. produced + 0 <= held + dropped + delivered + 0
    BY <2>0, <2>2, <2>3 DEF Balance, Accepted
  <2>5. held \in Nat /\ dropped \in Nat /\ delivered \in Nat /\ produced \in Nat
    BY <2>0, SizesAssumption DEF BasicTypes
  <2>6. QED
    BY <2>4, <2>5 DEF Lost
<1>2. QED
  BY <1>1, InvHolds, PTL
=============================================================================
