------------------------- MODULE MutexAndConditions -------------------------
(***************************************************************************)
(* std::mutex and std::condition_variable, as the deque queue and the      *)
(* priority queue use them: one mutex_, and two conditions, not_full_ for  *)
(* sleeping senders and not_empty_ for sleeping readers.  A thread asleep  *)
(* is at "waitFull" or "waitEmpty"; once woken it is back at "sync", where *)
(* it competes for the mutex and tests its predicate again.                *)
(***************************************************************************)
EXTENDS IMessageQueue

CONSTANTS
  Capacity,          \* capacity_
  SpuriousWakeups    \* may a condition variable wake without a notify?

ASSUME CapacityAssumption == Capacity \in Nat \ {0}
ASSUME SpuriousAssumption == SpuriousWakeups \in BOOLEAN

VARIABLE mutex       \* the thread that holds mutex_

Locked(t) == mutex = t
Lock(t)   == mutex = NoThread /\ mutex' = t
Unlock(t) == Locked(t) /\ mutex' = NoThread

(* A critical section that begins and ends in this step. *)
LockedBriefly == mutex = NoThread /\ UNCHANGED mutex

SleepingFull  == {t \in Threads : pc[t] = "waitFull"}
SleepingEmpty == {t \in Threads : pc[t] = "waitEmpty"}

NotifyOne(t, sleepers) ==
  \/ sleepers = {} /\ Goto(t, "return")
  \/ \E s \in sleepers : pc' = [pc EXCEPT ![t] = "return", ![s] = "sync"]

NotifyAll(t, sleepers, next) ==
  pc' = [s \in Threads |->
           IF s = t THEN next ELSE IF s \in sleepers THEN "sync" ELSE pc[s]]
=============================================================================
