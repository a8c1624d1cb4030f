--------------------------- MODULE IMessageQueue ---------------------------
(***************************************************************************)
(* The part of every call that lib/message_queue_interface.hpp fixes once  *)
(* for all queues: Send, TrySend, Read and TryRead are template methods    *)
(* that account the calling thread's role, ask the concrete queue whether  *)
(* blocking could be a self-deadlock, and then run the queue's own         *)
(* synchronisation, store or pop, and postwork.                            *)
(*                                                                         *)
(* A thread is a pc.  The steps of this module are "idle", "check" and     *)
(* "return"; every other pc value belongs to the module of a queue, which  *)
(* extends this one and takes over at "sync" (SyncAnd...Prework and        *)
(* TrySyncAnd...Prework) or at "close" (Close).                            *)
(***************************************************************************)
EXTENDS Integers, FiniteSets

CONSTANTS
  Producers,   \* threads the client lets call Send and TrySend
  Consumers,   \* threads the client lets call Read and TryRead
  Closers,     \* threads the client lets call Close
  NoThread,    \* the owner of a free mutex
  Messages,    \* the values of type ValueType
  NoMessage,   \* "holds no message"
  Category,    \* ThreadAccessCategory, by its initials
  Policy       \* DeadlockExceptionPolicy

Threads == Producers \cup Consumers \cup Closers

SendOps == {"Send", "TrySend"}
ReadOps == {"Read", "TryRead"}
TryOps  == {"TrySend", "TryRead"}
Ops     == SendOps \cup ReadOps \cup {"Close", "none"}

SingleProducer == Category \in {"SPSC", "SPMC"}
SingleConsumer == Category \in {"SPSC", "MPSC"}

ASSUME ThreadsAssumption ==
  /\ IsFiniteSet(Threads)
  /\ NoThread \notin Threads

ASSUME MessagesAssumption == NoMessage \notin Messages

ASSUME CategoryAssumption == Category \in {"SPSC", "MPSC", "SPMC", "MPMC"}

ASSUME PolicyAssumption ==
  Policy \in {"kOnThreadRoleChange", "kOnDeadlock", "kNoException"}

(* What the client promises by the category it instantiates the queue for. *)
ASSUME CategoryContract ==
  /\ SingleProducer => \A s, t \in Producers : s = t
  /\ SingleConsumer => \A s, t \in Consumers : s = t

VARIABLES
  role,      \* the thread_local role each thread has for this queue
  pc,        \* where each thread is in its call
  op,        \* the call it is in
  msg,       \* the message it holds: not yet stored, or already popped
  outcome    \* how the call ends, once that is decided

callVars == <<role, pc, op, msg, outcome>>

Roles == {"kNoInfo", "kProducer", "kConsumer", "kBoth"}

(* How a call can end: normally, with false or an empty optional, or with  *)
(* an exception: queue closed, deadlock detected, thread role changed, or  *)
(* one thrown by a constructor of ValueType.                               *)
Outcomes == {"none", "returned", "false", "closed", "deadlock",
             "roleChange", "error"}

CallInit ==
  /\ role = [t \in Threads |-> "kNoInfo"]
  /\ pc = [t \in Threads |-> "idle"]
  /\ op = [t \in Threads |-> "none"]
  /\ msg = [t \in Threads |-> NoMessage]
  /\ outcome = [t \in Threads |-> "none"]

(***************************************************************************)
(* Steps of a call.                                                        *)
(***************************************************************************)
Goto(t, label) == pc' = [pc EXCEPT ![t] = label]

Decide(t, how) == outcome' = [outcome EXCEPT ![t] = how]

(* A call that ends without touching the queue any further. *)
Finish(t, how) == Goto(t, "return") /\ Decide(t, how)

RoleAccepted(t, r) ==
  Policy = "kOnThreadRoleChange" => role[t] \in {"kNoInfo", r}

\* The role set before the test.
AccountThreads_RoleFirst(t, r) ==
  /\ role' = [role EXCEPT ![t] = r]
  /\ IF RoleAccepted(t, r)
       THEN Goto(t, "check") /\ UNCHANGED outcome
       ELSE Finish(t, "roleChange")

(* AccountThreads: the first call fixes the role, a call of the other kind *)
(* throws or makes the thread kBoth.                                       *)
AccountThreads(t, r) ==
  \/ /\ RoleAccepted(t, r)
     /\ role' = [role EXCEPT ![t] =
                   IF role[t] \in {"kNoInfo", r} THEN r ELSE "kBoth"]
     /\ Goto(t, "check")
     /\ UNCHANGED outcome
  \/ /\ ~RoleAccepted(t, r)
     /\ Finish(t, "roleChange")
     /\ UNCHANGED role

Enter(t, o, m) ==
  /\ pc[t] = "idle"
  /\ op' = [op EXCEPT ![t] = o]
  /\ msg' = [msg EXCEPT ![t] = m]

CallSend(t) ==
  /\ t \in Producers
  /\ \E o \in SendOps, m \in Messages : Enter(t, o, m)
  /\ AccountThreads(t, "kProducer")

CallRead(t) ==
  /\ t \in Consumers
  /\ \E o \in ReadOps : Enter(t, o, NoMessage)
  /\ AccountThreads(t, "kConsumer")

CallClose(t) ==
  /\ t \in Closers
  /\ Enter(t, "Close", NoMessage)
  /\ Goto(t, "close")
  /\ UNCHANGED <<role, outcome>>

(* Throws, or lets the call block, as the policy says. *)
HandleDeadlock(t) ==
  IF Policy # "kNoException"
    THEN Finish(t, "deadlock")
    ELSE Goto(t, "sync") /\ UNCHANGED outcome

(* What the four preworks do with the answer of CheckSendDeadlock-         *)
(* Possibility or CheckReadDeadlockPossibility.                            *)
AfterCheck(t, possible) ==
  /\ pc[t] = "check"
  /\ \/ ~possible /\ Goto(t, "sync") /\ UNCHANGED outcome
     \/ possible /\ op[t] \in TryOps /\ Finish(t, "false")
     \/ possible /\ op[t] \notin TryOps /\ HandleDeadlock(t)
  /\ UNCHANGED <<role, op, msg>>

(* The call leaves the library: the client has its result. *)
Return(t) ==
  /\ pc[t] = "return"
  /\ Goto(t, "idle")
  /\ op' = [op EXCEPT ![t] = "none"]
  /\ msg' = [msg EXCEPT ![t] = NoMessage]
  /\ Decide(t, "none")
  /\ UNCHANGED role

IsBothRole(t) == role[t] = "kBoth"

CallTypeOK(labels) ==
  /\ role \in [Threads -> Roles]
  /\ pc \in [Threads -> labels]
  /\ op \in [Threads -> Ops]
  /\ msg \in [Threads -> Messages \cup {NoMessage}]
  /\ outcome \in [Threads -> Outcomes]
=============================================================================
