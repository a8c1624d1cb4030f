---------------------------- MODULE BoundedFifo ----------------------------
(***************************************************************************)
(* What a bounded queue without replacement promises its clients: every    *)
(* call takes effect at one instant between its invocation and its return, *)
(* on a FIFO sequence of at most Capacity messages that is closed at most  *)
(* once.  The detailed queues are shown to implement this specification.   *)
(***************************************************************************)
EXTENDS Integers, Sequences

CONSTANTS
  Threads, Messages, NoMessage, Capacity, Policy,
  Exact      \* are the refusals exact even while other calls are under way?

VARIABLES
  queue,     \* the messages sent and not yet read, oldest first
  closed,    \* Close has taken effect
  op,        \* the call each thread is in
  msg,       \* the message it has in hand
  outcome    \* how its call ends, once the call has taken effect

vars == <<queue, closed, op, msg, outcome>>

SendOps == {"Send", "TrySend"}
ReadOps == {"Read", "TryRead"}

Init ==
  /\ queue = <<>>
  /\ closed = FALSE
  /\ op = [t \in Threads |-> "none"]
  /\ msg = [t \in Threads |-> NoMessage]
  /\ outcome = [t \in Threads |-> "none"]

Full  == Len(queue) = Capacity
Empty == queue = <<>>

Running(t) == op[t] # "none" /\ outcome[t] = "none"

Decide(t, how) == outcome' = [outcome EXCEPT ![t] = how]

Invoke(t) ==
  /\ op[t] = "none"
  /\ \/ \E o \in SendOps, m \in Messages :
          /\ op' = [op EXCEPT ![t] = o]
          /\ msg' = [msg EXCEPT ![t] = m]
     \/ \E o \in ReadOps \cup {"Close"} :
          /\ op' = [op EXCEPT ![t] = o]
          /\ UNCHANGED msg
  /\ \/ UNCHANGED outcome
     \/ Policy = "kOnThreadRoleChange" /\ Decide(t, "roleChange")
  /\ UNCHANGED <<queue, closed>>

(* A send takes effect: the message leaves the sender's hand. *)
Put(t) ==
  /\ Running(t) /\ op[t] \in SendOps
  /\ ~closed /\ ~Full
  /\ queue' = Append(queue, msg[t])
  /\ msg' = [msg EXCEPT ![t] = NoMessage]
  /\ Decide(t, "returned")
  /\ UNCHANGED <<closed, op>>

(* A read takes effect: it has the oldest message, also after Close. *)
Take(t) ==
  /\ Running(t) /\ op[t] \in ReadOps
  /\ ~Empty
  /\ queue' = Tail(queue)
  /\ msg' = [msg EXCEPT ![t] = Head(queue)]
  /\ Decide(t, "returned")
  /\ UNCHANGED <<closed, op>>

(* A queue that is not exact may be misled by a call that is under way.    *)
Misled(t) == ~Exact /\ \E u \in Threads \ {t} : op[u] # "none"

(* The reasons for which a call may end with no effect.  All but the       *)
(* exception of a constructor are facts about the queue at that instant.   *)
MayRefuse(t, why) ==
  \/ why = "false" /\ op[t] = "TrySend" /\ (closed \/ Full \/ Misled(t))
  \/ why = "false" /\ op[t] = "TryRead" /\ (Empty \/ Misled(t))
  \/ why = "closed" /\ op[t] = "Send" /\ closed
  \/ why = "closed" /\ op[t] = "Read" /\ closed /\ Empty
  \/ /\ why = "deadlock" /\ Policy # "kNoException"
     /\ \/ op[t] = "Send" /\ (Full \/ Misled(t))
        \/ op[t] = "Read" /\ (Empty \/ Misled(t))
  \/ why = "error" /\ op[t] \in SendOps \cup ReadOps

Refuse(t) ==
  /\ Running(t)
  /\ \E why \in {"false", "closed", "deadlock", "error"} :
       MayRefuse(t, why) /\ Decide(t, why)
  /\ UNCHANGED <<queue, closed, op, msg>>

Close(t) ==
  /\ Running(t) /\ op[t] = "Close"
  /\ closed' = TRUE
  /\ Decide(t, "returned")
  /\ UNCHANGED <<queue, op, msg>>

Return(t) ==
  /\ outcome[t] # "none"
  /\ op' = [op EXCEPT ![t] = "none"]
  /\ msg' = [msg EXCEPT ![t] = NoMessage]
  /\ Decide(t, "none")
  /\ UNCHANGED <<queue, closed>>

Step(t) ==
  Invoke(t) \/ Put(t) \/ Take(t) \/ Refuse(t) \/ Close(t) \/ Return(t)

Next == \E t \in Threads : Step(t)

Spec == Init /\ [][Next]_vars
=============================================================================
