------------------------ MODULE BoundedPriorityQueue ------------------------
(***************************************************************************)
(* What the priority queue promises its clients: the bounded queue of      *)
(* BoundedFifo, but a read takes the message of the smallest priority,     *)
(* and the oldest of these.  queue stays in the order of arrival.  The     *)
(* promise is off after a read that failed with an exception, until at     *)
(* most one message is left.                                               *)
(***************************************************************************)
EXTENDS BoundedFifo, SequencesExt

CONSTANT Priority          \* of each message: the smaller, the sooner

VARIABLE disordered        \* a failed read has disturbed the order

priorityVars == <<vars, disordered>>

IsSoonest(i, q) ==
  \A j \in DOMAIN q :
    \/ Priority[q[i]] < Priority[q[j]]
    \/ Priority[q[i]] = Priority[q[j]] /\ i <= j

TakeSoonest(t) ==
  /\ Running(t) /\ op[t] \in ReadOps
  /\ \E i \in DOMAIN queue :
       /\ disordered \/ IsSoonest(i, queue)
       /\ queue' = RemoveAt(queue, i)
       /\ msg' = [msg EXCEPT ![t] = queue[i]]
  /\ Decide(t, "returned")
  /\ disordered' = (disordered /\ Len(queue') > 1)
  /\ UNCHANGED <<closed, op>>

FailHalfway(t) ==
  /\ Running(t) /\ op[t] \in ReadOps
  /\ Decide(t, "error")
  /\ disordered' = (disordered \/ Len(queue) > 1)
  /\ UNCHANGED <<queue, closed, op, msg>>

PriorityStep(t) ==
  \/ TakeSoonest(t)
  \/ FailHalfway(t)
  \/ (Invoke(t) \/ Put(t) \/ Refuse(t) \/ Close(t) \/ Return(t))
       /\ UNCHANGED disordered

PrioritySpec ==
  /\ Init /\ disordered = FALSE
  /\ [][\E t \in Threads : PriorityStep(t)]_priorityVars
=============================================================================
