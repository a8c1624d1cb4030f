----------------------------- MODULE LooseFifo -----------------------------
(***************************************************************************)
(* What a queue promises whose capacity test, store and size counter are   *)
(* separate steps: the FIFO order of BoundedFifo and no lost, duplicated   *)
(* or invented message, but senders that were let in together may exceed   *)
(* the capacity, or store after Close, and every refusal may be misled by  *)
(* another call under way.  Calls with a bounded number of attempts may    *)
(* also fail because they lost a race against a call that is over by now.  *)
(***************************************************************************)
EXTENDS BoundedFifo

CONSTANT Overshoot       \* how many messages too many may be in the queue

AttemptOps == {"TryEnqueue", "TryDequeue"}

LooseInvoke(t) ==
  \/ Invoke(t)
  \/ /\ op[t] = "none"
     /\ \/ \E m \in Messages : /\ op' = [op EXCEPT ![t] = "TryEnqueue"]
                               /\ msg' = [msg EXCEPT ![t] = m]
        \/ op' = [op EXCEPT ![t] = "TryDequeue"] /\ UNCHANGED msg
     /\ UNCHANGED <<queue, closed, outcome>>

LoosePut(t) ==
  /\ Running(t) /\ op[t] \in SendOps \cup {"TryEnqueue"}
  /\ Len(queue) < Capacity + Overshoot
  /\ queue' = Append(queue, msg[t])
  /\ msg' = [msg EXCEPT ![t] = NoMessage]
  /\ Decide(t, "returned")
  /\ UNCHANGED <<closed, op>>

LooseTake(t) ==
  \/ Take(t)
  \/ /\ Running(t) /\ op[t] = "TryDequeue"
     /\ ~Empty
     /\ queue' = Tail(queue)
     /\ msg' = [msg EXCEPT ![t] = Head(queue)]
     /\ Decide(t, "returned")
     /\ UNCHANGED <<closed, op>>

(* A full queue may hold more than Capacity messages. *)
MayRefuseLoosely(t, why) ==
  \/ MayRefuse(t, why)
  \/ why = "false" /\ op[t] = "TrySend" /\ Len(queue) > Capacity
  \/ why = "false" /\ op[t] \in AttemptOps
  \/ why = "deadlock" /\ op[t] = "Send" /\ Policy # "kNoException"
       /\ Len(queue) > Capacity
  \/ why = "closed" /\ op[t] = "Read" /\ closed /\ Misled(t)

LooseRefuse(t) ==
  /\ Running(t)
  /\ \E why \in {"false", "closed", "deadlock"} :
       MayRefuseLoosely(t, why) /\ Decide(t, why)
  /\ UNCHANGED <<queue, closed, op, msg>>

(* A send that has used up its attempts does not give the message back. *)
LoseRace(t) ==
  /\ Running(t) /\ op[t] = "TryEnqueue"
  /\ msg' = [msg EXCEPT ![t] = NoMessage]
  /\ Decide(t, "false")
  /\ UNCHANGED <<queue, closed, op>>

LooseStep(t) ==
  \/ LooseInvoke(t) \/ LoosePut(t) \/ LooseTake(t)
  \/ LooseRefuse(t) \/ LoseRace(t)
  \/ Close(t) \/ Return(t)

LooseSpec == Init /\ [][\E t \in Threads : LooseStep(t)]_vars
=============================================================================
