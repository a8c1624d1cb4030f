--------------------------- MODULE MCMichaelScott ---------------------------
(* Instances of MichaelScottQueue for TLC: a sends, c reads and closes,    *)
(* and b does either, so that two senders or two readers meet.             *)
EXTENDS MichaelScottQueue, TLC

CONSTANTS a, b, c, m1, m2

MixedCalls ==
  a :> {<<"TryEnqueue", m1>>}
  @@ b :> {<<"Send", m2>>, <<"Read", NoMessage>>}
  @@ c :> {"TryDequeue", "Close"} \X {NoMessage}
=============================================================================
