------------------------ MODULE MCCircularDropOldest ------------------------
(* An instance of CircularDropOldestMessageQueue for TLC: a sender that    *)
(* waits for the mutex, one that tries, and a reader.                      *)
EXTENDS CircularDropOldestMessageQueue, TLC

CONSTANTS a, b, c, m1, m2

MCCalls == a :> {<<"Send", m1>>}
        @@ b :> {<<"TrySend", m2>>}
        @@ c :> {<<"Read", NoMessage>>}
=============================================================================
