----------------------------- MODULE MCAsyncWrite -----------------------------
(* Small instances of AsyncWrite. *)
EXTENDS AsyncWrite, TLC

CONSTANTS e1, ghost, k1, k2, k3, c1, c2, c3, s1, s2, w1, w2

Two   == e1 :> 2
Three == e1 :> 3
R(e, k, n) == [event |-> e, key |-> k, qty |-> n]

\* Keys may be reused, and one request names an event that does not exist.
AnyKeys    == {R(e1, k1, 1), R(e1, k1, 2), R(e1, k2, 1), R(ghost, k2, 1)}
ReusedKeys == {R(e1, k1, 1), R(e1, k2, 1), R(e1, k2, 2)}

\* Enough keys for three calls to have one each, or to share one.
FourRequests == {R(e1, k1, 1), R(e1, k2, 2), R(e1, k3, 1), R(e1, k1, 2)}

MCWorkers == s1 :> w1 @@ s2 :> w2
OneWorker == s1 :> w1 @@ s2 :> w1
OneSlot   == s1 :> w1
=============================================================================
