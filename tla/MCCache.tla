------------------------------- MODULE MCCache -------------------------------
(* A small instance of Cache: two calls on one app instance, one on another. *)
(* The local map holds one entry, so that the two events evict each other.   *)
EXTENDS Cache, TLC

CONSTANTS e1, ghost, k1, c1, c2, c3, i1, i2

R(e, n)   == [event |-> e, key |-> k1, qty |-> n]
MCTotal   == e1 :> 2
MCRequest == {R(e1, 1), R(e1, 2), R(ghost, 1)}
MCAt      == c1 :> i1 @@ c2 :> i1 @@ c3 :> i2

M(l, r, f) == [local |-> l, redis |-> r, flight |-> f]
MCModes   == {M(TRUE, FALSE, TRUE), M(FALSE, TRUE, FALSE), M(TRUE, TRUE, TRUE)}
=============================================================================
