--------------------------- MODULE MCReservationTx ---------------------------
(* Small instances of ReservationTx. *)
EXTENDS ReservationTx, TLC

CONSTANTS e1, e2, ghost, k1, k2, a1, a2, w1, app, worker

R(e, k, n) == [event |-> e, key |-> k, qty |-> n]

\* Two seats fought over with quantities 1 and 2, and a key that is reused for
\* another event.
MCTotal   == e1 :> 2 @@ e2 :> 1
MCRequest == {R(e1, k1, 1), R(e1, k2, 2), R(e2, k1, 1)}

\* Two calls that exclude each other, and an event that does not exist.
OneEvent  == e1 :> 2
Rivals    == {R(e1, k1, 1), R(e1, k2, 2), R(ghost, k1, 1)}

AppAndWorker == a1 :> "naive" @@ a2 :> "optimized" @@ w1 :> "worker"
MCPool       == a1 :> app @@ a2 :> app @@ w1 :> worker
=============================================================================
