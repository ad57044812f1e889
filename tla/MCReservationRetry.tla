-------------------------- MODULE MCReservationRetry --------------------------
(* The instances of MCReservationTx, with the history of ReservationRetry. *)
EXTENDS MCReservationTx, ReservationRetry
=============================================================================
