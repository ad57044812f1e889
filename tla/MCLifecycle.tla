----------------------------- MODULE MCLifecycle -----------------------------
(* A small instance of Lifecycle. *)
EXTENDS Lifecycle

CONSTANTS s1, s2

\* DRAIN_WAIT_MS=0, and a wait of exactly inter x fall.
MCDrain == {0, 2}
=============================================================================
