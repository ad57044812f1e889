--------------------------- MODULE ReservationBase ---------------------------
(***************************************************************************)
(* The vocabulary the reservation modules share: the events and seats of   *)
(* the database, what a caller asks for and what it can be answered.       *)
(* A seat of an event is not a row of any table; a booked row of quantity  *)
(* n stands for the n seats <<key, 1>> .. <<key, n>>.                      *)
(***************************************************************************)
EXTENDS Integers, FiniteSets

CONSTANTS
  Event,      \* ids of the rows of table events
  EventId,    \* ids a request may name: the handler accepts any positive integer
  Key,        \* idempotency keys
  Total,      \* total_seats of each event
  Request     \* the requests that may be submitted

ASSUME EventAssumption   == Event \subseteq EventId
ASSUME TotalAssumption   == Total \in [Event -> Nat]
ASSUME RequestAssumption == Request \subseteq [event : EventId, key : Key, qty : Nat \ {0}]

Unknown == -1                                    \* no remaining count in the answer
Left    == {Unknown} \cup UNION {0 .. Total[e] : e \in Event}
Outcome == {"created", "idempotent_replay", "sold_out", "not_found", "duplicate", "error"}
Answer  == [outcome : Outcome, left : Left]
Says(o, n) == [outcome |-> o, left |-> n]
Pending == Says("pending", Unknown)
Idle    == Says("idle", Unknown)

KeysOf(rows)      == {b.key : b \in rows}
RowsOf(rows, e)   == {b \in rows : b.event = e}
SeatsOf(b)        == {b.key} \X (1 .. b.qty)
SoldSeats(rows, e) == UNION {SeatsOf(b) : b \in RowsOf(rows, e)}
=============================================================================
