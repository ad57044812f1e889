---------------------------- MODULE PromiseStore ----------------------------
(***************************************************************************)
(* What the asynchronous path promises a caller, with no counter in Redis, *)
(* no queue, no worker and no retry: a call is promised seats only if the  *)
(* event covers it together with everything promised before, only a        *)
(* promised call becomes a row, and what a caller was told (202) is taken  *)
(* back by the row alone.  AsyncWrite is shown to implement this module as *)
(* long as Redis keeps its counters and no confirm is lost.                *)
(***************************************************************************)
EXTENDS ReservationBase

CONSTANT Call   \* requests to the API, each made once

VARIABLES
  remaining,  \* column events.remaining
  booked,     \* rows of table reservations
  req,        \* what each call asks for; keys may be reused
  promised,   \* calls that hold seats for a row that is not there yet
  accepted    \* calls that were told so

vars == <<remaining, booked, req, promised, accepted>>

KeyBooked(c)  == req[c].key \in KeysOf(booked)
Seats(calls)  == UNION {{c} \X (1 .. req[c].qty) : c \in calls}
Holding(e)    == {c \in promised : req[c].event = e}

-----------------------------------------------------------------------------
Init ==
  /\ remaining = Total
  /\ booked = {}
  /\ req \in [Call -> Request]
  /\ promised = {}
  /\ accepted = {}

\* Never more than the event still has.
Promise(c) ==
  /\ c \notin promised
  /\ ~KeyBooked(c)
  /\ req[c].event \in Event
  /\ Cardinality(Seats(Holding(req[c].event) \cup {c})) <= remaining[req[c].event]
  /\ promised' = promised \cup {c}
  /\ UNCHANGED <<remaining, booked, req, accepted>>

\* 202, for a promise or for a key whose row is there.
Accept(c) ==
  /\ c \notin accepted
  /\ c \in promised \/ KeyBooked(c)
  /\ accepted' = accepted \cup {c}
  /\ UNCHANGED <<remaining, booked, req, promised>>

\* Nobody was told: the publish failed, or a process died.
Withdraw(C) ==
  /\ C # {}
  /\ promised' = promised \ C
  /\ UNCHANGED <<remaining, booked, req, accepted>>

\* The row of a promise appears, and answers every promise with its key.  The
\* process that books it may die over it, and C be withdrawn.
Fulfil(c, C) ==
  /\ c \in promised
  /\ remaining' = [remaining EXCEPT ![req[c].event] = @ - req[c].qty]
  /\ booked' = booked \cup {req[c]}
  /\ promised' = {d \in promised \ C : req[d].key # req[c].key}
  /\ UNCHANGED <<req, accepted>>

Next ==
  \/ \E c \in Call : Promise(c) \/ Accept(c)
  \/ \E C \in SUBSET (promised \ accepted) :
       Withdraw(C) \/ \E c \in Call : Fulfil(c, C)

Spec == Init /\ [][Next]_vars

-----------------------------------------------------------------------------
\* What a promise is worth: each event has the seats of everything promised,
\* and whoever was told 202 holds a promise or finds the row of its key.
Kept ==
  /\ \A e \in Event : Cardinality(Seats(Holding(e))) <= remaining[e]
  /\ \A c \in accepted : c \in promised \/ KeyBooked(c)
=============================================================================
