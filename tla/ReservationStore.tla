-------------------------- MODULE ReservationStore --------------------------
(***************************************************************************)
(* What POST /api/v1/events/:id/reservations promises a caller, with no    *)
(* SQL, no lock and no connection: a call is decided in one atomic step,   *)
(* and only a call that is decided "created" (or one whose answer was lost *)
(* on the way back) changes the store.  ReservationTx, the transactions    *)
(* the program runs, is shown to implement this module.                    *)
(***************************************************************************)
EXTENDS ReservationBase

CONSTANT Caller   \* concurrent activations of the reservation code

VARIABLES
  remaining,  \* column events.remaining
  version,    \* column events.version
  booked,     \* rows of table reservations
  req,        \* the last request of each caller
  answer      \* what that request was answered, or Pending

store == <<remaining, version, booked>>
vars  == <<remaining, version, booked, req, answer>>

Answered(p) == answer[p] # Pending
Reply(p, a) == answer' = [answer EXCEPT ![p] = a]

-----------------------------------------------------------------------------
Init ==
  /\ remaining = Total
  /\ version = [e \in Event |-> 0]
  /\ booked = {}
  /\ req \in [Caller -> Request]
  /\ answer = [p \in Caller |-> Idle]

\* A caller submits its next request, possibly one it submitted before.
Submit(p, r) ==
  /\ Answered(p)
  /\ req' = [req EXCEPT ![p] = r]
  /\ Reply(p, Pending)
  /\ UNCHANGED store

\* The one change of the store: the seats leave the event and the row appears.
Book(r) ==
  /\ r.event \in Event
  /\ r.key \notin KeysOf(booked)
  /\ remaining[r.event] >= r.qty
  /\ remaining' = [remaining EXCEPT ![r.event] = @ - r.qty]
  /\ version' = [version EXCEPT ![r.event] = @ + 1]
  /\ booked' = booked \cup {r}

\* 201: booked by this very call, and the count is the one it left behind.
Create(p) ==
  /\ ~Answered(p)
  /\ Book(req[p])
  /\ Reply(p, Says("created", remaining'[req[p].event]))
  /\ UNCHANGED req

\* The booking took effect but its answer was lost.
CreateUnheard(p) ==
  /\ ~Answered(p)
  /\ Book(req[p])
  /\ Reply(p, Says("error", Unknown))
  /\ UNCHANGED req

\* An answer that changes nothing, and what must be true for it to be given.
Truthful(r, a) ==
  \/ /\ a.outcome = "idempotent_replay"
     /\ r.key \in KeysOf(booked)
     /\ IF r.event \in Event THEN a.left >= remaining[r.event] ELSE a.left = Unknown
  \/ /\ a.outcome = "sold_out"
     /\ r.event \in Event
     /\ remaining[r.event] < r.qty
     /\ a.left = Unknown \/ a.left \in remaining[r.event] .. r.qty - 1
  \/ /\ a = Says("not_found", Unknown)
     /\ r.event \notin Event
  \/ /\ a = Says("duplicate", Unknown)
     /\ r.key \in KeysOf(booked)
  \/ a = Says("error", Unknown)

Decline(p) ==
  /\ ~Answered(p)
  /\ \E a \in Answer : Truthful(req[p], a) /\ Reply(p, a)
  /\ UNCHANGED <<store, req>>

Next == \E p \in Caller :
  \/ \E r \in Request : Submit(p, r)
  \/ Create(p)
  \/ CreateUnheard(p)
  \/ Decline(p)

Spec == Init /\ [][Next]_vars
=============================================================================
