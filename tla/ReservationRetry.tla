-------------------------- MODULE ReservationRetry --------------------------
(***************************************************************************)
(* ReservationTx with one history variable: whether the key of a request   *)
(* was already committed when the request was submitted.  It separates the *)
(* retry of a finished call from two calls that overlap.                   *)
(***************************************************************************)
EXTENDS ReservationTx

VARIABLE known   \* callers whose key was committed when they submitted it

rvars == <<vars, known>>

RInit == Init /\ known = {}

\* Submitting records what the table holds at that moment.
RSubmit(p, r) ==
  /\ Submit(p, r)
  /\ known' = IF r.key \in KeysOf(booked) THEN known \cup {p} ELSE known \ {p}

RNext == \E p \in Caller :
  \/ \E r \in Request : RSubmit(p, r)
  \/ Advance(p) /\ UNCHANGED known
  \/ Fail(p) /\ UNCHANGED known

RSpec == RInit /\ [][RNext]_rvars

\* The retry of a reservation that exists gets that reservation back, however
\* little is left of the event: never "sold_out", never a second row and never
\* a 23505.  It holds of both request paths; the worker does not look the key
\* up and is not asked to.
RetryIsReplayed == \A p \in known :
  PathOf[p] # "worker" =>
    answer[p].outcome \in {"pending", "idempotent_replay", "error"}
=============================================================================
