---------------------------- MODULE ConnectionPool ----------------------------
(***************************************************************************)
(* What app/src/db.js relies on pg.Pool for: at most Max callers have a    *)
(* connection, and those who wait get one in the order in which they came. *)
(* Overload is shown to implement this module.                             *)
(***************************************************************************)
EXTENDS Integers, Sequences, FiniteSets

CONSTANTS Caller, Max

VARIABLES
  holds,  \* callers with a connection
  queue   \* callers that wait for one

vars == <<holds, queue>>

Waits(c) == \E i \in DOMAIN queue : queue[i] = c
Free     == Cardinality(holds) < Max

Init == holds = {} /\ queue = <<>>

\* A free connection is given at once, if nobody waits.
Connect(c) ==
  /\ c \notin holds /\ ~Waits(c)
  /\ IF queue = <<>> /\ Free
       THEN holds' = holds \cup {c} /\ UNCHANGED queue
       ELSE queue' = Append(queue, c) /\ UNCHANGED holds

\* A connection that came back is given to who waited longest.
Serve ==
  /\ queue # <<>> /\ Free
  /\ holds' = holds \cup {Head(queue)}
  /\ queue' = Tail(queue)

Release(c) ==
  /\ c \in holds
  /\ holds' = holds \ {c}
  /\ UNCHANGED queue

\* connectionTimeoutMillis: the others keep their order.
GiveUp(c) ==
  /\ \E i \in DOMAIN queue :
       /\ queue[i] = c
       /\ queue' = SubSeq(queue, 1, i - 1) \o SubSeq(queue, i + 1, Len(queue))
  /\ UNCHANGED holds

Next == Serve \/ \E c \in Caller : Connect(c) \/ Release(c) \/ GiveUp(c)

Spec == Init /\ [][Next]_vars
=============================================================================
