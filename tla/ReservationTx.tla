---------------------------- MODULE ReservationTx ----------------------------
(***************************************************************************)
(* The three ways the program reserves seats in Postgres, statement by     *)
(* statement: createNaive and createOptimized (app/src/reservation.js) and *)
(* the queue worker's handle (app/src/worker.js), all running at once      *)
(* against READ COMMITTED transactions and bounded connection pools.       *)
(*                                                                         *)
(* A Caller is one activation: an HTTP request being served or a message   *)
(* being handled.  Which code it runs follows from the process it lives    *)
(* in: TX_OPTIMIZED of an app instance, or a worker.                       *)
(***************************************************************************)
EXTENDS ReservationBase

CONSTANTS
  Caller,     \* concurrent activations
  Nobody,     \* the holder of a free row lock
  PathOf,     \* "naive", "optimized" or "worker", per caller
  PoolOf,     \* the pg.Pool of the process the caller runs in
  PoolMax     \* PG_POOL_MAX

Path == {"naive", "optimized", "worker"}

ASSUME NobodyAssumption == Nobody \notin Caller
ASSUME PathAssumption   == PathOf \in [Caller -> Path]

VARIABLES
  remaining,  \* committed column events.remaining
  version,    \* committed column events.version
  booked,     \* committed rows of table reservations
  rowLock,    \* the transaction that holds the lock of an event row
  inserted,   \* transactions with an uncommitted reservations row
  pc,         \* the next statement of each caller
  req,        \* the request it serves
  seen,       \* events.remaining as its transaction knows it, its own UPDATE included
  result,     \* the outcome its transaction will return if it commits
  answer      \* what the caller got, or Pending

store == <<remaining, version, booked>>
vars  == <<remaining, version, booked, rowLock, inserted, pc, req, seen, result, answer>>

\* Statements issued inside a transaction, and those outside one.
InTx == {"check", "replay", "select", "decide", "update", "reread", "insert",
         "commit", "rollback"}
Label == InTx \cup {"idle", "precheck", "prereplay", "begin"}

Row(p)          == req[p].event
Exists(p)       == Row(p) \in Event
KeyCommitted(p) == req[p].key \in KeysOf(booked)
RowFree(p)      == rowLock[Row(p)] = Nobody
InsertersOf(k)  == {q \in inserted : req[q].key = k}

\* pool.connect(): a transaction keeps its connection until it ends; a query
\* outside one takes a connection and returns it.
HasConnection(p) ==
  Cardinality({q \in Caller : PoolOf[q] = PoolOf[p] /\ pc[q] \in InTx}) < PoolMax

\* What a read of events.remaining returns: the committed row, if there is one.
ReadLeft(p) == IF Exists(p) THEN remaining[Row(p)] ELSE Unknown

-----------------------------------------------------------------------------
Goto(p, l)     == pc' = [pc EXCEPT ![p] = l]
Conclude(p, a) == result' = [result EXCEPT ![p] = a]
Take(p)        == rowLock' = [rowLock EXCEPT ![Row(p)] = p]

\* The callback of db.transaction() returns a: COMMIT is what is left to do.
Return(p, a) == Conclude(p, a) /\ Goto(p, "commit")

\* It throws: ROLLBACK, then the exception reaches the caller.
Throw(p, a)  == Conclude(p, a) /\ Goto(p, "rollback")

\* The caller is answered and forgets its locals.
Deliver(p, a) ==
  /\ answer' = [answer EXCEPT ![p] = a]
  /\ seen' = [seen EXCEPT ![p] = Unknown]
  /\ Conclude(p, Idle)
  /\ Goto(p, "idle")

\* The end of a transaction frees its row lock, its index entry and its connection.
EndTx(p, a) ==
  /\ rowLock' = [e \in Event |-> IF rowLock[e] = p THEN Nobody ELSE rowLock[e]]
  /\ inserted' = inserted \ {p}
  /\ Deliver(p, a)

tables == <<store, rowLock, inserted>>

Init ==
  /\ remaining = Total
  /\ version = [e \in Event |-> 0]
  /\ booked = {}
  /\ rowLock = [e \in Event |-> Nobody]
  /\ inserted = {}
  /\ pc = [p \in Caller |-> "idle"]
  /\ req \in [Caller -> Request]
  /\ seen = [p \in Caller |-> Unknown]
  /\ result = [p \in Caller |-> Idle]
  /\ answer = [p \in Caller |-> Idle]

\* A request arrives, or a message is delivered.  Nothing keeps a client from
\* reusing an idempotency key, at once or later, for this event or another.
Submit(p, r) ==
  /\ pc[p] = "idle"
  /\ req' = [req EXCEPT ![p] = r]
  /\ answer' = [answer EXCEPT ![p] = Pending]
  /\ Goto(p, IF PathOf[p] = "optimized" THEN "precheck" ELSE "begin")
  /\ UNCHANGED <<tables, seen, result>>

-----------------------------------------------------------------------------
(* createOptimized: the key is looked up before the transaction, on a      *)
(* connection that is returned before the next one is asked for.           *)

\* Fault: the key is not looked up.
PreCheckSkipped(p) ==
  /\ pc[p] = "precheck"
  /\ HasConnection(p)
  /\ Goto(p, "begin")
  /\ UNCHANGED <<tables, req, seen, result, answer>>

PreCheck(p) ==
  /\ pc[p] = "precheck"
  /\ HasConnection(p)
  /\ Goto(p, IF KeyCommitted(p) THEN "prereplay" ELSE "begin")
  /\ UNCHANGED <<tables, req, seen, result, answer>>

PreReplay(p) ==
  /\ pc[p] = "prereplay"
  /\ HasConnection(p)
  /\ Deliver(p, Says("idempotent_replay", ReadLeft(p)))
  /\ UNCHANGED <<tables, req>>

-----------------------------------------------------------------------------
Begin(p) ==
  /\ pc[p] = "begin"
  /\ HasConnection(p)
  /\ Goto(p, IF PathOf[p] = "naive" THEN "check" ELSE "update")
  /\ UNCHANGED <<tables, req, seen, result, answer>>

(* createNaive: everything inside the transaction, behind a row lock.      *)

Check(p) ==
  /\ pc[p] = "check"
  /\ Goto(p, IF KeyCommitted(p) THEN "replay" ELSE "select")
  /\ UNCHANGED <<tables, req, seen, result, answer>>

Replay(p) ==
  /\ pc[p] = "replay"
  /\ Return(p, Says("idempotent_replay", ReadLeft(p)))
  /\ UNCHANGED <<tables, req, seen, answer>>

SelectMissing(p) ==
  /\ pc[p] = "select"
  /\ ~Exists(p)
  /\ Return(p, Says("not_found", Unknown))
  /\ UNCHANGED <<tables, req, seen, answer>>

\* Fault: a plain SELECT.
SelectWithoutLock(p) ==
  /\ pc[p] = "select"
  /\ Exists(p)
  /\ seen' = [seen EXCEPT ![p] = remaining[Row(p)]]
  /\ Goto(p, "decide")
  /\ UNCHANGED <<tables, req, result, answer>>

\* SELECT ... FOR UPDATE waits for the row, then reads its newest version.
SelectForUpdate(p) ==
  /\ pc[p] = "select"
  /\ Exists(p)
  /\ RowFree(p)
  /\ Take(p)
  /\ seen' = [seen EXCEPT ![p] = remaining[Row(p)]]
  /\ Goto(p, "decide")
  /\ UNCHANGED <<store, inserted, req, result, answer>>

\* Fault: the last seats are refused.
DecideSoldOutEarly(p) ==
  /\ pc[p] = "decide"
  /\ seen[p] <= req[p].qty
  /\ Return(p, Says("sold_out", seen[p]))
  /\ UNCHANGED <<tables, req, seen, answer>>

\* After the hold, the test is on the value read under the lock.
DecideSoldOut(p) ==
  /\ pc[p] = "decide"
  /\ seen[p] < req[p].qty
  /\ Return(p, Says("sold_out", seen[p]))
  /\ UNCHANGED <<tables, req, seen, answer>>

\* Fault: the UPDATE is not behind the test.
DecideUpdateAlways(p) ==
  /\ pc[p] = "decide"
  /\ seen' = [seen EXCEPT ![p] = @ - req[p].qty]
  /\ Goto(p, "insert")
  /\ UNCHANGED <<tables, req, result, answer>>

DecideUpdate(p) ==
  /\ pc[p] = "decide"
  /\ seen[p] >= req[p].qty
  /\ seen' = [seen EXCEPT ![p] = @ - req[p].qty]
  /\ Goto(p, "insert")
  /\ UNCHANGED <<tables, req, result, answer>>

-----------------------------------------------------------------------------
(* createOptimized and handle: one conditional UPDATE.                     *)

\* A row that satisfies the condition is locked first and tested again with
\* the lock held; one that does not is skipped without waiting.
Update(p) ==
  /\ pc[p] = "update"
  /\ Exists(p)
  /\ remaining[Row(p)] >= req[p].qty
  /\ RowFree(p)
  /\ Take(p)
  /\ seen' = [seen EXCEPT ![p] = remaining[Row(p)] - req[p].qty]
  /\ Goto(p, "insert")
  /\ UNCHANGED <<store, inserted, req, result, answer>>

UpdateNothing(p) ==
  /\ pc[p] = "update"
  /\ Exists(p) => remaining[Row(p)] < req[p].qty
  /\ Goto(p, "reread")
  /\ UNCHANGED <<tables, req, seen, result, answer>>

\* The worker's return value carries no count.
Reread(p) ==
  /\ pc[p] = "reread"
  /\ IF Exists(p)
       THEN Return(p, Says("sold_out", IF PathOf[p] = "worker" THEN Unknown ELSE ReadLeft(p)))
       ELSE Return(p, Says("not_found", Unknown))
  /\ UNCHANGED <<tables, req, seen, answer>>

-----------------------------------------------------------------------------
(* INSERT INTO reservations, under the unique index on idempotency_key.    *)

\* Fault: no unique index.
InsertUnchecked(p) ==
  /\ pc[p] = "insert"
  /\ inserted' = inserted \cup {p}
  /\ Return(p, Says("created", seen[p]))
  /\ UNCHANGED <<store, rowLock, req, seen, answer>>

\* The index waits for a transaction that inserted the same key and has not ended.
Insert(p) ==
  /\ pc[p] = "insert"
  /\ ~KeyCommitted(p)
  /\ InsertersOf(req[p].key) = {}
  /\ inserted' = inserted \cup {p}
  /\ Return(p, Says("created", seen[p]))
  /\ UNCHANGED <<store, rowLock, req, seen, answer>>

\* SQLSTATE 23505.
InsertDuplicate(p) ==
  /\ pc[p] = "insert"
  /\ KeyCommitted(p)
  /\ Throw(p, Says("duplicate", Unknown))
  /\ UNCHANGED <<tables, req, seen, answer>>

-----------------------------------------------------------------------------
\* COMMIT makes the UPDATE and the INSERT of the transaction visible together.
Publish(p) ==
  IF p \in inserted
    THEN /\ remaining' = [remaining EXCEPT ![Row(p)] = @ - req[p].qty]
         /\ version' = [version EXCEPT ![Row(p)] = @ + 1]
         /\ booked' = booked \cup {req[p]}
    ELSE UNCHANGED store

Commit(p) ==
  /\ pc[p] = "commit"
  /\ Publish(p)
  /\ EndTx(p, result[p])
  /\ UNCHANGED req

\* The server commits and the connection dies before its reply.
CommitUnheard(p) ==
  /\ pc[p] = "commit"
  /\ Publish(p)
  /\ EndTx(p, Says("error", Unknown))
  /\ UNCHANGED req

\* Fault: the connection goes back to the pool inside its transaction.
RollbackForgotten(p) ==
  /\ pc[p] = "rollback"
  /\ Deliver(p, result[p])
  /\ UNCHANGED <<tables, req>>

Rollback(p) ==
  /\ pc[p] = "rollback"
  /\ EndTx(p, result[p])
  /\ UNCHANGED <<store, req>>

\* Any statement may fail: a server-side timeout, a lost connection, a crash.
FailInTx(p) ==
  /\ pc[p] \in InTx \ {"rollback"}
  /\ Throw(p, Says("error", Unknown))
  /\ UNCHANGED <<tables, req, seen, answer>>

\* No connection within PG_ACQUIRE_TIMEOUT_MS, or a failed query outside a transaction.
FailOutsideTx(p) ==
  /\ pc[p] \in {"precheck", "prereplay", "begin"}
  /\ Deliver(p, Says("error", Unknown))
  /\ UNCHANGED <<tables, req>>

-----------------------------------------------------------------------------
\* The steps the program and the database take on their own.
Advance(p) ==
  \/ PreCheck(p) \/ PreReplay(p)
  \/ Begin(p) \/ Check(p) \/ Replay(p)
  \/ SelectMissing(p) \/ SelectForUpdate(p) \/ DecideSoldOut(p) \/ DecideUpdate(p)
  \/ Update(p) \/ UpdateNothing(p) \/ Reread(p)
  \/ Insert(p) \/ InsertDuplicate(p)
  \/ Commit(p) \/ Rollback(p)

Fail(p) == FailInTx(p) \/ FailOutsideTx(p) \/ CommitUnheard(p)

Next == \E p \in Caller :
  \/ \E r \in Request : Submit(p, r)
  \/ Advance(p)
  \/ Fail(p)

Spec == Init /\ [][Next]_vars

\* pg.Pool hands connections out in arrival order and Postgres queues the
\* waiters of a row or an index entry, so no caller is passed over for ever.
Fairness == \A p \in Caller : SF_vars(Advance(p))

FairSpec == Spec /\ Fairness

-----------------------------------------------------------------------------
TypeOK ==
  /\ remaining \in [Event -> Nat]
  /\ version \in [Event -> Nat]
  /\ booked \subseteq Request
  /\ rowLock \in [Event -> Caller \cup {Nobody}]
  /\ inserted \subseteq Caller
  /\ pc \in [Caller -> Label]
  /\ req \in [Caller -> Request]
  /\ seen \in [Caller -> Int]
  /\ result \in [Caller -> Answer \cup {Idle}]
  /\ answer \in [Caller -> Answer \cup {Idle, Pending}]

\* No seat is sold twice and none disappears: the seats of the committed rows
\* and the remaining count add up to total_seats, the count is never negative,
\* and version counts the rows.  UPDATE and INSERT are two statements of
\* transactions that interleave, wait, fail and lose their answers.
BooksBalance == \A e \in Event :
  /\ remaining[e] >= 0
  /\ IsFiniteSet(RowsOf(booked, e)) /\ IsFiniteSet(SoldSeats(booked, e))
  /\ remaining[e] + Cardinality(SoldSeats(booked, e)) = Total[e]
  /\ version[e] = Cardinality(RowsOf(booked, e))

\* An idempotency key names one reservation at most, of one event, counting
\* the rows that are inserted and not yet committed.
OneRowPerKey ==
  /\ \A b, c \in booked : b.key = c.key => b = c
  /\ \A p \in inserted : ~KeyCommitted(p)
  /\ \A p, q \in inserted : req[p].key = req[q].key => p = q

\* The count a transaction decided on is the one it will leave.
Current(p) ==
  /\ pc[p] = "decide" => rowLock[Row(p)] = p /\ seen[p] = remaining[Row(p)]
  /\ pc[p] = "insert" \/ p \in inserted =>
       /\ rowLock[Row(p)] = p
       /\ seen[p] = remaining[Row(p)] - req[p].qty
       /\ seen[p] >= 0

\* Between its read and its commit no other transaction changes the count a
\* transaction decided on, so its test cannot be stale when it writes.
DecisionIsCurrent == \A p \in Caller : Current(p)

\* What the answer of a caller says of the tables.
Holds(p) ==
  /\ answer[p].outcome = "created" => req[p] \in booked
  /\ answer[p].outcome \in {"idempotent_replay", "duplicate"} => KeyCommitted(p)
  /\ answer[p].outcome = "sold_out" => Exists(p) /\ remaining[Row(p)] < req[p].qty
  /\ answer[p].outcome = "not_found" => ~Exists(p)

\* What a caller was told stays true: a created reservation is in the table
\* and was created for nobody else, a replay or a 23505 means the key is
\* there, and an event called sold out cannot cover the request again.
AnswersHold ==
  /\ \A p \in Caller : Holds(p)
  /\ \A p, q \in Caller :
       /\ answer[p].outcome = "created"
       /\ answer[q].outcome = "created"
       /\ req[p].key = req[q].key
       => p = q

\* What a transaction holds: the lock of its own event row only, from the read
\* or UPDATE that took it, and that lock whenever its row is inserted.
HoldsItsOwn(p) ==
  /\ \A e \in Event : rowLock[e] = p =>
       e = Row(p) /\ pc[p] \in {"decide", "insert", "commit", "rollback"}
  /\ pc[p] \in {"decide", "insert"} \/ p \in inserted => Exists(p) /\ rowLock[Row(p)] = p
  /\ p \in inserted => pc[p] \in {"commit", "rollback"}
  /\ pc[p] = "commit" =>
       /\ p \in inserted <=> result[p].outcome = "created"
       /\ p \in inserted => result[p].left = seen[p]

\* Locks are two-phase and end with their transaction on every path, and a
\* transaction returns "created" exactly when its row is inserted under one.
LockDiscipline == \A p \in Caller : HoldsItsOwn(p)

\* What an answer that books nothing says of the store, and of its request.
Justified(p, a) ==
  /\ a.outcome \in {"idempotent_replay", "duplicate"} => KeyCommitted(p)
  /\ a.outcome = "idempotent_replay" =>
       IF Exists(p) THEN a.left >= remaining[Row(p)] ELSE a.left = Unknown
  /\ a.outcome = "sold_out" =>
       /\ Exists(p)
       /\ remaining[Row(p)] < req[p].qty
       /\ a.left = Unknown \/ a.left \in remaining[Row(p)] .. req[p].qty - 1
  /\ a.outcome = "not_found" => ~Exists(p)
  /\ a.outcome \in {"not_found", "duplicate", "error"} => a.left = Unknown

\* What a caller's branches and its undelivered outcome say of the store.
FindingsTrue(p) ==
  /\ answer[p] = Pending <=> pc[p] # "idle"
  /\ pc[p] \in {"prereplay", "replay"} => KeyCommitted(p)
  /\ pc[p] = "reread" /\ Exists(p) => remaining[Row(p)] < req[p].qty
  /\ pc[p] \in {"commit", "rollback"} => Justified(p, result[p])
  /\ pc[p] = "commit" =>
       result[p].outcome \in {"created", "idempotent_replay", "sold_out", "not_found"}
  /\ pc[p] = "rollback" => result[p].outcome \in {"duplicate", "error"}

\* What a transaction found out stays true until it is reported, although the
\* store moves on: of each outcome that waits for its COMMIT or ROLLBACK, and
\* of each branch already taken towards one.
FindingsStayTrue == \A p \in Caller : FindingsTrue(p)

\* Whom a caller's next statement waits for: the holder of the row, or the
\* transaction that inserted the same key.
WaitsFor(p, q) ==
  /\ p # q
  /\ \/ pc[p] \in {"select", "update"} /\ Exists(p) /\ rowLock[Row(p)] = q
     \/ pc[p] = "insert" /\ q \in InsertersOf(req[p].key)

\* Transactions take the event row first and the index entry second, so a
\* chain of waits has at most two links and its end is about to commit or
\* roll back.  There is nothing for Postgres' deadlock detector (40P01) to
\* break.
NoDeadlock == \A p, q \in Caller : WaitsFor(p, q) =>
  \A r \in Caller : WaitsFor(q, r) => pc[r] \in {"commit", "rollback"}

\* Every caller sees the atomic store of ReservationStore: what is committed,
\* what was asked and what was answered are the store's; the rest is hidden.
Store == INSTANCE ReservationStore WITH
           Caller <- Caller, remaining <- remaining, version <- version, booked <- booked,
           req <- req, answer <- answer
ImplementsStore == Store!Spec

\* Every call is answered, whatever the others do, down to one connection per
\* pool: createOptimized returns the connection of its look-up before it asks
\* for the one of its transaction.
EveryCallAnswered == \A p \in Caller : answer[p] = Pending ~> answer[p] # Pending

\* Comment at k6/lib.js:22: when keys collide the server answers
\* idempotent_replay.  Stated of overlapping calls of one reservation.
CollisionIsReplayed == \A p, q \in Caller :
  /\ p # q
  /\ "worker" \notin {PathOf[p], PathOf[q]}
  /\ answer[p].outcome = "created"
  /\ req[q] = req[p]
  => answer[q].outcome \notin {"duplicate", "sold_out"}
=============================================================================
