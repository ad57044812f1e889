------------------------------ MODULE AsyncWrite ------------------------------
(***************************************************************************)
(* The asynchronous write path (ASYNC_WRITE=1, STOCK_GATE=1): createAsync  *)
(* takes seats from a Redis counter, publishes the reservation to RabbitMQ *)
(* with a publisher confirm and answers 202; a worker consumes the message *)
(* and books it in Postgres; a failed message waits in the retry queue and *)
(* ends in the dead-letter queue.                                          *)
(*                                                                         *)
(* A database transaction is one step here: ReservationTx shows that it    *)
(* may be.  Faults names the failures an instance admits, and MaxFaults    *)
(* bounds how many of them happen.                                         *)
(***************************************************************************)
EXTENDS ReservationBase

CONSTANTS
  Call,       \* requests to the API, each made once
  Slot,       \* places for an unacknowledged message: MQ_PREFETCH per worker
  Worker,     \* worker processes
  WorkerOf,   \* the worker of each slot
  NoCopy,     \* what an empty slot holds
  MaxRetry,   \* MQ_MAX_RETRY
  Faults,     \* failures that may happen, a subset of FaultKind
  MaxFaults   \* how many of them

\* redis:   a command to Redis fails, applied or not
\* evict:   Redis loses the counters (restart without persistence, allkeys-lru)
\* publish: the channel is not ready, or the message never reaches the broker
\* confirm: the broker has the message and the confirm is lost
\* app:     the app process dies
\* db:      a transaction fails and is rolled back
\* commit:  a transaction commits and its client hears an error
\* worker:  a worker dies or loses its connection to the broker
FaultKind == {"redis", "evict", "publish", "confirm", "app", "db", "commit", "worker"}

ASSUME MaxRetryAssumption == MaxRetry \in Nat
ASSUME FaultsAssumption   == Faults \subseteq FaultKind /\ MaxFaults \in Nat
ASSUME SlotAssumption     == IsFiniteSet(Slot) /\ WorkerOf \in [Slot -> Worker]
ASSUME CallAssumption     == IsFiniteSet(Call)

VARIABLES
  remaining,  \* committed column events.remaining
  booked,     \* committed rows of table reservations
  gate,       \* the Redis counters stock:<id>
  step,       \* where each API call is in createAsync
  req,        \* what it asks for; clients may reuse a key
  answer,     \* what it was answered
  main,       \* copies in queue reservations
  retry,      \* copies in reservations.retry
  dlq,        \* copies in reservations.dlq
  job,        \* the copy each worker slot holds unacknowledged
  stage,      \* what the slot does next
  consumed,   \* outcomes the workers counted for each call (mq_consumed_total)
  errors,     \* how often the workers failed on it
  faults      \* failures so far

db     == <<remaining, booked>>
api    == <<step, req, answer>>
queues == <<main, retry, dlq>>
slots  == <<job, stage>>
counts == <<consumed, errors>>
vars   == <<db, gate, api, queues, slots, counts, faults>>

\* A copy of a published message; its attempt is the header x-retry-count.
Copy      == [call : Call, attempt : 0 .. MaxRetry]
ASSUME NoCopyAssumption == NoCopy \notin Copy

Step      == {"idle", "decr", "undo", "publish", "confirm", "release", "sync", "done"}
Stage     == {"empty", "handle", "zombie", "retry", "dead", "ack"}
Verdict   == {"created", "sold_out", "not_found", "duplicate"}
ApiAnswer == Outcome \cup {"none", "accepted", "crashed"}

EventOf(c)   == req[c].event
KeyBooked(c) == req[c].key \in KeysOf(booked)

-----------------------------------------------------------------------------
Init ==
  /\ remaining = Total
  /\ booked = {}
  /\ gate = [e \in EventId |-> IF e \in Event THEN Total[e] ELSE 0]
  /\ step = [c \in Call |-> "idle"]
  /\ req \in [Call -> Request]
  /\ answer = [c \in Call |-> "none"]
  /\ main = [m \in Copy |-> 0]
  /\ retry = [m \in Copy |-> 0]
  /\ dlq = [m \in Copy |-> 0]
  /\ job = [s \in Slot |-> NoCopy]
  /\ stage = [s \in Slot |-> "empty"]
  /\ consumed = [c \in Call |-> {}]
  /\ errors = [c \in Call |-> 0]
  /\ faults = 0

Put(q, m)  == [q EXCEPT ![m] = @ + 1]
Drop(q, m) == [q EXCEPT ![m] = @ - 1]

\* Fault k happens, if the instance still admits one.
Happens(k) ==
  /\ k \in Faults
  /\ faults < MaxFaults
  /\ faults' = faults + 1

Goto(c, l)    == step' = [step EXCEPT ![c] = l]
Finish(c, o)  == Goto(c, "done") /\ answer' = [answer EXCEPT ![c] = o]

\* DECRBY and INCRBY create a missing counter at 0.
Take(c) == gate' = [gate EXCEPT ![EventOf(c)] = @ - req[c].qty]
Give(c) == gate' = [gate EXCEPT ![EventOf(c)] = @ + req[c].qty]

\* A command that fails may have been executed.
TakeOrNot(c) == Take(c) \/ UNCHANGED gate
GiveOrNot(c) == Give(c) \/ UNCHANGED gate

-----------------------------------------------------------------------------
(* Postgres: the outcome of one transaction, all at once.                  *)

\* Fault: the UPDATE lacks its condition.
WorkerOutcomeUnchecked(r) ==
  CASE r.event \notin Event          -> "not_found"
    [] r.event \in Event /\ r.key \in KeysOf(booked) -> "duplicate"
    [] OTHER -> "created"

\* The conditional UPDATE comes first, so a key that is booked is noticed
\* only when the event still covers the quantity.
WorkerOutcome(r) ==
  CASE r.event \notin Event          -> "not_found"
    [] r.event \in Event /\ remaining[r.event] < r.qty -> "sold_out"
    [] OTHER -> IF r.key \in KeysOf(booked) THEN "duplicate" ELSE "created"

\* The request paths look the key up first, but not in the same instant.
SyncOutcomes(r) ==
  IF r.key \in KeysOf(booked) THEN {"idempotent_replay", WorkerOutcome(r)} ELSE {WorkerOutcome(r)}

Book(r) ==
  /\ remaining' = [remaining EXCEPT ![r.event] = @ - r.qty]
  /\ booked' = booked \cup {r}

Apply(r, outcome) == IF outcome = "created" THEN Book(r) ELSE UNCHANGED db

-----------------------------------------------------------------------------
(* createAsync: take from the gate, publish, answer 202.                   *)

Submit(c) ==
  /\ step[c] = "idle"
  /\ Goto(c, "decr")
  /\ UNCHANGED <<db, gate, req, answer, queues, slots, counts, faults>>

\* Fault: the reply is not looked at.
DecrUnchecked(c) ==
  /\ step[c] = "decr"
  /\ Take(c)
  /\ Goto(c, "publish")
  /\ UNCHANGED <<db, req, answer, queues, slots, counts, faults>>

\* reserveStock: the reply to DECRBY decides.
Decr(c) ==
  /\ step[c] = "decr"
  /\ Take(c)
  /\ Goto(c, IF gate'[EventOf(c)] < 0 THEN "undo" ELSE "publish")
  /\ UNCHANGED <<db, req, answer, queues, slots, counts, faults>>

\* Fault: it is not.
UndoForgotten(c) ==
  /\ step[c] = "undo"
  /\ Finish(c, "sold_out")
  /\ UNCHANGED <<db, gate, req, queues, slots, counts, faults>>

\* What was taken too much is given back in a second command.
Undo(c) ==
  /\ step[c] = "undo"
  /\ Give(c)
  /\ Finish(c, "sold_out")
  /\ UNCHANGED <<db, req, queues, slots, counts, faults>>

\* Redis is down or either command fails: reserveStock returns null and the
\* call falls back to the synchronous path.
GateFails(c) ==
  /\ Happens("redis")
  /\ \/ step[c] = "decr" /\ TakeOrNot(c)
     \/ step[c] = "undo" /\ GiveOrNot(c)
  /\ Goto(c, "sync")
  /\ UNCHANGED <<db, req, answer, queues, slots, counts>>

Sync(c) ==
  /\ step[c] = "sync"
  /\ \E o \in SyncOutcomes(req[c]) : Apply(req[c], o) /\ Finish(c, o)
  /\ UNCHANGED <<gate, req, queues, slots, counts, faults>>

SyncFails(c) ==
  /\ step[c] = "sync"
  /\ \/ Happens("db") /\ UNCHANGED db
     \/ Happens("commit") /\ WorkerOutcome(req[c]) = "created" /\ Book(req[c])
  /\ Finish(c, "error")
  /\ UNCHANGED <<gate, req, queues, slots, counts>>

\* publish: the message reaches the broker, the confirm is awaited.
Send(c) ==
  /\ step[c] = "publish"
  /\ main' = Put(main, [call |-> c, attempt |-> 0])
  /\ Goto(c, "confirm")
  /\ UNCHANGED <<db, gate, req, answer, retry, dlq, slots, counts, faults>>

SendFails(c) ==
  /\ step[c] = "publish"
  /\ Happens("publish")
  /\ Goto(c, "release")
  /\ UNCHANGED <<db, gate, req, answer, queues, slots, counts>>

Confirm(c) ==
  /\ step[c] = "confirm"
  /\ Finish(c, "accepted")
  /\ UNCHANGED <<db, gate, req, queues, slots, counts, faults>>

ConfirmLost(c) ==
  /\ step[c] = "confirm"
  /\ Happens("confirm")
  /\ Goto(c, "release")
  /\ UNCHANGED <<db, gate, req, answer, queues, slots, counts>>

\* releaseStock, then the exception becomes a 5xx.
Release(c) ==
  /\ step[c] = "release"
  /\ Give(c)
  /\ Finish(c, "error")
  /\ UNCHANGED <<db, req, queues, slots, counts, faults>>

\* releaseStock swallows its errors.
ReleaseFails(c) ==
  /\ step[c] = "release"
  /\ Happens("redis")
  /\ GiveOrNot(c)
  /\ Finish(c, "error")
  /\ UNCHANGED <<db, req, queues, slots, counts>>

\* Fault: a shutdown hook gives back what the call took, published or not.
AppCrashGives(c) ==
  /\ step[c] \in {"publish", "confirm", "release"}
  /\ Happens("app")
  /\ Give(c)
  /\ Finish(c, "crashed")
  /\ UNCHANGED <<db, req, queues, slots, counts>>

AppCrash(c) ==
  /\ step[c] \notin {"idle", "done"}
  /\ Happens("app")
  /\ Finish(c, "crashed")
  /\ UNCHANGED <<db, gate, req, queues, slots, counts>>

GateLost ==
  /\ Happens("evict")
  /\ gate' = [e \in EventId |-> 0]
  /\ UNCHANGED <<db, api, queues, slots, counts>>

-----------------------------------------------------------------------------
(* The worker's consumer callback, one slot per message it may hold.       *)

Stays(s, l) == stage' = [stage EXCEPT ![s] = l]
Frees(s)    == Stays(s, "empty") /\ job' = [job EXCEPT ![s] = NoCopy]
Count(s, o) == consumed' = [consumed EXCEPT ![job[s].call] = @ \cup {o}]
Asks(s)     == req[job[s].call]

Deliver(s) ==
  /\ stage[s] = "empty"
  /\ \E m \in Copy :
       /\ main[m] > 0
       /\ main' = Drop(main, m)
       /\ job' = [job EXCEPT ![s] = m]
  /\ Stays(s, "handle")
  /\ UNCHANGED <<db, gate, api, retry, dlq, counts, faults>>

\* handle returns, or its INSERT meets the unique index: both end in an ack.
Handle(s) ==
  /\ stage[s] = "handle"
  /\ LET o == WorkerOutcome(Asks(s))
     IN  Apply(Asks(s), o) /\ Count(s, o)
  /\ Stays(s, "ack")
  /\ UNCHANGED <<gate, api, queues, job, errors, faults>>

\* Fault (the one worker.js:107-110 tells of): no attempt is repeated.
AfterFailureGiveUp(m) == IF m.attempt + 1 > 0 THEN "dead" ELSE "retry"

\* What a failed attempt leads to.
AfterFailure(m) == IF m.attempt + 1 > MaxRetry THEN "dead" ELSE "retry"

\* Fault: UPDATE and INSERT are not in one transaction.
HandleFailsHalfway(s) ==
  /\ stage[s] = "handle"
  /\ Happens("db")
  /\ WorkerOutcome(Asks(s)) = "created"
  /\ remaining' = [remaining EXCEPT ![Asks(s).event] = @ - Asks(s).qty]
  /\ errors' = [errors EXCEPT ![job[s].call] = @ + 1]
  /\ Stays(s, AfterFailure(job[s]))
  /\ UNCHANGED <<booked, gate, api, queues, job, consumed>>

\* A transaction that fails may have committed.
HandleFails(s) ==
  /\ stage[s] = "handle"
  /\ \/ Happens("db") /\ UNCHANGED db
     \/ Happens("commit") /\ WorkerOutcome(Asks(s)) = "created" /\ Book(Asks(s))
  /\ errors' = [errors EXCEPT ![job[s].call] = @ + 1]
  /\ Stays(s, AfterFailure(job[s]))
  /\ UNCHANGED <<gate, api, queues, job, consumed>>

\* Fault: the original is acked and no copy is sent.
RetryForgotten(s) ==
  /\ stage[s] = "retry"
  /\ Stays(s, "ack")
  /\ UNCHANGED <<db, gate, api, queues, job, counts, faults>>

\* The copy with the next attempt number is sent before the original is acked.
ScheduleRetry(s) ==
  /\ stage[s] = "retry"
  /\ retry' = Put(retry, [job[s] EXCEPT !.attempt = @ + 1])
  /\ Stays(s, "ack")
  /\ UNCHANGED <<db, gate, api, main, dlq, job, counts, faults>>

\* Fault: nack with requeue.
AckRequeues(s) ==
  /\ stage[s] = "ack"
  /\ main' = Put(main, job[s])
  /\ Frees(s)
  /\ UNCHANGED <<db, gate, api, retry, dlq, counts, faults>>

Ack(s) ==
  /\ stage[s] = "ack"
  /\ Frees(s)
  /\ UNCHANGED <<db, gate, api, queues, counts, faults>>

\* nack without requeue: the broker moves the message to the dead-letter queue.
DeadLetter(s) ==
  /\ stage[s] = "dead"
  /\ dlq' = Put(dlq, job[s])
  /\ Frees(s)
  /\ UNCHANGED <<db, gate, api, main, retry, counts, faults>>

\* x-message-ttl of the retry queue runs out.
Expire(m) ==
  /\ retry[m] > 0
  /\ retry' = Drop(retry, m)
  /\ main' = Put(main, m)
  /\ UNCHANGED <<db, gate, api, dlq, slots, counts, faults>>

\* The broker takes back the copies in slots lost; of these, the slots in runs
\* have a transaction that goes on without the channel.
Sever(lost, runs, ended) ==
  /\ main' = [m \in Copy |-> main[m] + Cardinality({s \in lost : job[s] = m})]
  /\ stage' = [s \in Slot |-> IF s \in runs THEN "zombie"
                              ELSE IF s \in lost \cup ended THEN "empty" ELSE stage[s]]
  /\ job' = [s \in Slot |-> IF s \in (lost \cup ended) \ runs THEN NoCopy ELSE job[s]]

Unacked(w) == {s \in Slot : WorkerOf[s] = w /\ stage[s] \notin {"empty", "zombie"}}

\* A worker dies, or only its connection to the broker does.
WorkerGone(w) ==
  /\ Happens("worker")
  /\ Unacked(w) # {}
  /\ \/ Sever(Unacked(w), {s \in Unacked(w) : stage[s] = "handle"}, {})
     \/ Sever(Unacked(w), {}, {s \in Slot : WorkerOf[s] = w})
  /\ UNCHANGED <<db, gate, api, retry, dlq, counts>>

\* Its ack is on a closed channel and throws, and so does what the catch block
\* tries next: the promise rejects unhandled and the worker process dies.
ZombieEnds(s) ==
  /\ stage[s] = "zombie"
  /\ \/ LET o == WorkerOutcome(Asks(s)) IN Apply(Asks(s), o) /\ Count(s, o)
     \/ UNCHANGED <<db, consumed>>
  /\ Sever(Unacked(WorkerOf[s]), {}, {t \in Slot : WorkerOf[t] = WorkerOf[s]})
  /\ UNCHANGED <<gate, api, retry, dlq, errors, faults>>

-----------------------------------------------------------------------------
\* What the program, the broker and the database do without a failure.
CallStep(c) ==
  Submit(c) \/ Decr(c) \/ Undo(c) \/ Sync(c) \/ Send(c) \/ Confirm(c) \/ Release(c)
SlotStep(s) ==
  Deliver(s) \/ Handle(s) \/ ScheduleRetry(s) \/ Ack(s) \/ DeadLetter(s) \/ ZombieEnds(s)

Failure ==
  \/ \E c \in Call : \/ GateFails(c) \/ SyncFails(c) \/ SendFails(c)
                     \/ ConfirmLost(c) \/ ReleaseFails(c) \/ AppCrash(c)
  \/ \E s \in Slot : HandleFails(s)
  \/ \E w \in Worker : WorkerGone(w)
  \/ GateLost

Next ==
  \/ \E c \in Call : CallStep(c)
  \/ \E s \in Slot : SlotStep(s)
  \/ \E m \in Copy : Expire(m)
  \/ Failure

Spec == Init /\ [][Next]_vars

\* The event loops run, the broker delivers, TTLs run out.  A client need not
\* send its request; failures are bounded by MaxFaults.
Fairness ==
  /\ \A c \in Call : WF_vars(step[c] # "idle" /\ CallStep(c))
  /\ \A s \in Slot : WF_vars(SlotStep(s))
  /\ \A m \in Copy : WF_vars(Expire(m))

FairSpec == Spec /\ Fairness

-----------------------------------------------------------------------------
TypeOK ==
  /\ remaining \in [Event -> Nat]
  /\ booked \subseteq Request
  /\ gate \in [EventId -> Int]
  /\ step \in [Call -> Step]
  /\ req \in [Call -> Request]
  /\ answer \in [Call -> ApiAnswer]
  /\ main \in [Copy -> Nat] /\ retry \in [Copy -> Nat] /\ dlq \in [Copy -> Nat]
  /\ job \in [Slot -> Copy \cup {NoCopy}]
  /\ stage \in [Slot -> Stage]
  /\ \A s \in Slot : stage[s] = "empty" <=> job[s] = NoCopy
  /\ consumed \in [Call -> SUBSET Verdict]
  /\ errors \in [Call -> Nat]
  /\ faults \in 0 .. MaxFaults

CopiesOf(c) == {m \in Copy : m.call = c}

\* The broker still has the message of c, delivered or not.
AtBroker(c) ==
  \/ \E m \in CopiesOf(c) : main[m] > 0 \/ retry[m] > 0
  \/ \E s \in Slot : job[s] \in CopiesOf(c) /\ stage[s] # "zombie"

DeadLettered(c) == \E m \in CopiesOf(c) : dlq[m] > 0

\* A worker got a verdict on c from the database.
Decided(c) == consumed[c] # {}

\* A 202 is never a promise nobody remembers: until a worker has had the
\* database's verdict, the message is at the broker or dead-lettered, whatever
\* fails.  (app/src/queue.js:141: "202 was given but it is not in the queue" is
\* the worst state.)
NothingLost == \A c \in Call :
  answer[c] = "accepted" => AtBroker(c) \/ DeadLettered(c) \/ Decided(c)

\* A message is given up only after it failed MaxRetry + 1 times: the bug that
\* sent a transient error straight to the dead-letter queue (worker.js:107-110)
\* stays fixed.
GivenUpOnlyAfterRetries == \A c \in Call :
  DeadLettered(c) => errors[c] >= MaxRetry + 1

\* Calls that hold seats of the gate: their place is still to be given back, or
\* they were promised a row that is not there yet.
Owed(e) == {c \in Call :
  /\ EventOf(c) = e
  /\ \/ step[c] \in {"undo", "publish", "release"}
     \/ (step[c] = "confirm" \/ answer[c] = "accepted") /\ ~KeyBooked(c)}
SeatsHeld(calls) == UNION {{c} \X (1 .. req[c].qty) : c \in calls}
Refused(e) == {c \in Owed(e) : step[c] = "undo"}

\* The gate never hands out a seat the database cannot give: what was promised,
\* and what is owed together with the counter, stay within events.remaining.
\* Reused keys and crashes of the app leave seats unsold, never the reverse.
GateNeverOversells == \A e \in Event :
  /\ Cardinality(SeatsHeld(Owed(e) \ Refused(e))) <= remaining[e]
  /\ gate[e] + Cardinality(SeatsHeld(Owed(e))) <= remaining[e]

FreshKeys == \A c, d \in Call : c # d => req[c].key # req[d].key

\* With a key per call, and unless a call died holding seats, the gate and the
\* database count the same seats through failed publishes, failed transactions,
\* lost answers, retries, redeliveries and dead letters.
GateMatchesStore ==
  FreshKeys /\ (\A c \in Call : answer[c] # "crashed") => \A e \in Event :
    gate[e] + Cardinality(SeatsHeld(Owed(e))) = remaining[e]

\* A 202 is kept: the database rejects a message only when the reservation it
\* asks for is there already.
PromiseKept == \A c \in Call :
  answer[c] = "accepted" /\ consumed[c] \cap {"sold_out", "not_found"} # {} => KeyBooked(c)

\* A copy of the message of c is in a queue or in the hands of a worker.
Copied(c) ==
  \/ \E m \in CopiesOf(c) : main[m] > 0 \/ retry[m] > 0
  \/ \E s \in Slot : job[s] \in CopiesOf(c)

\* Calls that seats are held for until their row appears: they took them from
\* the gate, were told so, or died after the publish and left a message behind.
Promised == {c \in Call :
  /\ ~KeyBooked(c)
  /\ \/ step[c] \in {"publish", "confirm", "release"}
     \/ answer[c] = "accepted"
     \/ Copied(c)}
Accepted == {c \in Call : answer[c] = "accepted"}

\* The gate, the queues, the workers and their retries amount to promises that
\* the database can keep, each fulfilled at most once and none taken back after
\* its 202 (app/src/cache.js:209-217, app/src/reservation.js:246-252).
Promises == INSTANCE PromiseStore WITH promised <- Promised, accepted <- Accepted
ImplementsPromises == Promises!Spec

\* docs/slo.md:38, "failures after a 202 = 0": the counter async_inconsistency
\* stays at 0.
NoInconsistency == \A c \in Call :
  consumed[c] \cap {"sold_out", "not_found"} = {}

\* Every 202 comes to an end, once failures do: the workers get a verdict or
\* give the message up.  It follows from what the queues remember and from their
\* coming to rest.
AcceptedIsSettled == \A c \in Call :
  answer[c] = "accepted" ~> Decided(c) \/ DeadLettered(c)

Drained == /\ \A m \in Copy : main[m] = 0 /\ retry[m] = 0
           /\ \A s \in Slot : stage[s] = "empty"

\* Nothing keeps circulating: once failures end, the queues and the workers'
\* hands are empty for good.
QueuesDrain == <>[]Drained
=============================================================================
